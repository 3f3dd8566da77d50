----------------------- MODULE RecordTimerOrderProofs -----------------------
(***************************************************************************)
(* Theorems about RecordTimer that need the order of timer_list, or how    *)
(* calls nest, for all its constants; parts 1 to 6 are in                  *)
(* RecordTimerProofs:                                                      *)
(*                                                                         *)
(*   7. timer_list is in the order of the next activations, and so no      *)
(*      timer that is due is left behind and the box wakes up in time;     *)
(*   8. removeEntry, which aborts a timer that records and looks for it in *)
(*      processed_timers, finds it there;                                  *)
(*   9. a repeated timer keeps its time of day;                            *)
(*  10. a restart brings back every timer that is to be saved, as it was.  *)
(*                                                                         *)
(* Parts 7 and 8 need that nothing is edited: an edit leaves the timer     *)
(* where it is in timer_list.  Parts 9 and 10 do not look at the order;    *)
(* they need that no recording fails to start, which puts it off.          *)
(***************************************************************************)
EXTENDS RecordTimerProofs

-----------------------------------------------------------------------------
(***************************************************************************)
(*                      7. The order of timer_list                         *)
(*                                                                         *)
(* insort keeps timer_list in the order of the next activations, as long   *)
(* as no timer in it is changed in place.  The editor does that (EditTimer *)
(* and the keys of the list of conflicts), so this part is about a box     *)
(* where the user does not use it.  runningEventCallback does it, too, but *)
(* activates the timer at once: timer_list is in order but for that timer. *)
(***************************************************************************)

\* The operations that leave a changed timer where it is, and the answer that
\* may bring a timer into timer_list twice.
Unedited == UserOps \cap {"retry", "edit", "conflict"} = {}

\* With the entries ent, list is in order when the timers in S are left out.
SortedBut(ent, list, S) ==
    \A i, j \in DOMAIN list :
      i < j /\ list[i] \notin S /\ list[j] \notin S
        => GetNextActivation(ent[list[i]]) <= GetNextActivation(ent[list[j]])

Sorted(ent, list) == SortedBut(ent, list, {})

\* The timer a call about to be made enqueues again.
Reordered == IF In("activate") THEN {Top.t} ELSE {}

\* A box that boots begins with empty lists.
Ordered == In("boot") \/ SortedBut(entry, timer_list, Reordered)

LEMMA OrderedWhenSorted == Sorted(entry, timer_list) <=> InOrder
  BY DEF Sorted, SortedBut, InOrder, NextActivation

LEMMA KeysType ==
    ASSUME NEW ent \in [Timers -> Entries], NEW t \in Timers
    PROVE  GetNextActivation(ent[t]) \in Int
  BY GetNextActivationType

\* bisect finds a place where the list stays in order.
LEMMA InsertAfterSorted ==
    ASSUME entry \in [Timers -> Entries], NEW t \in Timers, NEW e \in Entries,
           NEW active \in Seq(Timers), t \notin Members(active),
           Sorted(entry, active),
           NEW p \in InsertPoints(active, GetNextActivation(e)),
           NEW ent, ent = [entry EXCEPT ![t] = e]
    PROVE  Sorted(ent, InsertAfter(active, p, t))
  <1> DEFINE new == InsertAfter(active, p, t)
             Old(i) == GetNextActivation(entry[active[i]])
             Key(i) == GetNextActivation(ent[new[i]])
             key == GetNextActivation(e)
  <1>1. /\ p \in 0..Len(active) /\ Len(active) \in Nat
        /\ DOMAIN active = 1..Len(active)
        /\ \A i \in 1..Len(active) : active[i] \in Timers /\ active[i] # t
        /\ DOMAIN new = 1..Len(active) + 1
        /\ \A i \in 1..Len(active) + 1 :
             new[i] = IF i <= p THEN active[i]
                      ELSE IF i = p + 1 THEN t ELSE active[i - 1]
    BY InsertPointsType, SeqFacts DEF InsertAfter, Members
  <1>2. /\ ent[t] = e /\ key \in Int
        /\ \A u \in Timers : u # t => ent[u] = entry[u]
    BY GetNextActivationType
  <1>3. \A i \in 1..Len(active) : Old(i) \in Int
    BY <1>1, KeysType
  <1>4. \A i, j \in 1..Len(active) : i < j => Old(i) <= Old(j)
    BY <1>1 DEF Sorted, SortedBut
  <1>5. /\ p = 0 \/ Old(p) <= key
        /\ p = Len(active) \/ key < Old(p + 1)
    BY DEF InsertPoints, NextActivation
  <1>6. \A i \in 1..Len(active) + 1 :
          Key(i) = IF i <= p THEN Old(i)
                   ELSE IF i = p + 1 THEN key ELSE Old(i - 1)
    <2> SUFFICES ASSUME NEW i \in 1..Len(active) + 1
                 PROVE  Key(i) = IF i <= p THEN Old(i)
                                 ELSE IF i = p + 1 THEN key ELSE Old(i - 1)
      OBVIOUS
    <2>1. CASE i <= p
      <3>1. i \in 1..Len(active) /\ new[i] = active[i]
        BY <1>1, <2>1
      <3> QED BY <1>1, <1>2, <2>1, <3>1
    <2>2. CASE i = p + 1
      <3>1. new[i] = t /\ ~(i <= p)
        BY <1>1, <2>2
      <3> QED BY <1>2, <2>2, <3>1
    <2>3. CASE i > p + 1
      <3>1. /\ i - 1 \in 1..Len(active) /\ new[i] = active[i - 1]
            /\ ~(i <= p) /\ i # p + 1
        BY <1>1, <2>3
      <3> QED BY <1>1, <1>2, <3>1
    <2> QED BY <1>1, <2>1, <2>2, <2>3
  <1> HIDE DEF new, Old, Key, key
  <1>7. \A i \in 1..p : Old(i) <= key
    <2> SUFFICES ASSUME NEW i \in 1..p PROVE Old(i) <= key
      OBVIOUS
    <2>1. i \in 1..Len(active) /\ p \in 1..Len(active) /\ p # 0
      BY <1>1
    <2>2. Old(p) <= key /\ Old(i) \in Int /\ Old(p) \in Int
      BY <1>3, <1>5, <2>1
    <2>3. i = p \/ Old(i) <= Old(p)
      BY <1>4, <2>1
    <2> QED BY <1>2, <2>2, <2>3
  <1>8. \A i \in 1..Len(active) : i > p => key <= Old(i)
    <2> SUFFICES ASSUME NEW i \in 1..Len(active), i > p PROVE key <= Old(i)
      OBVIOUS
    <2>1. PICK q \in 1..Len(active) : q = p + 1
      BY <1>1
    <2> DEFINE n == Len(active)
    <2>0. n \in Int /\ p \in Int /\ i \in Int /\ p < i /\ i <= n /\ q = p + 1
      BY <1>1, <2>1
    <2>2. p # n /\ (q = i \/ q < i)
      <3> HIDE DEF n
      <3> QED BY ONLY <2>0
    <2>3. key < Old(q)
      BY <1>5, <2>1, <2>2
    <2>4. q = i \/ Old(q) <= Old(i)
      BY <1>4, <2>2
    <2>5. Old(i) \in Int /\ Old(q) \in Int
      BY <1>3
    <2> QED BY <1>2, <2>3, <2>4, <2>5
  <1>9. \A i, j \in 1..Len(active) + 1 : i < j => Key(i) <= Key(j)
    <2> SUFFICES ASSUME NEW i \in 1..Len(active) + 1,
                        NEW j \in 1..Len(active) + 1, i < j
                 PROVE  Key(i) <= Key(j)
      OBVIOUS
    <2>1. CASE j <= p
      <3>1. i \in 1..Len(active) /\ j \in 1..Len(active) /\ i <= p
        BY <1>1, <2>1
      <3> QED BY <1>4, <1>6, <2>1, <3>1
    <2>2. CASE j = p + 1
      <3>1. i \in 1..p /\ ~(j <= p)
        BY <1>1, <2>2
      <3> QED BY <1>6, <1>7, <2>2, <3>1
    <2>3. CASE j > p + 1 /\ i <= p
      <3>1. /\ i \in 1..Len(active) /\ j - 1 \in 1..Len(active) /\ i < j - 1
            /\ ~(j <= p) /\ j # p + 1
        BY <1>1, <2>3
      <3>2. Key(i) = Old(i) /\ Key(j) = Old(j - 1)
        BY <1>6, <2>3, <3>1
      <3> QED BY <1>4, <3>1, <3>2
    <2>4. CASE j > p + 1 /\ i = p + 1
      <3>1. /\ j - 1 \in 1..Len(active) /\ j - 1 > p
            /\ ~(j <= p) /\ j # p + 1 /\ ~(i <= p)
        BY <1>1, <2>4
      <3>2. Key(i) = key /\ Key(j) = Old(j - 1)
        BY <1>6, <2>4, <3>1
      <3> QED BY <1>8, <3>1, <3>2
    <2>5. CASE j > p + 1 /\ i > p + 1
      <3>1. /\ i - 1 \in 1..Len(active) /\ j - 1 \in 1..Len(active)
            /\ i - 1 < j - 1 /\ ~(j <= p) /\ j # p + 1 /\ ~(i <= p)
            /\ i # p + 1
        BY <1>1, <2>5
      <3>2. Key(i) = Old(i - 1) /\ Key(j) = Old(j - 1)
        BY <1>6, <2>5, <3>1
      <3> QED BY <1>4, <3>1, <3>2
    <2> QED BY <1>1, <2>1, <2>2, <2>3, <2>4, <2>5
  <1> QED BY <1>1, <1>9 DEF Sorted, SortedBut, new, Key

\* What is left of a list is in the order it was in.
LEMMA RemoveTimerSorted ==
    ASSUME NEW ent, NEW list \in Seq(Timers), NEW t, NoDuplicates(list),
           SortedBut(ent, list, {t})
    PROVE  Sorted(ent, RemoveTimer(list, t))
  <1>1. CASE t \notin Members(list)
    <2>1. \A i \in DOMAIN list : list[i] # t
      BY <1>1 DEF Members
    <2> QED BY <1>1, <2>1 DEF RemoveTimer, Sorted, SortedBut
  <1>2. CASE t \in Members(list)
    <2> DEFINE at == CHOOSE i \in DOMAIN list :
                       list[i] = t /\ \A j \in 1..i - 1 : list[j] # t
               new == [i \in 1..Len(list) - 1 |->
                         IF i < at THEN list[i] ELSE list[i + 1]]
    <2>1. Len(list) \in Nat /\ DOMAIN list = 1..Len(list)
      BY SeqFacts
    <2>2. \A i, j \in DOMAIN list : list[i] = list[j] => i = j
      BY DEF NoDuplicates
    <2>3. at \in DOMAIN list /\ list[at] = t
      <3>1. PICK i \in DOMAIN list : list[i] = t
        BY <1>2 DEF Members
      <3>2. \A j \in 1..i - 1 : j \in DOMAIN list /\ j # i
        BY <2>1, <3>1
      <3>3. \A j \in 1..i - 1 : list[j] # t
        BY <2>2, <3>1, <3>2
      <3> QED BY <3>1, <3>3
    <2>4. RemoveTimer(list, t) = new
      BY <1>2 DEF RemoveTimer
    <2> DEFINE place == [i \in DOMAIN new |-> IF i < at THEN i ELSE i + 1]
    <2> HIDE DEF at
    <2>5. \A i \in DOMAIN new : /\ place[i] \in DOMAIN list
                                /\ place[i] # at /\ new[i] = list[place[i]]
      BY <2>1, <2>3
    <2>6. \A i, j \in DOMAIN new : i < j => place[i] < place[j]
      BY <2>1, <2>3
    <2>7. \A i \in DOMAIN new : new[i] \notin {t}
      BY <2>2, <2>3, <2>5
    <2> HIDE DEF new, place
    <2> SUFFICES ASSUME NEW i \in DOMAIN new, NEW j \in DOMAIN new, i < j
                 PROVE  GetNextActivation(ent[new[i]])
                          <= GetNextActivation(ent[new[j]])
      BY <2>4 DEF Sorted, SortedBut
    <2> QED BY <2>5, <2>6, <2>7 DEF SortedBut
  <1> QED BY <1>1, <1>2

-----------------------------------------------------------------------------
(***************************************************************************)
(* What the helpers do that move a timer.                                  *)
(***************************************************************************)

\* t is put into one of the lists; nothing happens to the other timers.
Moves(t, k) ==
    /\ \A u \in Timers \ {t} : entry'[u] = entry[u]
    /\ Members(timer_list') \ {t} = Members(timer_list) \ {t}
    /\ Members(processed_timers') \ {t} = Members(processed_timers) \ {t}
    /\ t \in Members(timer_list') \cup Members(processed_timers')
    /\ InOrder' /\ Resumes(k)

\* If t is enqueued, the next activation is calculated again.
Recalculates(t, k) == t \in Members(timer_list') => todo' = <<Calc>> \o k

LEMMA SortedElsewhere ==
    ASSUME NEW t \in Timers, NEW list \in Seq(Timers), t \notin Members(list),
           Sorted(entry, list), \A u \in Timers \ {t} : entry'[u] = entry[u]
    PROVE  Sorted(entry', list)
  <1>1. \A i \in DOMAIN list : list[i] \in Timers \ {t}
    BY SeqFacts DEF Members
  <1> QED BY <1>1 DEF Sorted, SortedBut

LEMMA SortedWithout ==
    ASSUME NEW ent, NEW list, NEW t, t \notin Members(list),
           SortedBut(ent, list, {t})
    PROVE  Sorted(ent, list)
  <1>1. \A i \in DOMAIN list : list[i] # t
    BY DEF Members
  <1> QED BY <1>1 DEF Sorted, SortedBut

LEMMA EnqueueMoves ==
    ASSUME entry \in [Timers -> Entries], NEW t \in Timers, NEW e \in Entries,
           NEW active \in Seq(Timers), Sorted(entry, active), NEW k, NEW next,
           Members(active) = Members(timer_list) \ {t},
           Members(processed_timers') = Members(processed_timers) \ {t},
           Enqueue(t, e, active, next), Resumes(k)
    PROVE  Moves(t, k)
  <1>1. PICK p \in InsertPoints(active, GetNextActivation(e)) :
          timer_list' = InsertAfter(active, p, t)
    BY DEF Enqueue
  <1>2. Members(timer_list') = Members(active) \cup {t}
    BY <1>1, InsertPointsType, InsertAfterMembers
  <1>3. entry' = [entry EXCEPT ![t] = e]
    BY DEF Enqueue
  <1>4. Sorted(entry', timer_list')
    BY <1>1, <1>3, InsertAfterSorted
  <1>5. InOrder'
    BY <1>4 DEF Sorted, SortedBut, InOrder, NextActivation
  <1> QED BY <1>2, <1>3, <1>5 DEF Moves

LEMMA RetireMoves ==
    ASSUME entry \in [Timers -> Entries], NEW t \in Timers, NEW e \in Entries,
           NEW processed \in Seq(Timers), NEW k,
           timer_list' \in Seq(Timers), Sorted(entry, timer_list'),
           Members(timer_list') = Members(timer_list) \ {t},
           Members(processed) = Members(processed_timers) \ {t},
           Retire(t, e, processed, k)
    PROVE  /\ Moves(t, k) /\ todo' = k
           /\ t \notin Members(timer_list') /\ t \in Members(processed_timers')
  <1>1. PICK p \in InsertPoints(processed, GetNextActivation(e)) :
          processed_timers' = InsertAfter(processed, p, t)
    BY DEF Retire
  <1>2. Members(processed_timers') = Members(processed) \cup {t}
    BY <1>1, InsertPointsType, InsertAfterMembers
  <1>3. todo' = k /\ \A u \in Timers \ {t} : entry'[u] = entry[u]
    BY DEF Retire
  <1>4. Sorted(entry', timer_list')
    BY <1>3, SortedElsewhere
  <1>5. InOrder'
    BY <1>4 DEF Sorted, SortedBut, InOrder, NextActivation
  <1> QED BY <1>2, <1>3, <1>5 DEF Moves, Resumes

LEMMA AddTimerEntryMoves ==
    ASSUME entry \in [Timers -> Entries], NEW t \in Timers, NEW e \in Entries,
           NEW active \in Seq(Timers), Sorted(entry, active),
           NEW processed \in Seq(Timers), NEW k, NEW noRecalc \in BOOLEAN,
           Members(active) = Members(timer_list) \ {t},
           Members(processed) = Members(processed_timers) \ {t},
           AddTimerEntry(t, e, active, processed, k, noRecalc)
    PROVE  /\ Moves(t, k)
           /\ IF noRecalc THEN todo' = k ELSE Recalculates(t, k)
  <1>1. PICK x \in ProcessRepeated(e, now, TRUE) :
          IF AlreadyPassed(x)
          THEN Retire(t, x, processed, k) /\ timer_list' = active
          ELSE /\ Enqueue(t, x, active, Recalc(k, noRecalc))
               /\ processed_timers' = processed
    BY DEF AddTimerEntry
  <1>2. x \in Entries
    BY ProcessRepeatedType
  <1>3. CASE AlreadyPassed(x)
    <2>1. Retire(t, x, processed, k) /\ timer_list' = active
      BY <1>1, <1>3
    <2>2. /\ Moves(t, k) /\ todo' = k
          /\ t \notin Members(timer_list')
      BY <1>2, <2>1, RetireMoves
    <2> QED BY <2>2 DEF Recalculates
  <1>4. CASE ~AlreadyPassed(x)
    <2>1. /\ Enqueue(t, x, active, Recalc(k, noRecalc))
          /\ processed_timers' = processed
      BY <1>1, <1>4
    <2>2. todo' = IF noRecalc THEN k ELSE <<Calc>> \o k
      BY <2>1 DEF Enqueue, Recalc
    <2>3. Resumes(k)
      BY <2>2 DEF Resumes
    <2>4. Moves(t, k)
      BY <1>2, <2>1, <2>3, EnqueueMoves
    <2> QED BY <2>2, <2>4 DEF Recalculates
  <1> QED BY <1>3, <1>4

LEMMA TimerTimeChangedMoves ==
    ASSUME ListTypes, ListsConsistent, NEW t \in Timers,
           SortedBut(entry, timer_list, {t}), NEW e \in Entries,
           e.state = entry[t].state, NEW k, TimerTimeChanged(t, e, k)
    PROVE  Moves(t, k) /\ Recalculates(t, k)
  <1> DEFINE changed == TimeChanged(e)
             restored == IF e.state = StateEnded
                         THEN [changed EXCEPT !.state = StateWaiting]
                         ELSE changed
             active == IF e.state = StateEnded THEN timer_list
                       ELSE RemoveTimer(timer_list, t)
             processed == IF e.state = StateEnded
                          THEN RemoveTimer(processed_timers, t)
                          ELSE processed_timers
  <1>1. AddTimerEntry(t, restored, active, processed, k, FALSE)
    BY DEF TimerTimeChanged
  <1>2. restored \in Entries
    <2>1. changed \in Entries
      BY TimeChangedType
    <2> QED BY <2>1, StateType
  <1>3. /\ active \in Seq(Timers) /\ processed \in Seq(Timers)
        /\ entry \in [Timers -> Entries] /\ timer_list \in Seq(Timers)
        /\ processed_timers \in Seq(Timers)
    BY RemoveTimerType DEF ListTypes
  <1>4. /\ Members(RemoveTimer(timer_list, t)) = Members(timer_list) \ {t}
        /\ Members(RemoveTimer(processed_timers, t))
             = Members(processed_timers) \ {t}
    BY <1>3, RemoveTimerMembers DEF ListsConsistent
  <1>5. /\ Members(active) = Members(timer_list) \ {t}
        /\ Members(processed) = Members(processed_timers) \ {t}
    BY <1>4 DEF ListsConsistent
  <1>6. Sorted(entry, active)
    <2>1. CASE e.state = StateEnded
      <3>1. t \notin Members(timer_list)
        BY <2>1 DEF ListsConsistent
      <3> QED BY <2>1, <3>1, SortedWithout
    <2>2. CASE e.state # StateEnded
      BY <1>3, <2>2, RemoveTimerSorted DEF ListsConsistent
    <2> QED BY <2>1, <2>2
  <1> HIDE DEF restored, active, processed
  <1>7. /\ Moves(t, k)
        /\ IF FALSE THEN todo' = k ELSE Recalculates(t, k)
    BY <1>1, <1>2, <1>3, <1>5, <1>6, AddTimerEntryMoves
  <1> QED BY <1>7

LEMMA RequeueMoves ==
    ASSUME ListTypes, ListsConsistent, NEW t \in Timers,
           entry[t].state # StateEnded, SortedBut(entry, timer_list, {t}),
           NEW e \in Entries, NEW k, Requeue(t, e, k)
    PROVE  Moves(t, k)
  <1> DEFINE active == RemoveTimer(timer_list, t)
  <1>1. /\ active \in Seq(Timers) /\ entry \in [Timers -> Entries]
        /\ timer_list \in Seq(Timers) /\ processed_timers \in Seq(Timers)
    BY RemoveTimerType DEF ListTypes
  <1>2. /\ Members(active) = Members(timer_list) \ {t}
        /\ Members(processed_timers) = Members(processed_timers) \ {t}
    BY <1>1, RemoveTimerMembers DEF ListsConsistent
  <1>3. Sorted(entry, active)
    BY <1>1, RemoveTimerSorted DEF ListsConsistent
  <1>4. \/ Enqueue(t, e, active, k) /\ UNCHANGED processed_timers
        \/ \E x \in ProcessRepeated(e, now, TRUE) :
             AddTimerEntry(t, [x EXCEPT !.state = StateWaiting], active,
                           processed_timers, k, FALSE)
        \/ Retire(t, e, processed_timers, k) /\ timer_list' = active
    BY DEF Requeue
  <1> HIDE DEF active
  <1>5. ASSUME Enqueue(t, e, active, k), UNCHANGED processed_timers
        PROVE  Moves(t, k)
    <2>1. Resumes(k)
      BY <1>5 DEF Enqueue, Resumes
    <2> QED BY <1>1, <1>2, <1>3, <1>5, <2>1, EnqueueMoves
  <1>6. ASSUME NEW x \in ProcessRepeated(e, now, TRUE),
               AddTimerEntry(t, [x EXCEPT !.state = StateWaiting], active,
                             processed_timers, k, FALSE)
        PROVE  Moves(t, k)
    <2>1. x \in Entries
      BY ProcessRepeatedType
    <2>2. [x EXCEPT !.state = StateWaiting] \in Entries
      BY <2>1, StateType
    <2> QED BY <1>1, <1>2, <1>3, <1>6, <2>2, AddTimerEntryMoves
  <1>7. ASSUME Retire(t, e, processed_timers, k), timer_list' = active
        PROVE  Moves(t, k)
    BY <1>1, <1>2, <1>3, <1>7, RetireMoves
  <1> QED BY <1>4, <1>5, <1>6, <1>7

LEMMA ActivationMoves ==
    ASSUME TypeOK, ListsInv, NEW t \in Timers, NEW k, DoActivate(t, k),
           SortedBut(entry, timer_list, {t})
    PROVE  Moves(t, k)
  <1>1. PICK x \in Entries : Requeue(t, x, k) /\ entry[t].state # StateEnded
    BY ActivationRequeues
  <1> QED BY <1>1, RequeueMoves, TypeParts DEF ListsInv
-----------------------------------------------------------------------------
(***************************************************************************)
(* How a call goes on: it moves a timer, or it leaves timer_list alone.    *)
(***************************************************************************)

\* timer_list stays as it is, with the timers in it.
Untouched ==
    /\ UNCHANGED timer_list
    /\ \A u \in Members(timer_list) : entry'[u] = entry[u]

\* Calls that are there only when the box goes down.
Alone == {"save", "write", "boot"}

BootIsLast ==
    \A f \in Members(todo) :
      f.op = "boot" => \A g \in Members(todo) : g.op \in Alone

\* What only the user or the end of the box begins.
Begun == {"boot", "add", "edited", "remove", "activate", "retime"}

\* The calls to come: those that were to come anyway, and new ones in their way.
Later(k) ==
    /\ k \in Seq(Frames) /\ Members(Rest) \subseteq Members(k)
    /\ \A f \in Members(k) : f \in Members(Rest) \/ f.op \notin Begun

\* The next activation is being calculated.
Calculating(stack) == \E f \in Members(stack) : f.op \in Timely

Quiet(k) ==
    /\ todo' = k /\ Untouched
    /\ Top.op \notin {"boot", "activate", "retime"}
    /\ Top.op \in {"save", "write"} => k = Rest

Moved(k) ==
    \E t \in Timers :
      /\ Moves(t, k)
      /\ Top.op \notin Alone
      /\ Top.op \in {"activate", "retime"} => t = Top.t
      /\ Recalculates(t, k) \/ Top.op \in {"activate", "process", "rearm"}

Proceeds ==
    /\ todo # <<>>
    /\ \E k : /\ Later(k) /\ (Quiet(k) \/ Moved(k))
              /\ Top.op \in Timely => Calculating(k)

Boots == todo' = <<BootFrame>>

LEMMA SortedFewer ==
    ASSUME NEW ent, NEW list, NEW S, NEW T, S \subseteq T,
           SortedBut(ent, list, S)
    PROVE  SortedBut(ent, list, T)
  BY DEF SortedBut

LEMMA OrderedNow ==
    ASSUME Ordered, ~In("boot"), ~In("activate")
    PROVE  /\ Sorted(entry, timer_list)
           /\ \A t : SortedBut(entry, timer_list, {t})
  <1>1. Sorted(entry, timer_list)
    BY DEF Ordered, Reordered, Sorted
  <1>2. ASSUME NEW t PROVE SortedBut(entry, timer_list, {t})
    BY <1>1, SortedFewer DEF Sorted
  <1> QED BY <1>1, <1>2

LEMMA InOrderOrdered ==
    ASSUME InOrder'
    PROVE  Ordered'
  BY DEF InOrder, NextActivation, Ordered, SortedBut

LEMMA UntouchedOrdered ==
    ASSUME Untouched, Sorted(entry, timer_list)
    PROVE  InOrder'
  <1>1. \A i \in DOMAIN timer_list : entry'[timer_list[i]] = entry[timer_list[i]]
    BY DEF Untouched, Members
  <1> QED BY <1>1 DEF Untouched, Sorted, SortedBut, InOrder, NextActivation

LEMMA TopAlone ==
    ASSUME TypeOK, todo # <<>>, BootIsLast,
           NEW f \in Members(Rest), f.op = "boot"
    PROVE  \A g \in Members(todo) : g.op \in Alone
  BY RestMembers DEF BootIsLast

LEMMA ProceedsOrdered ==
    ASSUME TypeOK, Ordered, BootIsLast, Proceeds
    PROVE  Ordered' /\ BootIsLast'
  <1>1. PICK k : Later(k) /\ (Quiet(k) \/ Moved(k)) /\ todo # <<>>
    BY DEF Proceeds
  <1>2. Top \in Members(todo) /\ Members(Rest) \subseteq Members(todo)
    BY <1>1, RestMembers
  <1>3. CASE Quiet(k)
    <2>1. Ordered'
      <3>1. ~In("boot") /\ ~In("activate") /\ Untouched
        BY <1>3 DEF Quiet, In
      <3> QED BY <3>1, OrderedNow, UntouchedOrdered, InOrderOrdered
    <2>2. ASSUME NEW f \in Members(todo'), f.op = "boot"
          PROVE  \A g \in Members(todo') : g.op \in Alone
      <3>1. f \in Members(Rest)
        BY <1>1, <1>3, <2>2 DEF Quiet, Later, Begun
      <3>2. \A g \in Members(todo) : g.op \in Alone
        BY <1>1, <2>2, <3>1, TopAlone
      <3>3. k = Rest
        BY <1>2, <1>3, <3>2 DEF Quiet, Alone
      <3> QED BY <1>2, <1>3, <3>2, <3>3 DEF Quiet
    <2> QED BY <2>1, <2>2 DEF BootIsLast
  <1>4. CASE Moved(k)
    <2>1. PICK t \in Timers : Moves(t, k) /\ Top.op \notin Alone
      BY <1>4 DEF Moved
    <2>2. Ordered'
      BY <2>1, InOrderOrdered DEF Moves
    <2>3. \A f \in Members(todo') : f \in Members(k) \/ f.op = "calc"
      BY <1>1, <2>1, ResumedMembers DEF Moves, Later
    <2>4. \A f \in Members(todo') : f.op # "boot"
      <3>1. \A f \in Members(Rest) : f.op # "boot"
        BY <1>1, <1>2, <2>1, TopAlone
      <3> QED BY <1>1, <2>3, <3>1 DEF Later, Begun
    <2> QED BY <2>2, <2>4 DEF BootIsLast
  <1> QED BY <1>1, <1>3, <1>4

LEMMA BootsOrdered ==
    ASSUME Boots
    PROVE  Ordered' /\ BootIsLast'
  <1>1. Members(todo') = {BootFrame} /\ BootFrame.op = "boot"
    BY SingletonMembers, BootFrameType DEF Boots
  <1>2. In("boot")'
    BY <1>1 DEF In, Top, Boots
  <1> QED BY <1>1, <1>2 DEF Ordered, BootIsLast, Alone

LEMMA LaterRest ==
    ASSUME TypeOK, todo # <<>>
    PROVE  Later(Rest)
  BY TopType DEF Later, TypeOK

LEMMA LaterPush ==
    ASSUME TypeOK, todo # <<>>, NEW f \in Frames, f.op \notin Begun
    PROVE  Later(<<f>> \o Rest) /\ f \in Members(<<f>> \o Rest)
  <1>1. Rest \in Seq(Frames)
    BY TopType DEF TypeOK
  <1>2. /\ <<f>> \o Rest \in Seq(Frames)
        /\ Members(<<f>> \o Rest) = {f} \cup Members(Rest)
    BY <1>1, MembersPush
  <1> QED BY <1>2 DEF Later

\* A call that returns, or goes on with its next round.
LEMMA QuietProceeds ==
    ASSUME Ready, todo # <<>>, NEW k, Later(k), todo' = k, Untouched,
           Top.op \notin {"boot", "activate", "retime"},
           Top.op \in {"save", "write"} => k = Rest,
           Top.op \in Timely => Calculating(k)
    PROVE  Proceeds
  BY DEF Proceeds, Quiet

LEMMA MovedProceeds ==
    ASSUME Ready, todo # <<>>, NEW k, Later(k), NEW t \in Timers, Moves(t, k),
           Top.op \notin Alone, Top.op \in {"activate", "retime"} => t = Top.t,
           Recalculates(t, k) \/ Top.op \in {"activate", "process", "rearm"},
           Top.op \in Timely => Calculating(k)
    PROVE  Proceeds
  BY DEF Proceeds, Moved

LEMMA CalcNextActivationProceeds ==
    ASSUME Ready, CalcNextActivation
    PROVE  Proceeds
  <1>1. TypeOK /\ todo # <<>> /\ Top.op = "calc" /\ Untouched
    BY ReadyParts DEF CalcNextActivation, In, Untouched
  <1>2. PICK f \in Frames :
          f.op \in {"rearm", "process"} /\ todo' = <<f>> \o Rest
    <2> DEFINE f == Frame("rearm", NoTimer, 0, processed_timers)
    <2>1. f \in Frames /\ f.op = "rearm"
      BY <1>1, FrameType DEF TypeOK, Frame
    <2>2. Process \in Frames /\ Process.op = "process"
      BY <1>1, ProcessFrame
    <2>3. todo' = <<f>> \o Rest \/ todo' = <<Process>> \o Rest
      BY DEF CalcNextActivation
    <2> HIDE DEF f
    <2> QED BY <2>1, <2>2, <2>3
  <1>3. Later(<<f>> \o Rest) /\ Calculating(<<f>> \o Rest)
    BY <1>1, <1>2, LaterPush DEF Begun, Calculating, Timely
  <1> QED BY <1>1, <1>2, <1>3, QuietProceeds

LEMMA ReEvaluateProceeds ==
    ASSUME Ready, Ordered, ReEvaluate
    PROVE  Proceeds
  <1>1. /\ TypeOK /\ todo # <<>> /\ Top.op = "rearm" /\ In("rearm")
        /\ ListsInv /\ ListsConsistent
        /\ timer_list \in Seq(Timers) /\ processed_timers \in Seq(Timers)
    BY ReadyParts DEF ReEvaluate, In, TypeOK
  <1>2. /\ Top.rest \in Seq(Timers)
        /\ \A r \in Seq(Timers) : [Top EXCEPT !.rest = r] \in Frames
    BY <1>1, TopOfKind DEF TypeOK
  <1>3. CASE Top.rest = <<>>
    <2>1. Process \in Frames /\ Process.op = "process"
      BY <1>1, ProcessFrame
    <2>2. todo' = <<Process>> \o Rest /\ Untouched
      BY <1>3 DEF ReEvaluate, Untouched
    <2>3. Later(<<Process>> \o Rest) /\ Calculating(<<Process>> \o Rest)
      BY <1>1, <2>1, LaterPush DEF Begun, Calculating, Timely
    <2> QED BY <1>1, <2>2, <2>3, QuietProceeds
  <1>4. CASE Top.rest # <<>>
    <2> DEFINE x == Head(Top.rest)
               e == ResetState(entry[x])
               f == [Top EXCEPT !.rest = Tail(Top.rest)]
               k == <<f>> \o Rest
    <2>1. /\ x \in Timers /\ Tail(Top.rest) \in Seq(Timers)
          /\ x \in Members(Top.rest)
      BY <1>2, <1>4, MembersTail
    <2>2. x \notin Known
      BY <1>1, <2>1 DEF ListsInv
    <2>3. e \in Entries
      BY <2>1, ReadyParts, ResetStateType
    <2>4. AddTimerEntry(x, e, timer_list, processed_timers, k, TRUE)
      BY <1>4 DEF ReEvaluate
    <2>5. f \in Frames /\ f.op = "rearm"
      <3>1. Top \in Frames
        BY <1>1, TopType DEF TypeOK
      <3> QED BY <1>1, <1>2, <2>1, <3>1 DEF Frames
    <2>6. /\ Sorted(entry, timer_list)
          /\ Members(timer_list) = Members(timer_list) \ {x}
          /\ Members(processed_timers) = Members(processed_timers) \ {x}
      BY <1>1, <2>2, OrderedNow DEF In, Known
    <2> HIDE DEF x, e, f
    <2>7. Moves(x, k)
      BY <1>1, <2>1, <2>3, <2>4, <2>6, AddTimerEntryMoves DEF TypeOK
    <2>8. Later(k) /\ Calculating(k)
      BY <1>1, <2>5, LaterPush DEF Begun, Calculating, Timely
    <2> HIDE DEF k
    <2> QED BY <1>1, <2>1, <2>7, <2>8, MovedProceeds DEF Alone
  <1> QED BY <1>3, <1>4

LEMMA ProcessActivationProceeds ==
    ASSUME Ready, Ordered, ProcessActivation
    PROVE  Proceeds
  <1> DEFINE t == Head(timer_list)
  <1>1. /\ TypeOK /\ todo # <<>> /\ Top.op = "process" /\ DoActivate(t, todo)
        /\ timer_list # <<>> /\ timer_list \in Seq(Timers) /\ ListsInv
        /\ todo \in Seq(Frames)
    BY ReadyParts DEF TypeOK, ProcessActivation, In, HeadDue
  <1>2. t \in Timers
    BY <1>1, MembersTail
  <1> HIDE DEF t
  <1>3. Moves(t, todo)
    BY <1>1, <1>2, OrderedNow, ActivationMoves DEF In
  <1>4. Members(todo) = {Top} \cup Members(Rest)
    BY <1>1, RestMembers
  <1>5. Later(todo) /\ Calculating(todo)
    BY <1>1, <1>4 DEF Later, Begun, Calculating, Timely
  <1> QED BY <1>1, <1>2, <1>3, <1>5, MovedProceeds DEF Alone

LEMMA FileProceeds ==
    ASSUME Ready, Truncate \/ Write
    PROVE  Proceeds
  <1>1. /\ TypeOK /\ todo # <<>> /\ Top.op \in {"save", "write"} /\ Untouched
        /\ todo' = Rest
    BY ReadyParts DEF Truncate, Write, In, Untouched
  <1> QED BY <1>1, LaterRest, QuietProceeds DEF Timely

LEMMA LoadTimerProceeds ==
    ASSUME Ready, Ordered, LoadTimer
    PROVE  Proceeds
  <1> DEFINE f == [Top EXCEPT !.n = @ + 1]
             next == <<f>> \o Rest
             s == file.timers[Top.n]
             e == NewEntry(s.begin, s.end, s.repeated, s.disabled, s.justplay)
  <1>1. /\ TypeOK /\ ListsInv /\ todo # <<>> /\ Top.op = "load"
        /\ file.timers \in Seq(SavedTimer)
        /\ timer_list \in Seq(Timers) /\ processed_timers \in Seq(Timers)
    BY ReadyParts DEF LoadTimer, In, TypeOK
  <1>2. Top.n \in Nat \ {0} /\ f \in Frames /\ f.op = "load"
    <2>1. Top \in Frames
      BY <1>1, TopType DEF TypeOK
    <2>2. Top.n \in Nat \ {0} /\ [Top EXCEPT !.n = Top.n + 1] \in Frames
      BY <1>1, TopOfKind DEF TypeOK
    <2>3. f \in Frames
      BY <2>2
    <2>4. f.op = Top.op
      BY <2>1 DEF Frames
    <2> QED BY <1>1, <2>2, <2>3, <2>4
  <1>3. Later(next) /\ Later(Rest)
    <2> HIDE DEF f
    <2> QED BY <1>1, <1>2, LaterPush, LaterRest DEF Begun
  <1>4. CASE /\ todo' = Rest \/ todo' = next
             /\ UNCHANGED <<entry, timer_list, processed_timers>>
    <2> HIDE DEF next
    <2>1. Untouched
      BY <1>4 DEF Untouched
    <2> QED BY <1>1, <1>3, <1>4, <2>1, QuietProceeds DEF Timely
  <1>5. CASE /\ Top.n <= Len(file.timers)
             /\ AddTimerEntry(s.t, TimeChanged(e), timer_list,
                              processed_timers, next, FALSE)
    <2>1. s.t \in Timers \ Known /\ s \in SavedTimer
      BY <1>1, <1>2, <1>5, LoadedUnknown, SeqFacts
    <2>2. TimeChanged(e) \in Entries
      <3>1. e \in Entries
        BY <2>1, NewEntryType DEF SavedTimer
      <3> QED BY <3>1, TimeChangedType
    <2>3. /\ Sorted(entry, timer_list)
          /\ Members(timer_list) = Members(timer_list) \ {s.t}
          /\ Members(processed_timers) = Members(processed_timers) \ {s.t}
      BY <1>1, <2>1, OrderedNow DEF In, Known
    <2> HIDE DEF s, e, next
    <2>4. /\ Moves(s.t, next)
          /\ IF FALSE THEN todo' = next ELSE Recalculates(s.t, next)
      BY <1>1, <1>5, <2>1, <2>2, <2>3, AddTimerEntryMoves DEF TypeOK
    <2> QED BY <1>1, <1>3, <2>1, <2>4, MovedProceeds DEF Alone, Timely
  <1> QED BY <1>4, <1>5 DEF LoadTimer

LEMMA AddRecordProceeds ==
    ASSUME Ready, Ordered, "retry" \notin UserOps, AddRecord
    PROVE  Proceeds
  <1> DEFINE t == Top.t
             k == Save \o Rest
  <1>1. /\ TypeOK /\ ListsInv /\ todo # <<>> /\ Top.op = "add"
        /\ timer_list \in Seq(Timers) /\ processed_timers \in Seq(Timers)
    BY ReadyParts DEF AddRecord, In, TypeOK
  <1>2. t \in Timers \ Known /\ TimeChanged(entry[t]) \in Entries
    BY <1>1, AddedUnknown, TypeParts, TimeChangedType
  <1>3. /\ Sorted(entry, timer_list)
        /\ Members(timer_list) = Members(timer_list) \ {t}
        /\ Members(processed_timers) = Members(processed_timers) \ {t}
    BY <1>1, <1>2, OrderedNow DEF In, Known
  <1>4. \/ AddTimerEntry(t, TimeChanged(entry[t]), timer_list,
                         processed_timers, k, FALSE)
        \/ Drop(t)
    BY DEF AddRecord
  <1> HIDE DEF t
  <1>5. Later(k)
    <2>1. Rest \in Seq(Frames) /\ Save \in Seq(Frames)
      BY <1>1, TopType, FrameType DEF TypeOK
    <2>2. /\ k \in Seq(Frames)
          /\ Members(k) = Members(Save) \cup Members(Rest)
      BY <2>1, ConcatenationMembers
    <2>3. \A f \in Members(Save) : f.op \in {"save", "write"}
      BY DEF Members, Save, Frame
    <2> QED BY <2>2, <2>3 DEF Later, Begun
  <1> HIDE DEF k
  <1>6. CASE AddTimerEntry(t, TimeChanged(entry[t]), timer_list,
                           processed_timers, k, FALSE)
    <2>1. /\ Moves(t, k)
          /\ IF FALSE THEN todo' = k ELSE Recalculates(t, k)
      BY <1>1, <1>2, <1>3, <1>6, AddTimerEntryMoves DEF TypeOK
    <2> QED BY <1>1, <1>2, <1>5, <2>1, MovedProceeds DEF Alone, Timely
  <1>7. CASE Drop(t)
    <2>1. todo' = Rest /\ UNCHANGED timer_list
      BY <1>7 DEF Drop
    <2>2. entry' = [entry EXCEPT ![t] = Blank]
      BY <1>2, <1>7 DEF Drop
    <2>3. \A u \in Members(timer_list) : u \in DOMAIN entry /\ u # t
      BY <1>1, <1>2, TypeParts DEF Known, TypeOK
    <2>4. Untouched
      BY <2>1, <2>2, <2>3 DEF Untouched
    <2> QED BY <1>1, <2>1, <2>4, LaterRest, QuietProceeds DEF Timely
  <1> QED BY <1>4, <1>6, <1>7

LEMMA RetimesProceeds ==
    ASSUME Ready, Ordered, todo # <<>>, Top.op \in {"limit", "extend"}, Retimes
    PROVE  Proceeds
  <1>1. TypeOK /\ ListsConsistent /\ ListTypes
    BY ReadyParts, TypeParts
  <1>2. PICK k :
          /\ k = Rest \/ \E f \in Frames : f.op = Top.op /\ k = <<f>> \o Rest
          /\ \/ \E t \in Timers : Retimed(t, k)
             \/ /\ todo' = k
                /\ UNCHANGED <<entry, timer_list, processed_timers>>
    BY DEF Retimes
  <1>3. Later(k)
    BY <1>1, <1>2, LaterRest, LaterPush DEF Begun
  <1>4. ASSUME NEW t \in Timers, Retimed(t, k) PROVE Proceeds
    <2>1. PICK e \in Entries :
            SameService(e, entry[t]) /\ TimerTimeChanged(t, e, k)
      BY <1>4 DEF Retimed
    <2>2. e.state = entry[t].state
      BY <2>1 DEF SameService
    <2>3. SortedBut(entry, timer_list, {t})
      BY OrderedNow DEF In
    <2>4. Moves(t, k) /\ Recalculates(t, k)
      BY <1>1, <2>1, <2>2, <2>3, TimerTimeChangedMoves
    <2> QED BY <1>3, <2>4, MovedProceeds DEF Alone, Timely
  <1>5. CASE todo' = k /\ UNCHANGED <<entry, timer_list, processed_timers>>
    <2>1. Untouched
      BY <1>5 DEF Untouched
    <2> QED BY <1>3, <1>5, <2>1, QuietProceeds DEF Timely
  <1> QED BY <1>2, <1>4, <1>5

LEMMA RemoveProcessedProceeds ==
    ASSUME Ready, RemoveProcessed
    PROVE  Proceeds \/ Boots
  <1>1. /\ TypeOK /\ todo # <<>> /\ Top.op = "remove" /\ UNCHANGED timer_list
        /\ ListsConsistent
    BY ReadyParts DEF RemoveProcessed, In
  <1>2. CASE Top.t \notin Members(processed_timers)
    BY <1>2 DEF RemoveProcessed, Boots
  <1>3. CASE Top.t \in Members(processed_timers)
    <2>1. todo' = Rest /\ entry' = [entry EXCEPT ![Top.t] = Blank]
      BY <1>3 DEF RemoveProcessed
    <2>2. \A u \in Members(timer_list) : u \in DOMAIN entry /\ u # Top.t
      BY <1>1, <1>3, TypeParts DEF ListsConsistent, TypeOK
    <2>3. Untouched
      BY <1>1, <2>1, <2>2 DEF Untouched
    <2> QED BY <1>1, <2>1, <2>3, LaterRest, QuietProceeds DEF Timely
  <1> QED BY <1>2, <1>3

\* A timer that is edited or chosen is enqueued again.
LEMMA TopRetimedProceeds ==
    ASSUME Ready, Ordered, todo # <<>>, Top.op \in {"edited", "retime"},
           NEW e \in Entries, SameService(e, entry[Top.t]),
           TimerTimeChanged(Top.t, e, Rest)
    PROVE  Proceeds
  <1>1. /\ TypeOK /\ ListsConsistent /\ ListTypes /\ Top.t \in Timers
        /\ Later(Rest)
    BY ReadyParts, TypeParts, TopOfKind, LaterRest DEF TypeOK
  <1>2. SortedBut(entry, timer_list, {Top.t})
    BY OrderedNow DEF In
  <1>3. e.state = entry[Top.t].state
    BY DEF SameService
  <1>4. Moves(Top.t, Rest) /\ Recalculates(Top.t, Rest)
    BY <1>1, <1>2, <1>3, TimerTimeChangedMoves
  <1> QED BY <1>1, <1>4, MovedProceeds DEF Alone, Timely

LEMMA CheckEditedProceeds ==
    ASSUME Ready, Ordered, CheckEdited
    PROVE  Proceeds
  <1>1. TypeOK /\ todo # <<>> /\ Top.op = "edited"
    BY ReadyParts DEF CheckEdited, In
  <1>2. entry[Top.t] \in Entries
    BY <1>1, TopOfKind, TypeParts DEF TypeOK
  <1>3. CASE todo' = Rest /\ UNCHANGED <<entry, timer_list, processed_timers>>
    <2>1. Untouched
      BY <1>3 DEF Untouched
    <2> QED BY <1>1, <1>3, <2>1, LaterRest, QuietProceeds DEF Timely
  <1>4. CASE TimerTimeChanged(Top.t, entry[Top.t], Rest)
    BY <1>1, <1>2, <1>4, SameServiceReflexive, TopRetimedProceeds
  <1> QED BY <1>3, <1>4 DEF CheckEdited

LEMMA RetimeChosenProceeds ==
    ASSUME Ready, Ordered, RetimeChosen
    PROVE  Proceeds
  <1>1. TypeOK /\ todo # <<>> /\ Top.op = "retime"
    BY ReadyParts DEF RetimeChosen, In
  <1>2. entry[Top.t] \in Entries
    BY <1>1, TopOfKind, TypeParts DEF TypeOK
  <1>3. \/ TimerTimeChanged(Top.t, [entry[Top.t] EXCEPT !.disabled = TRUE], Rest)
        \/ TimerTimeChanged(Top.t, entry[Top.t], Rest)
    BY DEF RetimeChosen
  <1> QED BY <1>1, <1>2, <1>3, DisabledService, SameServiceReflexive,
             TopRetimedProceeds

LEMMA ActivateChosenProceeds ==
    ASSUME Ready, Ordered, ActivateChosen
    PROVE  Proceeds
  <1>1. /\ TypeOK /\ ListsInv /\ todo # <<>> /\ Top.op = "activate"
        /\ DoActivate(Top.t, Rest)
    BY ReadyParts DEF ActivateChosen, In
  <1>2. Top.t \in Timers /\ Later(Rest)
    BY <1>1, TopOfKind, LaterRest DEF TypeOK
  <1>3. SortedBut(entry, timer_list, {Top.t})
    BY <1>1 DEF Ordered, Reordered, In
  <1>4. Moves(Top.t, Rest)
    BY <1>1, <1>2, <1>3, ActivationMoves
  <1> QED BY <1>1, <1>2, <1>4, MovedProceeds DEF Alone, Timely

\* A call of the timer goes on, or sets the eTimer, or the box goes down or
\* boots.
LEMMA HandlerProceeds ==
    ASSUME Ready, Ordered, "retry" \notin UserOps, Handler
    PROVE  Proceeds \/ SetNextActivation \/ Boots \/ Boot
  <1>1. CASE LimitRecording \/ ExtendRecordings
    <2>1. Retimes /\ todo # <<>> /\ Top.op \in {"limit", "extend"}
      BY <1>1, ReadyParts, LimitRecordingRetimes, ExtendRecordingsRetimes
      DEF LimitRecording, ExtendRecordings, In
    <2> QED BY <2>1, RetimesProceeds
  <1>2. Fatal => Boots
    BY DEF Fatal, Boots
  <1> QED BY <1>1, <1>2, CalcNextActivationProceeds, ReEvaluateProceeds,
             ProcessActivationProceeds, FileProceeds, LoadTimerProceeds,
             AddRecordProceeds, RemoveProcessedProceeds, CheckEditedProceeds,
             ActivateChosenProceeds, RetimeChosenProceeds
          DEF Handler
-----------------------------------------------------------------------------
(***************************************************************************)
(* What the user does moves a timer, too, or leaves timer_list alone.      *)
(***************************************************************************)

\* The handler of a key leaves calls of the kinds in ops.
Acts(ops) ==
    /\ Idle
    /\ \E k \in Seq(Frames) :
         /\ \A f \in Members(k) : f.op \in ops
         /\ \/ todo' = k /\ Untouched
            \/ \E t \in Timers : Moves(t, k) /\ Recalculates(t, k)

UserCalls == {"add", "limit", "edited", "extend", "remove", "save", "write"}

LEMMA ActsOrdered ==
    ASSUME TypeOK, Ordered, NEW ops, ops \subseteq UserCalls, Acts(ops)
    PROVE  Ordered' /\ BootIsLast'
  <1>1. PICK k \in Seq(Frames) :
          /\ \A f \in Members(k) : f.op \in UserCalls
          /\ \/ todo' = k /\ Untouched
             \/ \E t \in Timers : Moves(t, k) /\ Recalculates(t, k)
    BY DEF Acts
  <1>2. Sorted(entry, timer_list)
    BY OrderedNow DEF Acts, Idle, In
  <1>3. CASE todo' = k /\ Untouched
    <2>1. Ordered'
      BY <1>2, <1>3, UntouchedOrdered, InOrderOrdered
    <2> QED BY <1>1, <1>3, <2>1 DEF BootIsLast, UserCalls
  <1>4. ASSUME NEW t \in Timers, Moves(t, k) PROVE Ordered' /\ BootIsLast'
    <2>1. Ordered' /\ Resumes(k)
      BY <1>4, InOrderOrdered DEF Moves
    <2>2. \A f \in Members(todo') : f \in Members(k) \/ f.op = "calc"
      BY <2>1, ResumedMembers
    <2> QED BY <1>1, <2>1, <2>2 DEF BootIsLast, UserCalls
  <1> QED BY <1>1, <1>3, <1>4

LEMMA ShortenActs ==
    ASSUME Ready, Idle, Untouched, NEW begin, NEW next \in Frames,
           todo' = <<next>> \/ Shorten(begin, next)
    PROVE  Acts({next.op, "limit"})
  <1>1. TypeOK /\ TypeOK' /\ todo' \in Seq(Frames)
    BY ReadyParts DEF TypeOK
  <1>2. CASE todo' = <<next>>
    BY <1>1, <1>2, SingletonMembers DEF Acts
  <1>3. ASSUME NEW f, todo' = <<f, next>>, f.op = "limit"
        PROVE  Acts({next.op, "limit"})
    <2>1. todo' # <<>> /\ Head(todo') = f
      BY <1>3
    <2>2. f \in Frames
      BY <1>1, <2>1, SeqFacts
    <2>3. Members(todo') = {f, next}
      BY <1>3, <2>2, PairMembers
    <2> QED BY <1>1, <1>3, <2>3 DEF Acts
  <1> QED BY <1>1, <1>2, <1>3, ShortenCalls

LEMMA UnknownUntouched ==
    ASSUME TypeOK, NEW t, t \notin Known, UNCHANGED timer_list,
           NEW e, entry' = [entry EXCEPT ![t] = e]
    PROVE  Untouched
  <1>1. \A u \in Members(timer_list) : u \in DOMAIN entry /\ u # t
    BY TypeParts DEF Known, TypeOK
  <1> QED BY <1>1 DEF Untouched

LEMMA EnteredActs ==
    ASSUME Ready, NEW t \in Timers, Record(t) \/ InstantRecord(t)
    PROVE  Acts({"add", "limit"})
  <1> DEFINE add == Frame("add", t, 0, <<>>)
  <1>1. TypeOK /\ Idle /\ t \notin Known /\ UNCHANGED timer_list
    BY ReadyParts DEF Record, InstantRecord, UserTurn
  <1>2. add \in Frames /\ add.op = "add"
    <2>1. 0 \in Int
      OBVIOUS
    <2> QED BY <2>1, FrameType DEF Frame
  <1>3. \E e : entry' = [entry EXCEPT ![t] = e]
    BY DEF Record, InstantRecord
  <1>4. todo' = <<add>> \/ \E begin : Shorten(begin, add)
    BY DEF Record, InstantRecord
  <1> HIDE DEF add
  <1>5. Untouched
    BY <1>1, <1>3, UnknownUntouched
  <1> QED BY <1>1, <1>2, <1>4, <1>5, ShortenActs

LEMMA FinishEditActs ==
    ASSUME Ready, FinishEdit
    PROVE  Acts({"edited", "limit"})
  <1> DEFINE edited == Frame("edited", dialog.t, 0, <<>>)
  <1>1. TypeOK /\ Idle /\ dialog.kind \in {"edited", "conflict"} /\ Untouched
    BY ReadyParts DEF FinishEdit, Untouched
  <1>2. edited \in Frames /\ edited.op = "edited"
    <2>1. 0 \in Int /\ dialog.t \in Timers
      BY <1>1, TypeParts
    <2> QED BY <2>1, FrameType DEF Frame
  <1>3. \E begin : Shorten(begin, edited)
    BY DEF FinishEdit
  <1> HIDE DEF edited
  <1> QED BY <1>1, <1>2, <1>3, ShortenActs

\* Nothing is called.
LEMMA NothingCalled ==
    ASSUME Idle, UNCHANGED todo, Untouched, NEW ops
    PROVE  Acts(ops)
  <1>1. todo' = <<>> /\ <<>> \in Seq(Frames) /\ Members(<<>>) = {}
    BY EmptySeqType, MembersEmpty DEF Idle
  <1> QED BY <1>1 DEF Acts

LEMMA AbandonActs ==
    ASSUME Ready, Abandon
    PROVE  Acts({})
  <1>1. TypeOK /\ Idle /\ UNCHANGED <<timer_list, todo>>
    BY ReadyParts DEF Abandon
  <1>2. Untouched
    <2>1. CASE dialog.t \in Known
      BY <1>1, <2>1 DEF Abandon, Untouched
    <2>2. CASE dialog.t \notin Known
      <3>1. entry' = [entry EXCEPT ![dialog.t] = Blank]
        BY <2>2 DEF Abandon
      <3> QED BY <1>1, <2>2, <3>1, UnknownUntouched
    <2> QED BY <2>1, <2>2
  <1> QED BY <1>1, <1>2, NothingCalled

LEMMA CleanupActs ==
    ASSUME Ready, Cleanup
    PROVE  Acts({})
  <1>1. /\ TypeOK /\ Idle /\ UNCHANGED <<timer_list, todo>>
        /\ ListsConsistent /\ Members(timer_list) \subseteq Timers
    BY ReadyParts, TypeParts DEF Cleanup, UserTurn
  <1>2. \A u \in Members(timer_list) :
          u \in Timers /\ u \notin Members(processed_timers)
    BY <1>1 DEF ListsConsistent
  <1>3. \A u \in Members(timer_list) : entry'[u] = entry[u]
    BY <1>2 DEF Cleanup
  <1> QED BY <1>1, <1>3, NothingCalled DEF Untouched

\* A timer is enqueued again, and the next activation calculated.
LEMMA TimeChangedActs ==
    ASSUME Ready, Ordered, Idle, NEW t \in Timers, NEW e \in Entries,
           e.state = entry[t].state, NEW k \in Seq(Frames), NEW ops,
           \A f \in Members(k) : f.op \in ops, TimerTimeChanged(t, e, k)
    PROVE  Acts(ops)
  <1>1. ListTypes /\ ListsConsistent
    BY ReadyParts, TypeParts
  <1>2. SortedBut(entry, timer_list, {t})
    BY OrderedNow DEF Idle, In
  <1>3. Moves(t, k) /\ Recalculates(t, k)
    BY <1>1, <1>2, TimerTimeChangedMoves
  <1> QED BY <1>3 DEF Acts

LEMMA SetEndActs ==
    ASSUME Ready, Ordered, NEW t \in Timers, SetEnd(t)
    PROVE  Acts({})
  <1>1. PICK end \in Int, growing \in BOOLEAN :
          TimerTimeChanged(t, [entry[t] EXCEPT !.autoincrease = growing,
                                               !.end = end], <<>>)
    BY ReadyParts, SetEndChange
  <1>2. /\ [entry[t] EXCEPT !.autoincrease = growing, !.end = end] \in Entries
        /\ [entry[t] EXCEPT !.autoincrease = growing, !.end = end].state
             = entry[t].state
    <2>1. entry[t] \in Entries
      BY ReadyParts
    <2> QED BY <2>1 DEF Entries
  <1>3. Idle /\ <<>> \in Seq(Frames) /\ Members(<<>>) = {}
    BY EmptySeqType, MembersEmpty DEF SetEnd, UserTurn
  <1> QED BY <1>1, <1>2, <1>3, TimeChangedActs

LEMMA ToggleDisabledStateActs ==
    ASSUME Ready, Ordered, NEW t \in Timers, ToggleDisabledState(t)
    PROVE  Acts({})
  <1>1. PICK disabled \in BOOLEAN :
          TimerTimeChanged(t, [entry[t] EXCEPT !.disabled = disabled], <<>>)
    BY ReadyParts, ToggleChange
  <1>2. /\ [entry[t] EXCEPT !.disabled = disabled] \in Entries
        /\ [entry[t] EXCEPT !.disabled = disabled].state = entry[t].state
    BY ReadyParts, DisabledService DEF SameService
  <1>3. Idle /\ <<>> \in Seq(Frames) /\ Members(<<>>) = {}
    BY EmptySeqType, MembersEmpty DEF ToggleDisabledState, UserTurn
  <1> QED BY <1>1, <1>2, <1>3, TimeChangedActs

\* The calls removeEntry makes: the loop over the recordings that may go on
\* longer, the removal, saveTimer.
RemoveCalls(t, k) ==
    LET remove == Frame("remove", t, 0, <<>>)
        extend == Frame("extend", NoTimer, 1, <<>>)
    IN  k = <<remove>> \o Save \/ k = <<extend>> \o (<<remove>> \o Save)

RemoveOps == {"extend", "remove", "save", "write"}

LEMMA SaveMembers ==
    Save \in Seq(Frames) /\ \A f \in Members(Save) : f.op \in {"save", "write"}
  BY FrameType DEF Members, Save, Frame

LEMMA RemoveCallsType ==
    ASSUME NEW t \in Timers, NEW k, RemoveCalls(t, k)
    PROVE  k \in Seq(Frames) /\ \A f \in Members(k) : f.op \in RemoveOps
  <1> DEFINE remove == Frame("remove", t, 0, <<>>)
             extend == Frame("extend", NoTimer, 1, <<>>)
  <1>1. /\ remove \in Frames /\ remove.op = "remove"
        /\ extend \in Frames /\ extend.op = "extend"
    <2>1. 0 \in Int /\ 1 \in Nat \ {0}
      OBVIOUS
    <2> QED BY <2>1, FrameType DEF Frame
  <1>2. k = <<remove>> \o Save \/ k = <<extend>> \o (<<remove>> \o Save)
    BY DEF RemoveCalls
  <1> HIDE DEF remove, extend
  <1> DEFINE short == <<remove>> \o Save
             long == <<extend>> \o short
  <1>3. /\ short \in Seq(Frames)
        /\ Members(short) = {remove} \cup Members(Save)
    BY <1>1, SaveMembers, PushType, MembersPush
  <1>4. /\ long \in Seq(Frames)
        /\ Members(long) = {extend} \cup Members(short)
    <2> HIDE DEF short
    <2> QED BY <1>1, <1>3, PushType, MembersPush
  <1>5. /\ short \in Seq(Frames) /\ \A f \in Members(short) : f.op \in RemoveOps
    BY <1>1, <1>3, SaveMembers DEF RemoveOps
  <1>6. /\ long \in Seq(Frames) /\ \A f \in Members(long) : f.op \in RemoveOps
    <2> HIDE DEF short, long
    <2> QED BY <1>1, <1>4, <1>5 DEF RemoveOps
  <1>7. k = short \/ k = long
    BY <1>2
  <1> HIDE DEF short, long
  <1> QED BY <1>5, <1>6, <1>7

LEMMA RemoveEntryCalls ==
    ASSUME TypeOK, NEW t \in Timers, RemoveEntry(t)
    PROVE  /\ Idle /\ t \in Known /\ dialog = NoDialog
           /\ \E k : /\ RemoveCalls(t, k)
                     /\ LET e == Abort(Withdraw(entry[t]), now)
                        IN  /\ e \in Entries /\ e.state = entry[t].state
                            /\ \/ /\ e.state # StateEnded
                                  /\ TimerTimeChanged(t, e, k)
                               \/ /\ e.state = StateEnded /\ todo' = k
                                  /\ entry' = [entry EXCEPT ![t] = e]
                                  /\ UNCHANGED <<timer_list, processed_timers>>
  <1> DEFINE e == Abort(Withdraw(entry[t]), now)
             remove == Frame("remove", t, 0, <<>>)
             extend == Frame("extend", NoTimer, 1, <<>>)
             k == (IF e.dontSave THEN <<>> ELSE <<extend>>)
                    \o <<remove>> \o Save
  <1>1. Idle /\ t \in Known /\ dialog = NoDialog
    BY DEF RemoveEntry, UserTurn
  <1>2. \/ e.state # StateEnded /\ TimerTimeChanged(t, e, k)
        \/ /\ e.state = StateEnded /\ todo' = k
           /\ entry' = [entry EXCEPT ![t] = e]
           /\ UNCHANGED <<timer_list, processed_timers>>
    BY DEF RemoveEntry
  <1>3. e \in Entries /\ e.state = entry[t].state
    <2>1. entry[t] \in Entries
      BY TypeParts
    <2>2. e \in Entries
      BY AbortedType
    <2>3. e.state = entry[t].state
      BY <2>1 DEF Abort, Withdraw, Entries
    <2> QED BY <2>2, <2>3
  <1>4. RemoveCalls(t, k)
    <2>1. /\ remove \in Frames /\ extend \in Frames /\ Save \in Seq(Frames)
      <3>1. 0 \in Int /\ 1 \in Nat \ {0}
        OBVIOUS
      <3> QED BY <3>1, FrameType
    <2>2. CASE e.dontSave
      <3> HIDE DEF remove, extend
      <3>1. <<>> \o <<remove>> = <<remove>>
        BY <2>1
      <3>2. k = <<remove>> \o Save
        BY <2>2, <3>1
      <3> QED BY <3>2 DEF RemoveCalls, remove
    <2>3. CASE ~e.dontSave
      <3> HIDE DEF remove, extend
      <3>1. k = <<extend>> \o <<remove>> \o Save
        BY <2>3
      <3>2. <<extend>> \o <<remove>> \o Save = <<extend>> \o (<<remove>> \o Save)
        BY <2>1
      <3> QED BY <3>1, <3>2 DEF RemoveCalls, remove, extend
    <2> QED BY <2>2, <2>3
  <1> HIDE DEF k
  <1> QED BY <1>1, <1>2, <1>3, <1>4

LEMMA RemoveEntryActs ==
    ASSUME Ready, Ordered, NEW t \in Timers, RemoveEntry(t)
    PROVE  Acts(RemoveOps)
  <1> DEFINE e == Abort(Withdraw(entry[t]), now)
  <1>1. PICK k : /\ RemoveCalls(t, k)
                 /\ e \in Entries /\ e.state = entry[t].state
                 /\ \/ TimerTimeChanged(t, e, k)
                    \/ /\ e.state = StateEnded /\ todo' = k
                       /\ entry' = [entry EXCEPT ![t] = e]
                       /\ UNCHANGED <<timer_list, processed_timers>>
    BY ReadyParts, RemoveEntryCalls
  <1>2. /\ k \in Seq(Frames) /\ \A f \in Members(k) : f.op \in RemoveOps
        /\ Idle /\ TypeOK /\ ListsConsistent
    BY <1>1, RemoveCallsType, RemoveEntryCalls, ReadyParts
  <1> HIDE DEF e
  <1>3. CASE TimerTimeChanged(t, e, k)
    BY <1>1, <1>2, <1>3, TimeChangedActs
  <1>4. CASE /\ e.state = StateEnded /\ todo' = k
             /\ entry' = [entry EXCEPT ![t] = e] /\ UNCHANGED timer_list
    <2>1. \A u \in Members(timer_list) : u \in DOMAIN entry /\ u # t
      BY <1>1, <1>2, <1>4, TypeParts DEF ListsConsistent, TypeOK
    <2>2. Untouched
      BY <1>4, <2>1 DEF Untouched
    <2> QED BY <1>2, <1>4, <2>2 DEF Acts
  <1> QED BY <1>1, <1>3, <1>4

\* The timer the answer is about may be out of place until it is activated.
LEMMA RunningEventCallbackOrdered ==
    ASSUME Ready, Ordered, RunningEventCallback
    PROVE  Ordered' /\ BootIsLast'
  <1> DEFINE t == dialog.t
             Activate == Frame("activate", t, 0, <<>>)
             Retime(n) == Frame("retime", t, n, <<>>)
  <1>1. /\ TypeOK /\ Idle /\ dialog.kind = "choice" /\ UNCHANGED timer_list
        /\ entry \in [Timers -> Entries] /\ timer_list \in Seq(Timers)
    BY ReadyParts DEF RunningEventCallback, TypeOK
  <1>2. Sorted(entry, timer_list)
    BY <1>1, OrderedNow DEF Idle, In
  <1>3. \/ \E n \in {0, 1} : \E x : /\ entry' = [entry EXCEPT ![t] = x]
                                    /\ todo' = <<Activate, Retime(n)>>
        \/ todo' = <<Retime(1)>> /\ UNCHANGED entry
        \/ UNCHANGED <<entry, todo>>
    BY DEF RunningEventCallback
  <1>4. /\ Activate \in Frames /\ Activate.op = "activate" /\ Activate.t = t
        /\ \A n \in {0, 1} : Retime(n) \in Frames /\ Retime(n).op = "retime"
    <2>1. 0 \in Int /\ {0, 1} \subseteq Int /\ t \in Timers
      BY <1>1, TypeParts
    <2>2. Activate \in Frames /\ \A n \in {0, 1} : Retime(n) \in Frames
      BY <2>1, FrameType
    <2> QED BY <2>2 DEF Frame
  <1> HIDE DEF Activate, Retime, t
  <1>5. ASSUME NEW n \in {0, 1}, NEW x, entry' = [entry EXCEPT ![t] = x],
               todo' = <<Activate, Retime(n)>>
        PROVE  Ordered' /\ BootIsLast'
    <2>1. Members(todo') = {Activate, Retime(n)}
      BY <1>4, <1>5, PairMembers
    <2>2. BootIsLast'
      BY <1>4, <2>1 DEF BootIsLast
    <2>3. Reordered' = {t}
      <3>1. todo' # <<>> /\ Head(todo') = Activate
        BY <1>5
      <3> QED BY <1>4, <3>1 DEF Reordered, In, Top
    <2>4. \A i \in DOMAIN timer_list :
            timer_list[i] \notin {t}
              => entry'[timer_list[i]] = entry[timer_list[i]]
      <3>1. \A i \in DOMAIN timer_list : timer_list[i] \in Timers
        BY <1>1, SeqFacts
      <3> QED BY <1>1, <1>5, <3>1
    <2>5. Ordered'
      BY <1>1, <1>2, <2>3, <2>4 DEF Ordered, Sorted, SortedBut
    <2> QED BY <2>2, <2>5
  <1>6. CASE (todo' = <<Retime(1)>> \/ todo' = <<>>) /\ UNCHANGED entry
    <2>1. Ordered'
      <3>1. Untouched
        BY <1>1, <1>6 DEF Untouched
      <3> QED BY <1>2, <3>1, UntouchedOrdered, InOrderOrdered
    <2>2. \A f \in Members(todo') : f.op = "retime"
      BY <1>4, <1>6, SingletonMembers, MembersEmpty
    <2> QED BY <2>1, <2>2 DEF BootIsLast
  <1> QED BY <1>1, <1>3, <1>5, <1>6 DEF Idle

ShutdownCalls == Save \o <<BootFrame>>

LEMMA ShutdownCallsType ==
    /\ ShutdownCalls \in Seq(Frames) /\ BootFrame \in Members(ShutdownCalls)
    /\ \A f \in Members(ShutdownCalls) : f.op \in Alone
  <1> DEFINE last == <<BootFrame>>
  <1>1. /\ Save \in Seq(Frames) /\ last \in Seq(Frames)
        /\ BootFrame.op = "boot" /\ Members(last) = {BootFrame}
    BY FrameType, BootFrameType, SingletonType, SingletonMembers
  <1>2. ShutdownCalls = Save \o last
    BY DEF ShutdownCalls
  <1> HIDE DEF last
  <1>3. /\ ShutdownCalls \in Seq(Frames)
        /\ Members(ShutdownCalls) = Members(Save) \cup Members(last)
    BY <1>1, <1>2, ConcatenationMembers
  <1> QED BY <1>1, <1>3, SaveMembers DEF Alone

LEMMA ShutdownOrdered ==
    ASSUME Ordered, Shutdown
    PROVE  Ordered' /\ BootIsLast'
  <1>1. Idle /\ Untouched /\ todo' = ShutdownCalls
    BY DEF Shutdown, UserTurn, Untouched, ShutdownCalls
  <1>2. Ordered'
    BY <1>1, OrderedNow, UntouchedOrdered, InOrderOrdered DEF Idle, In
  <1> QED BY <1>1, <1>2, ShutdownCallsType DEF BootIsLast

\* The operations of a user who does not edit.
LEMMA UserActs ==
    ASSUME Ready, Ordered, Unedited, User
    PROVE  \/ Acts({"add", "limit"}) \/ Acts({}) \/ FinishEdit
           \/ (\E t \in Timers : RemoveEntry(t)) \/ Shutdown
           \/ RunningEventCallback
  <1>1. ~RetryRecord
    BY ReadyParts DEF ListsInv, NoRetry, RetryRecord
  <1>2. ASSUME NEW t \in Timers
        PROVE  ~EditTimer(t) /\ ~EditConflict(t) /\ ~ToggleConflict(t)
    <2>1. "edit" \notin UserOps /\ "conflict" \notin UserOps
      BY DEF Unedited
    <2>2. ~EditTimer(t)
      BY <2>1 DEF EditTimer, UserTurn
    <2>3. ~OnConflict(t)
      BY <2>1 DEF OnConflict
    <2> QED BY <2>2, <2>3 DEF EditConflict, ToggleConflict
  <1> QED BY <1>1, <1>2, EnteredActs, SetEndActs, ToggleDisabledStateActs,
             CleanupActs, AbandonActs DEF User

LEMMA UserOrdered ==
    ASSUME Ready, Ordered, Unedited, User
    PROVE  Ordered' /\ BootIsLast'
  <1>1. TypeOK
    BY ReadyParts
  <1>2. ASSUME NEW ops, ops \subseteq UserCalls, Acts(ops)
        PROVE  Ordered' /\ BootIsLast'
    BY <1>1, <1>2, ActsOrdered
  <1>3. /\ {"add", "limit"} \subseteq UserCalls /\ {} \subseteq UserCalls
        /\ {"edited", "limit"} \subseteq UserCalls
        /\ RemoveOps \subseteq UserCalls
    BY DEF UserCalls, RemoveOps
  <1> QED BY <1>2, <1>3, UserActs, FinishEditActs, RemoveEntryActs,
             ShutdownOrdered, RunningEventCallbackOrdered

LEMMA BootOrdered ==
    ASSUME Boot
    PROVE  Ordered' /\ BootIsLast'
  <1>1. timer_list' = <<>> /\ DOMAIN timer_list' = {}
    BY DEF Boot
  <1>2. Ordered'
    BY <1>1 DEF Ordered, SortedBut
  <1>3. \A f \in Members(todo') : f.op = "load"
    <2> DEFINE load == Frame("load", NoTimer, 1, <<>>)
    <2>1. load.op = "load"
      BY DEF Frame
    <2>2. todo' = <<load>> \/ todo' = <<>>
      BY DEF Boot
    <2> HIDE DEF load
    <2> QED BY <2>1, <2>2, SingletonMembers, MembersEmpty
  <1> QED BY <1>2, <1>3 DEF BootIsLast

LEMMA SetNextActivationOrdered ==
    ASSUME TypeOK, Ordered, BootIsLast, SetNextActivation
    PROVE  Ordered' /\ BootIsLast' /\ InOrder /\ InOrder'
  <1>1. In("process") /\ todo # <<>> /\ Top.op = "process" /\ Untouched
    BY DEF SetNextActivation, In, Untouched
  <1>2. Sorted(entry, timer_list)
    BY <1>1, OrderedNow DEF In
  <1>3. InOrder /\ InOrder' /\ Ordered'
    BY <1>1, <1>2, OrderedWhenSorted, UntouchedOrdered, InOrderOrdered
  <1>4. Members(todo') \subseteq Members(todo)
    BY <1>1, RestMembers DEF SetNextActivation
  <1> QED BY <1>3, <1>4 DEF BootIsLast

LEMMA NextOrdered ==
    ASSUME Ready, Ordered, BootIsLast, Unedited, [Next]_vars
    PROVE  Ordered' /\ BootIsLast'
  <1>1. TypeOK /\ "retry" \notin UserOps
    BY ReadyParts DEF Unedited
  <1>2. CASE Handler
    BY <1>1, <1>2, HandlerProceeds, ProceedsOrdered, SetNextActivationOrdered,
       BootsOrdered, BootOrdered
  <1>3. CASE Tick \/ SetClock \/ UNCHANGED vars
    <2>1. UNCHANGED listVars
      BY <1>3 DEF Tick, SetClock, vars
    <2> QED BY <2>1 DEF listVars, Ordered, Reordered, In, Top, SortedBut,
                        BootIsLast
  <1>4. CASE Timeout
    <2>1. Idle /\ Untouched /\ todo' = <<Calc>>
      BY <1>4 DEF Timeout, Untouched
    <2>2. Ordered'
      BY <2>1, OrderedNow, UntouchedOrdered, InOrderOrdered DEF Idle, In
    <2>3. Calc.op = "calc" /\ Members(todo') = {Calc}
      BY <2>1, SingletonMembers DEF Calc, Frame
    <2> QED BY <2>2, <2>3 DEF BootIsLast
  <1>5. CASE Crash
    BY <1>5, BootsOrdered DEF Crash, Boots
  <1> QED BY <1>2, <1>3, <1>4, <1>5, UserOrdered DEF Next

LEMMA InitOrdered == Init => Ordered /\ BootIsLast
  <1> SUFFICES ASSUME Init PROVE Ordered /\ BootIsLast
    OBVIOUS
  <1>1. timer_list = <<>> /\ todo = <<>> /\ Members(todo) = {}
    BY MembersEmpty DEF Init
  <1> QED BY <1>1 DEF Ordered, SortedBut, BootIsLast

LEMMA ReadyHolds ==
    Unedited => (Spec => [](TypeOK /\ ListsInv /\ Served /\ StageInv))
  <1> SUFFICES ASSUME Unedited
               PROVE  Spec => [](TypeOK /\ ListsInv /\ Served /\ StageInv)
    OBVIOUS
  <1>1. "retry" \notin UserOps /\ TypesStay
    BY DEF Unedited, TypesStay
  <1>2. (Spec => []ListsInv) /\ (Spec => []Served) /\ (Spec => []StageInv)
    BY <1>1, ListsInvHolds, ServedHolds, StageInvHolds
  <1> QED BY <1>2, TypeCorrect, PTL

LEMMA OrderedHolds ==
    Unedited => (Spec => [](Ordered /\ BootIsLast))
  <1> SUFFICES ASSUME Unedited PROVE Spec => [](Ordered /\ BootIsLast)
    OBVIOUS
  <1>1. Init => Ordered /\ BootIsLast
    BY InitOrdered
  <1>2. Ready /\ Ordered /\ BootIsLast /\ [Next]_vars
          => Ordered' /\ BootIsLast'
    BY NextOrdered
  <1>3. TypeOK /\ TypeOK' /\ ListsInv /\ Served => Ready
    BY DEF Ready, Typed
  <1>4. Spec => [](TypeOK /\ ListsInv /\ Served /\ StageInv)
    BY ReadyHolds
  <1> QED BY <1>1, <1>2, <1>3, <1>4, PTL DEF Spec
-----------------------------------------------------------------------------
(***************************************************************************)
(* processActivation ends when nothing is due.                             *)
(***************************************************************************)

LEMMA SettlesSets ==
    ASSUME Ready, Ordered, BootIsLast, Next, Settles
    PROVE  SetNextActivation
  <1>1. /\ TypeOK /\ todo # <<>> /\ Top.op = "process" /\ todo' = Rest
        /\ todo \in Seq(Frames)
    BY ReadyParts DEF Settles, In, TypeOK
  <1>2. todo' # todo /\ todo' # <<Calc>> \o todo
    <2>1. Len(Rest) = Len(todo) - 1 /\ Len(todo) \in Nat
      BY <1>1 DEF Rest
    <2>2. Len(<<Calc>> \o todo) = Len(todo) + 1
      <3>1. Calc \in Frames
        BY FrameType
      <3> QED BY <1>1, <3>1
    <2>3. Len(Rest) # Len(todo) /\ Len(Rest) # Len(<<Calc>> \o todo)
      BY <2>1, <2>2
    <2> QED BY <1>1, <2>3
  <1>3. ~Boots
    <2>1. ASSUME Boots PROVE FALSE
      <3>1. BootFrame \in Members(Rest) /\ BootFrame.op = "boot"
        BY <1>1, <2>1, SingletonMembers, BootFrameType DEF Boots
      <3> QED BY <1>1, <3>1, TopAlone, RestMembers DEF Alone
    <2> QED BY <2>1
  <1>4. ~Idle /\ ~Tick /\ ~Crash
    BY <1>1, <1>2, <1>3 DEF Idle, Tick, listVars, Crash, Boots
  <1>5. ~ProcessActivation
    <2>1. ASSUME ProcessActivation PROVE FALSE
      <3> DEFINE t == Head(timer_list)
      <3>1. /\ DoActivate(t, todo) /\ ListsInv
            /\ timer_list # <<>> /\ timer_list \in Seq(Timers)
        BY <2>1, ReadyParts DEF TypeOK, ProcessActivation, HeadDue
      <3>2. t \in Timers
        BY <3>1, MembersTail
      <3> HIDE DEF t
      <3>3. Moves(t, todo)
        BY <1>1, <3>1, <3>2, OrderedNow, ActivationMoves DEF In
      <3> QED BY <1>2, <3>3 DEF Moves, Resumes
    <2> QED BY <2>1
  <1>6. ~User
    BY <1>4 DEF User, Record, InstantRecord, RemoveEntry, SetEnd, EditTimer,
                ToggleDisabledState, ToggleConflict, EditConflict, Cleanup,
                Shutdown, FinishEdit, Abandon, RetryRecord,
                RunningEventCallback, UserTurn, OnConflict
  <1>7. Handler
    BY <1>4, <1>6 DEF Next, SetClock, Timeout
  <1>8. ~Fatal
    BY <1>3 DEF Fatal, Boots
  <1> QED BY <1>1, <1>5, <1>7, <1>8
          DEF Handler, In, CalcNextActivation, ReEvaluate, Truncate, Write,
              Boot, LoadTimer, AddRecord, LimitRecording, ExtendRecordings,
              RemoveProcessed, CheckEdited, ActivateChosen, RetimeChosen

\* The head of a list in order is the first to be due.
LEMMA HeadIsFirst ==
    ASSUME TypeOK, InOrder, NEW t \in Members(timer_list)
    PROVE  /\ timer_list # <<>>
           /\ NextActivation(Head(timer_list)) \in Int
           /\ NextActivation(t) \in Int
           /\ NextActivation(Head(timer_list)) <= NextActivation(t)
  <1>1. /\ timer_list \in Seq(Timers) /\ Len(timer_list) \in Nat
        /\ DOMAIN timer_list = 1..Len(timer_list)
    BY SeqFacts DEF TypeOK
  <1>2. PICK i \in DOMAIN timer_list : timer_list[i] = t
    BY DEF Members
  <1>3. timer_list # <<>> /\ 1 \in DOMAIN timer_list /\ (i = 1 \/ 1 < i)
    BY <1>1, <1>2
  <1>4. Head(timer_list) = timer_list[1]
    BY <1>1, <1>3
  <1>5. \A j \in DOMAIN timer_list : NextActivation(timer_list[j]) \in Int
    <2>1. \A j \in DOMAIN timer_list : timer_list[j] \in Timers
      BY <1>1, SeqFacts
    <2> QED BY <2>1, KeysType DEF TypeOK, NextActivation
  <1>6. i = 1 \/ NextActivation(timer_list[1]) <= NextActivation(timer_list[i])
    BY <1>2, <1>3 DEF InOrder
  <1> QED BY <1>2, <1>3, <1>4, <1>5, <1>6

\* For any number of timers, any clock, any faults of the tuner and however
\* activations nest: when calcNextActivation is done with the timers that are
\* due, none is left behind the first one that is not: "we keep on processing
\* the first entry until it goes into the future" (timer.py:280).  That rests
\* on the order of timer_list, which an edit made in place may break.
THEOREM NothingDueStays ==
    Unedited => (Spec => NothingDueLeft)
  <1> SUFFICES ASSUME Unedited PROVE Spec => NothingDueLeft
    OBVIOUS
  <1>1. ASSUME Ready, Ordered, BootIsLast, [Next]_vars
        PROVE  [Settles /\ dialog = NoDialog =>
                  \A t \in Members(timer_list) :
                    NextActivation(t) > Top.n]_vars
    <2> SUFFICES ASSUME Next, Settles, NEW t \in Members(timer_list)
                 PROVE  NextActivation(t) > Top.n
      BY <1>1
    <2>1. SetNextActivation
      BY <1>1, SettlesSets
    <2>2. TypeOK /\ InOrder /\ ~HeadDue /\ todo # <<>>
      BY <1>1, <2>1, ReadyParts, SetNextActivationOrdered
      DEF SetNextActivation, In
    <2>3. Top.n \in Int
      BY <2>2, TopOfKind DEF TypeOK
    <2> QED BY <2>2, <2>3, HeadIsFirst DEF HeadDue
  <1>2. TypeOK /\ TypeOK' /\ ListsInv /\ Served => Ready
    BY DEF Ready, Typed
  <1>3. Spec => [](TypeOK /\ ListsInv /\ Served /\ StageInv)
    BY ReadyHolds
  <1>4. Spec => [](Ordered /\ BootIsLast)
    BY OrderedHolds
  <1> QED BY <1>1, <1>2, <1>3, <1>4, PTL DEF Spec, NothingDueLeft

-----------------------------------------------------------------------------
(***************************************************************************)
(* The eTimer.                                                             *)
(***************************************************************************)

\* The timers that are enqueued again by a call to come.
Retimers(stack) == {f.t : f \in {g \in Members(stack) : g.op = "retime"}}

\* The eTimer fires in time for every timer but those in S.
Armed(S) ==
    /\ wait \in 0..MaxWaitTime
    /\ left.jump = Budget.jump =>
         \A t \in Members(timer_list) \ S :
           wait = 0 \/ now + wait <= NextActivation(t)

\* The eTimer is armed, or the next activation is going to be calculated.  A
\* timer that is activated on an answer is out of place, and enqueued again.
Awake ==
    /\ left.jump <= Budget.jump
    /\ In("activate") => Top.t \in Retimers(todo)
    /\ Calculating(todo) \/ Armed(Retimers(todo))

LEMMA ArmedKept ==
    ASSUME Armed(Retimers(todo)), UNCHANGED <<now, wait>>,
           left'.jump = left.jump,
           \A u \in Members(timer_list') \ Retimers(todo') :
             /\ u \in Members(timer_list) \ Retimers(todo)
             /\ entry'[u] = entry[u]
    PROVE  Armed(Retimers(todo))'
  BY DEF Armed, NextActivation

LEMMA NoActivateOnTop ==
    ASSUME TypeOK', \A f \in Members(todo') : f.op # "activate"
    PROVE  ~In("activate")'
  <1>1. CASE todo' = <<>>
    BY <1>1 DEF In
  <1>2. CASE todo' # <<>>
    <2>0. todo' \in Seq(Frames)
      BY DEF TypeOK
    <2>1. Members(todo') = {Head(todo')} \cup Members(Tail(todo'))
      BY <1>2, <2>0, MembersTail
    <2> QED BY <2>1 DEF In, Top
  <1> QED BY <1>1, <1>2

LEMMA RetimersOf ==
    ASSUME NEW stack, NEW u
    PROVE  u \in Retimers(stack)
             <=> \E f \in Members(stack) : f.op = "retime" /\ f.t = u
  BY DEF Retimers

LEMMA ResumesKeeps ==
    ASSUME NEW k \in Seq(Frames), Resumes(k)
    PROVE  /\ Members(k) \subseteq Members(todo')
           /\ Calculating(k) => Calculating(todo')
  <1>1. Calc \in Frames
    BY FrameType
  <1>2. Members(<<Calc>> \o k) = {Calc} \cup Members(k)
    BY <1>1, MembersPush
  <1> QED BY <1>2 DEF Resumes, Calculating

LEMMA RecalculatesCalculates ==
    ASSUME NEW k \in Seq(Frames), todo' = <<Calc>> \o k
    PROVE  Calculating(todo')
  <1>1. Calc \in Frames /\ Calc.op = "calc"
    BY FrameType DEF Calc, Frame
  <1>2. Members(todo') = {Calc} \cup Members(k)
    BY <1>1, MembersPush
  <1> QED BY <1>1, <1>2 DEF Calculating, Timely

LEMMA ProceedsAwake ==
    ASSUME Ready, StageInv, Awake, Proceeds, UNCHANGED <<now, wait>>,
           left'.jump = left.jump
    PROVE  Awake'
  <1>1. /\ TypeOK /\ TypeOK' /\ todo # <<>>
        /\ Members(todo) = {Top} \cup Members(Rest) /\ Steady(Rest)
    BY ReadyParts, RestMembers, SteadyRest DEF Proceeds
  <1>2. PICK k : /\ Later(k) /\ (Quiet(k) \/ Moved(k))
                 /\ Top.op \in Timely => Calculating(k)
    BY DEF Proceeds
  <1>3. k \in Seq(Frames) /\ Resumes(k)
    BY <1>2 DEF Later, Quiet, Moved, Moves, Resumes
  <1>4. /\ \A f \in Members(todo') : f \in Members(k) \/ f.op = "calc"
        /\ Members(k) \subseteq Members(todo')
        /\ Calculating(k) => Calculating(todo')
    BY <1>3, ResumedMembers, ResumesKeeps
  <1>5. ~In("activate")'
    <2>1. \A f \in Members(k) : f.op # "activate"
      BY <1>1, <1>2 DEF Later, Begun, Steady
    <2>2. \A f \in Members(todo') : f.op # "activate"
      BY <1>4, <2>1
    <2> QED BY <1>1, <2>2, NoActivateOnTop
  <1>6. ASSUME Calculating(todo) PROVE Calculating(todo')
    <2>1. PICK f \in Members(todo) : f.op \in Timely
      BY <1>6 DEF Calculating
    <2>2. Calculating(k)
      BY <1>1, <1>2, <2>1 DEF Later, Calculating
    <2> QED BY <1>4, <2>2
  <1>7. ASSUME Armed(Retimers(todo)), ~Calculating(todo), ~Calculating(todo')
        PROVE  Armed(Retimers(todo))'
    <2>1. \A u \in Retimers(todo) :
            u \in Retimers(todo') \/ (Top.op = "retime" /\ Top.t = u)
      <3> SUFFICES ASSUME NEW u \in Retimers(todo),
                          ~(Top.op = "retime" /\ Top.t = u)
                   PROVE  u \in Retimers(todo')
        OBVIOUS
      <3>1. PICK f \in Members(todo) : f.op = "retime" /\ f.t = u
        BY RetimersOf
      <3>2. f \in Members(todo')
        BY <1>1, <1>2, <1>4, <3>1 DEF Later
      <3> QED BY <3>1, <3>2, RetimersOf
    <2>2. CASE Quiet(k)
      <3>1. Retimers(todo) \subseteq Retimers(todo') /\ Untouched
        BY <2>1, <2>2 DEF Quiet
      <3>2. \A u \in Members(timer_list') \ Retimers(todo') :
              /\ u \in Members(timer_list) \ Retimers(todo)
              /\ entry'[u] = entry[u]
        BY <3>1 DEF Untouched
      <3> QED BY <1>7, <3>2, ArmedKept
    <2>3. CASE Moved(k)
      <3>1. PICK t \in Timers :
              /\ Moves(t, k)
              /\ Top.op \in {"activate", "retime"} => t = Top.t
              /\ Recalculates(t, k) \/ Top.op \in {"activate", "process", "rearm"}
        BY <2>3 DEF Moved
      <3>2. Top.op \notin Timely
        BY <1>1, <1>7 DEF Calculating
      <3>3. t \notin Members(timer_list') \/ t \in Retimers(todo')
        <4>1. CASE Recalculates(t, k)
          BY <1>3, <1>7, <4>1, RecalculatesCalculates DEF Recalculates
        <4>2. CASE ~Recalculates(t, k)
          <5>1. Top.op = "activate" /\ t = Top.t
            BY <3>1, <3>2, <4>2 DEF Timely
          <5>2. t \in Retimers(todo)
            BY <1>1, <5>1 DEF Awake, In
          <5> QED BY <2>1, <5>1, <5>2
        <4> QED BY <4>1, <4>2
      <3>4. \A u \in Members(timer_list') \ Retimers(todo') :
              /\ u \in Members(timer_list) \ Retimers(todo)
              /\ entry'[u] = entry[u]
        <4> SUFFICES ASSUME NEW u \in Members(timer_list') \ Retimers(todo')
                     PROVE  /\ u \in Members(timer_list) \ Retimers(todo)
                            /\ entry'[u] = entry[u]
          OBVIOUS
        <4>1. u # t
          BY <3>3
        <4>2. u \in Members(timer_list) /\ u \in Timers
          BY <1>1, <3>1, <4>1, TypeParts DEF Moves
        <4>3. u \notin Retimers(todo)
          BY <2>1, <3>1, <4>1
        <4>4. entry'[u] = entry[u]
          BY <3>1, <4>1, <4>2 DEF Moves
        <4> QED BY <4>2, <4>3, <4>4
      <3> QED BY <1>7, <3>4, ArmedKept
    <2> QED BY <1>2, <2>2, <2>3
  <1> QED BY <1>5, <1>6, <1>7 DEF Awake

\* The box goes down, or a handler calculates the next activation.
LEMMA CalculatingAwake ==
    ASSUME TypeOK', Awake, Calculating(todo'), left'.jump <= Budget.jump,
           \A f \in Members(todo') : f.op # "activate"
    PROVE  Awake'
  BY NoActivateOnTop DEF Awake

LEMMA BootsAwake ==
    ASSUME TypeOK', Awake, Boots, left'.jump = left.jump
    PROVE  Awake'
  <1>1. Members(todo') = {BootFrame} /\ BootFrame.op = "boot"
    BY SingletonMembers, BootFrameType DEF Boots
  <1> QED BY <1>1, CalculatingAwake DEF Calculating, Timely, Awake

LEMMA BootAwake ==
    ASSUME TypeOK', Awake, Boot
    PROVE  Awake'
  <1>1. /\ timer_list' = <<>> /\ wait' = MaxWaitTime /\ left' = left
    BY DEF Boot
  <1>2. Armed(Retimers(todo))'
    <2>1. wait' \in 0..MaxWaitTime
      BY <1>1, TimerAssumption
    <2>2. Members(timer_list') = {}
      BY <1>1, MembersEmpty
    <2> QED BY <2>1, <2>2 DEF Armed
  <1>3. \A f \in Members(todo') : f.op # "activate"
    <2> DEFINE load == Frame("load", NoTimer, 1, <<>>)
    <2>1. load.op = "load"
      BY DEF Frame
    <2>2. todo' = <<load>> \/ todo' = <<>>
      BY DEF Boot
    <2> HIDE DEF load
    <2> QED BY <2>1, <2>2, SingletonMembers, MembersEmpty
  <1> QED BY <1>1, <1>2, <1>3, NoActivateOnTop DEF Awake

\* setNextActivation arms the eTimer for the first of all timers.
LEMMA SetNextActivationAwake ==
    ASSUME Ready, StageInv, Ordered, BootIsLast, Awake, SetNextActivation
    PROVE  Awake'
  <1>1. /\ TypeOK /\ TypeOK' /\ todo # <<>> /\ InOrder
        /\ UNCHANGED <<now, entry, timer_list, left>>
        /\ todo' = Rest /\ wait' = Delay(NextWake)
        /\ now \in Int /\ MaxWaitTime \in Nat
    BY ReadyParts, SetNextActivationOrdered, TimerAssumption
    DEF SetNextActivation, In, TypeOK
  <1>2. /\ NextWake \in Int /\ NextWake <= now + MaxWaitTime
        /\ \A t \in Members(timer_list) :
             NextActivation(t) \in Int /\ NextWake <= NextActivation(t)
    <2>1. CASE timer_list = <<>>
      <3>1. Members(timer_list) = {} /\ NextWake = now + MaxWaitTime
        BY <2>1, MembersEmpty DEF NextWake
      <3> QED BY <1>1, <3>1
    <2>2. CASE timer_list # <<>>
      <3>1. Members(timer_list)
              = {Head(timer_list)} \cup Members(Tail(timer_list))
        <4>1. timer_list \in Seq(Timers)
          BY <1>1 DEF TypeOK
        <4> QED BY <2>2, <4>1, MembersTail
      <3>2. /\ NextActivation(Head(timer_list)) \in Int
            /\ \A t \in Members(timer_list) :
                 /\ NextActivation(t) \in Int
                 /\ NextActivation(Head(timer_list)) <= NextActivation(t)
        BY <1>1, <3>1, HeadIsFirst
      <3>3. NextWake = IF NextActivation(Head(timer_list)) < now + MaxWaitTime
                       THEN NextActivation(Head(timer_list))
                       ELSE now + MaxWaitTime
        BY <2>2 DEF NextWake, Least
      <3>4. /\ NextWake \in Int /\ NextWake <= now + MaxWaitTime
            /\ NextWake <= NextActivation(Head(timer_list))
        BY <1>1, <3>2, <3>3
      <3>5. ASSUME NEW t \in Members(timer_list)
            PROVE  NextActivation(t) \in Int /\ NextWake <= NextActivation(t)
        BY <3>2, <3>4
      <3> QED BY <3>4, <3>5
    <2> QED BY <2>1, <2>2
  <1>3. /\ wait' \in 0..MaxWaitTime
        /\ wait' = 0 \/ now + wait' = NextWake
    BY <1>1, <1>2 DEF Delay
  <1>4. \A t \in Members(timer_list') :
          wait' = 0 \/ now' + wait' <= NextActivation(t)'
    <2>1. \A t \in Members(timer_list) : NextActivation(t)' = NextActivation(t)
      BY <1>1 DEF NextActivation
    <2> QED BY <1>1, <1>2, <1>3, <2>1
  <1>5. Armed(Retimers(todo))'
    BY <1>3, <1>4 DEF Armed
  <1>6. ~In("activate")'
    <2>1. Steady(Rest)
      BY <1>1, SteadyRest
    <2> QED BY <1>1, <2>1, NoActivateOnTop DEF Steady
  <1> QED BY <1>1, <1>5, <1>6 DEF Awake

LEMMA ActivationClock ==
    ASSUME TypeOK, NEW t, NEW k, DoActivate(t, k)
    PROVE  UNCHANGED <<now, wait>> /\ left'.jump = left.jump
  <1>1. UNCHANGED <<now, wait>>
    BY DEF DoActivate, clockVars
  <1>2. left' = left \/ left' = [left EXCEPT !["fault"] = @ - 1]
    BY DEF DoActivate, Skip, Prepare, Start, Stop, Fault, Spend
  <1> QED BY <1>1, <1>2 DEF TypeOK

LEMMA HandlerClock ==
    ASSUME TypeOK, Handler, ~SetNextActivation, ~Boot
    PROVE  UNCHANGED <<now, wait>> /\ left'.jump = left.jump
  <1>1. CASE ProcessActivation \/ ActivateChosen
    BY <1>1, ActivationClock DEF ProcessActivation, ActivateChosen
  <1>2. CASE ~(ProcessActivation \/ ActivateChosen)
    <2>1. UNCHANGED <<now, wait>> /\ left' = left
      BY <1>2 DEF Handler, CalcNextActivation, ReEvaluate, Fatal, Truncate,
                  Write, LoadTimer, AddRecord, LimitRecording,
                  ExtendRecordings, RemoveProcessed, CheckEdited,
                  RetimeChosen, clockVars
    <2> QED BY <2>1
  <1> QED BY <1>1, <1>2

LEMMA UserClock ==
    ASSUME TypeOK, User
    PROVE  UNCHANGED <<now, wait>> /\ left'.jump = left.jump
  <1>1. UNCHANGED <<now, wait>>
    BY ZenonT(40) DEF User, Record, InstantRecord, RemoveEntry, SetEnd, EditTimer, KeyGo,
           ToggleDisabledState, ToggleConflict, EditConflict, Cleanup,
           Shutdown, FinishEdit, Abandon, RetryRecord, RunningEventCallback,
           clockVars
  <1>2. left' = left \/ left' = [left EXCEPT !["user"] = @ - 1]
    BY DEF User, Record, InstantRecord, RemoveEntry, SetEnd, EditTimer,
           ToggleDisabledState, ToggleConflict, EditConflict, Cleanup,
           Shutdown, FinishEdit, Abandon, RetryRecord, RunningEventCallback,
           UserTurn, OnConflict, Spend
  <1> QED BY <1>1, <1>2 DEF TypeOK

\* While the main loop waits the eTimer runs.
LEMMA IdleArmed ==
    ASSUME Idle, Awake
    PROVE  Armed(Retimers(todo)) /\ Retimers(todo) = {}
  <1>1. Members(todo) = {}
    BY MembersEmpty DEF Idle
  <1> QED BY <1>1 DEF Awake, Calculating, Retimers

LEMMA UntouchedArmed ==
    ASSUME Idle, Awake, Untouched, UNCHANGED <<now, wait>>,
           left'.jump = left.jump
    PROVE  Armed(Retimers(todo))'
  <1>1. Armed(Retimers(todo)) /\ Retimers(todo) = {}
    BY IdleArmed
  <1>2. \A u \in Members(timer_list') \ Retimers(todo') :
          u \in Members(timer_list) \ Retimers(todo) /\ entry'[u] = entry[u]
    BY <1>1 DEF Untouched
  <1> QED BY <1>1, <1>2, ArmedKept

LEMMA ActsAwake ==
    ASSUME Ready, Awake, NEW ops, ops \subseteq UserCalls, Acts(ops),
           UNCHANGED <<now, wait>>, left'.jump = left.jump
    PROVE  Awake'
  <1>1. TypeOK /\ TypeOK' /\ Idle
    BY ReadyParts DEF Acts
  <1>2. PICK k \in Seq(Frames) :
          /\ \A f \in Members(k) : f.op \in UserCalls
          /\ \/ todo' = k /\ Untouched
             \/ \E t \in Timers : Moves(t, k) /\ Recalculates(t, k)
    BY DEF Acts
  <1>3. CASE todo' = k /\ Untouched
    <2>1. Armed(Retimers(todo))'
      BY <1>1, <1>3, UntouchedArmed
    <2>2. ~In("activate")'
      BY <1>1, <1>2, <1>3, NoActivateOnTop DEF UserCalls
    <2> QED BY <2>1, <2>2 DEF Awake
  <1>4. ASSUME NEW t \in Timers, Moves(t, k), Recalculates(t, k)
        PROVE  Awake'
    <2>1. ~In("activate")'
      <3>1. \A f \in Members(todo') : f \in Members(k) \/ f.op = "calc"
        BY <1>4, ResumedMembers DEF Moves
      <3> QED BY <1>1, <1>2, <3>1, NoActivateOnTop DEF UserCalls
    <2>2. CASE t \in Members(timer_list')
      <3>1. Calculating(todo')
        BY <1>4, <2>2, RecalculatesCalculates DEF Recalculates
      <3> QED BY <2>1, <3>1 DEF Awake
    <2>3. CASE t \notin Members(timer_list')
      <3>1. Armed(Retimers(todo)) /\ Retimers(todo) = {}
        BY <1>1, IdleArmed
      <3>2. \A u \in Members(timer_list') \ Retimers(todo') :
              u \in Members(timer_list) \ Retimers(todo) /\ entry'[u] = entry[u]
        BY <1>1, <1>4, <2>3, <3>1, TypeParts DEF Moves
      <3>3. Armed(Retimers(todo))'
        BY <3>1, <3>2, ArmedKept
      <3> QED BY <2>1, <3>3 DEF Awake
    <2> QED BY <2>2, <2>3
  <1> QED BY <1>2, <1>3, <1>4

LEMMA ShutdownAwake ==
    ASSUME Ready, Awake, Shutdown, left'.jump = left.jump
    PROVE  Awake'
  <1>1. todo' = ShutdownCalls /\ TypeOK'
    BY ReadyParts DEF Shutdown, ShutdownCalls
  <1>2. /\ Calculating(todo') /\ \A f \in Members(todo') : f.op # "activate"
    BY <1>1, ShutdownCallsType, BootFrameType DEF Calculating, Timely, Alone
  <1> QED BY <1>1, <1>2, CalculatingAwake DEF Awake

LEMMA RunningEventCallbackAwake ==
    ASSUME Ready, StageInv, Awake, RunningEventCallback,
           UNCHANGED <<now, wait>>, left'.jump = left.jump
    PROVE  Awake'
  <1> DEFINE t == dialog.t
             Activate == Frame("activate", t, 0, <<>>)
             Retime(n) == Frame("retime", t, n, <<>>)
  <1>1. /\ TypeOK /\ TypeOK' /\ Idle /\ dialog.kind = "choice"
        /\ UNCHANGED timer_list /\ entry \in [Timers -> Entries]
    BY ReadyParts DEF RunningEventCallback
  <1>2. \/ \E n \in {0, 1} : \E x : /\ entry' = [entry EXCEPT ![t] = x]
                                    /\ todo' = <<Activate, Retime(n)>>
        \/ todo' = <<Retime(1)>> /\ UNCHANGED entry
        \/ UNCHANGED <<entry, todo>>
    BY DEF RunningEventCallback
  <1>3. /\ Activate \in Frames /\ Activate.op = "activate" /\ Activate.t = t
        /\ \A n \in {0, 1} : /\ Retime(n) \in Frames /\ Retime(n).op = "retime"
                             /\ Retime(n).t = t
    <2>1. 0 \in Int /\ {0, 1} \subseteq Int /\ t \in Timers
      BY <1>1, TypeParts
    <2>2. Activate \in Frames /\ \A n \in {0, 1} : Retime(n) \in Frames
      BY <2>1, FrameType
    <2> QED BY <2>2 DEF Frame
  <1> HIDE DEF Activate, Retime, t
  <1>4. ASSUME NEW n \in {0, 1}, NEW x, entry' = [entry EXCEPT ![t] = x],
               todo' = <<Activate, Retime(n)>>
        PROVE  Awake'
    <2>1. /\ Members(todo') = {Activate, Retime(n)} /\ todo' # <<>>
          /\ Head(todo') = Activate
      BY <1>3, <1>4, PairMembers
    <2>2. t \in Retimers(todo')
      BY <1>3, <2>1, RetimersOf
    <2>3. Top'.t \in Retimers(todo')
      BY <1>3, <2>1, <2>2 DEF Top
    <2>4. Armed(Retimers(todo)) /\ Retimers(todo) = {}
      BY <1>1, IdleArmed
    <2>5. \A u \in Members(timer_list') \ Retimers(todo') :
            u \in Members(timer_list) \ Retimers(todo) /\ entry'[u] = entry[u]
      BY <1>1, <1>4, <2>2, <2>4, TypeParts
    <2>6. Armed(Retimers(todo))'
      BY <2>4, <2>5, ArmedKept
    <2> QED BY <2>3, <2>6 DEF Awake
  <1>5. CASE (todo' = <<Retime(1)>> \/ todo' = <<>>) /\ UNCHANGED entry
    <2>1. Untouched
      BY <1>1, <1>5 DEF Untouched
    <2>2. Armed(Retimers(todo))'
      BY <1>1, <2>1, UntouchedArmed
    <2>3. \A f \in Members(todo') : f.op = "retime"
      BY <1>3, <1>5, SingletonMembers, MembersEmpty
    <2> QED BY <1>1, <2>2, <2>3, NoActivateOnTop DEF Awake
  <1> QED BY <1>1, <1>2, <1>4, <1>5 DEF Idle

LEMMA UserAwake ==
    ASSUME Ready, StageInv, Ordered, Awake, Unedited, User
    PROVE  Awake'
  <1>1. UNCHANGED <<now, wait>> /\ left'.jump = left.jump
    BY ReadyParts, UserClock
  <1>2. ASSUME NEW ops, ops \subseteq UserCalls, Acts(ops) PROVE Awake'
    BY <1>1, <1>2, ActsAwake
  <1>3. /\ {"add", "limit"} \subseteq UserCalls /\ {} \subseteq UserCalls
        /\ {"edited", "limit"} \subseteq UserCalls
        /\ RemoveOps \subseteq UserCalls
    BY DEF UserCalls, RemoveOps
  <1> QED BY <1>1, <1>2, <1>3, UserActs, FinishEditActs, RemoveEntryActs,
             ShutdownAwake, RunningEventCallbackAwake

LEMMA TickAwake ==
    ASSUME TypeOK, Awake, Tick
    PROVE  Awake'
  <1>1. /\ now' = now + 1 /\ wait' = IF wait > 0 THEN wait - 1 ELSE wait
        /\ UNCHANGED <<entry, timer_list, todo, left>> /\ now \in Int
    BY DEF Tick, listVars, TypeOK
  <1>2. ASSUME Armed(Retimers(todo)) PROVE Armed(Retimers(todo))'
    <2>1. /\ wait \in 0..MaxWaitTime /\ MaxWaitTime \in Nat
          /\ wait' \in 0..MaxWaitTime
          /\ wait = 0 => wait' = 0
          /\ wait # 0 => now' + wait' = now + wait
      BY <1>1, <1>2, TimerAssumption DEF Armed
    <2>2. /\ Members(timer_list') = Members(timer_list)
          /\ Retimers(todo)' = Retimers(todo)
          /\ \A t : NextActivation(t)' = NextActivation(t)
      BY <1>1 DEF Members, Retimers, NextActivation
    <2>3. ASSUME left'.jump = Budget.jump,
                 NEW t \in Members(timer_list') \ Retimers(todo)'
          PROVE  wait' = 0 \/ now' + wait' <= NextActivation(t)'
      <3>1. wait = 0 \/ now + wait <= NextActivation(t)
        BY <1>1, <1>2, <2>2, <2>3 DEF Armed
      <3> QED BY <2>1, <2>2, <3>1
    <2> QED BY <2>1, <2>3 DEF Armed
  <1>3. Calculating(todo)' = Calculating(todo)
    BY <1>1 DEF Calculating, Members
  <1> QED BY <1>1, <1>2, <1>3 DEF Awake, In, Top, Retimers, Members

LEMMA NextAwake ==
    ASSUME Ready, StageInv, Ordered, BootIsLast, Awake, Unedited, [Next]_vars
    PROVE  Awake'
  <1>1. TypeOK /\ TypeOK' /\ "retry" \notin UserOps
    BY ReadyParts DEF Unedited
  <1>2. CASE Handler
    <2>1. CASE SetNextActivation
      BY <2>1, SetNextActivationAwake
    <2>2. CASE Boot
      BY <1>1, <2>2, BootAwake
    <2>3. CASE ~SetNextActivation /\ ~Boot
      <3>1. UNCHANGED <<now, wait>> /\ left'.jump = left.jump
        BY <1>1, <1>2, <2>3, HandlerClock
      <3>2. Proceeds \/ Boots
        BY <1>1, <1>2, <2>3, HandlerProceeds
      <3> QED BY <1>1, <3>1, <3>2, ProceedsAwake, BootsAwake
    <2> QED BY <2>1, <2>2, <2>3
  <1>3. CASE UNCHANGED vars
    BY <1>3 DEF vars, clockVars, listVars, Awake, In, Top, Retimers, Members,
                Calculating, Armed, NextActivation
  <1>4. CASE SetClock
    <2>1. /\ UNCHANGED <<wait, entry, timer_list, todo>> /\ Idle
          /\ left.jump \in Nat /\ left'.jump = left.jump - 1
      BY <1>1, <1>4 DEF SetClock, Spend, listVars, TypeOK
    <2>2. left.jump <= Budget.jump /\ Budget.jump \in Nat
      BY TimerAssumption DEF Awake
    <2>3. left'.jump < Budget.jump
      BY <2>1, <2>2
    <2>4. wait' \in 0..MaxWaitTime
      BY <2>1, IdleArmed DEF Armed
    <2>5. Armed(Retimers(todo))'
      BY <2>2, <2>3, <2>4 DEF Armed
    <2> QED BY <2>1, <2>2, <2>3, <2>5 DEF Awake, In, Idle
  <1>5. CASE Timeout
    <2>1. Calc.op = "calc" /\ Members(todo') = {Calc} /\ left' = left
      BY <1>5, SingletonMembers DEF Calc, Frame, Timeout
    <2> QED BY <1>1, <2>1, CalculatingAwake DEF Calculating, Timely, Awake
  <1>6. CASE Crash
    <2>1. Boots /\ left'.jump = left.jump
      BY <1>1, <1>6 DEF Crash, Boots, Spend, TypeOK
    <2> QED BY <1>1, <2>1, BootsAwake
  <1> QED BY <1>1, <1>2, <1>3, <1>4, <1>5, <1>6, UserAwake, TickAwake DEF Next

LEMMA InitAwake == Init => Awake
  <1> SUFFICES ASSUME Init PROVE Awake
    OBVIOUS
  <1>1. /\ timer_list = <<>> /\ todo = <<>> /\ wait = MaxWaitTime
        /\ left = Budget /\ Members(timer_list) = {}
    BY MembersEmpty DEF Init
  <1>2. wait \in 0..MaxWaitTime /\ left.jump <= Budget.jump
    <2>1. Budget.jump \in Nat /\ MaxWaitTime \in Nat
      BY TimerAssumption
    <2> QED BY <1>1, <2>1
  <1> QED BY <1>1, <1>2 DEF Awake, In, Armed

LEMMA AwakeHolds ==
    Unedited => (Spec => []Awake)
  <1> SUFFICES ASSUME Unedited PROVE Spec => []Awake
    OBVIOUS
  <1>1. Init => Awake
    BY InitAwake
  <1>2. Ready /\ StageInv /\ Ordered /\ BootIsLast /\ Awake /\ [Next]_vars
          => Awake'
    BY NextAwake
  <1>3. TypeOK /\ TypeOK' /\ ListsInv /\ Served => Ready
    BY DEF Ready, Typed
  <1>4. Spec => [](TypeOK /\ ListsInv /\ Served /\ StageInv)
    BY ReadyHolds
  <1>5. Spec => [](Ordered /\ BootIsLast)
    BY OrderedHolds
  <1> QED BY <1>1, <1>2, <1>3, <1>4, <1>5, PTL DEF Spec

\* For any number of timers, any budget of crashes and faults, and whatever the
\* user does but edit: when the main loop waits, the eTimer runs and fires at
\* the latest MaxWaitTime from now and, as long as the clock was not set, in
\* time for every timer of timer_list (timer.py:202-232).
THEOREM TheBoxWakesInTime ==
    Unedited => (Spec => []WakesInTime)
  <1>1. Awake => WakesInTime
    BY IdleArmed DEF Armed, WakesInTime
  <1> QED BY <1>1, AwakeHolds, PTL

-----------------------------------------------------------------------------
(***************************************************************************)
(*                  8. What a call looks for is there                      *)
(*                                                                         *)
(* removeEntry enqueues the aborted timer again, and looks for it in       *)
(* processed_timers when the calls this leads to have returned.  Leaving   *)
(* says why it is there: it is due, whatever the clock, so that no         *)
(* processActivation ends before the timer has, and nothing else can run   *)
(* that would bring it back.                                               *)
(***************************************************************************)

\* The lists lose no timer when another one is put into one of them.
LEMMA AddTimerEntryKeeps ==
    ASSUME NEW active \in Seq(Timers), NEW processed \in Seq(Timers),
           NEW t, NEW e, NEW k, NEW noRecalc,
           AddTimerEntry(t, e, active, processed, k, noRecalc)
    PROVE  /\ Members(active) \subseteq Members(timer_list')
           /\ Members(processed) \subseteq Members(processed_timers')
           /\ t \in Known' /\ \E x : entry' = [entry EXCEPT ![t] = x]
  <1>1. PICK x \in ProcessRepeated(e, now, TRUE) :
          IF AlreadyPassed(x)
          THEN Retire(t, x, processed, k) /\ timer_list' = active
          ELSE /\ Enqueue(t, x, active, Recalc(k, noRecalc))
               /\ processed_timers' = processed
    BY DEF AddTimerEntry
  <1>2. CASE AlreadyPassed(x)
    <2>1. PICK p \in 0..Len(processed) :
            processed_timers' = InsertAfter(processed, p, t)
      BY <1>1, <1>2, InsertPointsType DEF Retire
    <2>2. Members(processed_timers') = Members(processed) \cup {t}
      BY <2>1, InsertAfterMembers
    <2> QED BY <1>1, <1>2, <2>2 DEF Retire, Known
  <1>3. CASE ~AlreadyPassed(x)
    <2>1. PICK p \in 0..Len(active) : timer_list' = InsertAfter(active, p, t)
      BY <1>1, <1>3, InsertPointsType DEF Enqueue
    <2>2. Members(timer_list') = Members(active) \cup {t}
      BY <2>1, InsertAfterMembers
    <2> QED BY <1>1, <1>3, <2>2 DEF Enqueue, Known
  <1> QED BY <1>2, <1>3

LEMMA ReEvaluateKeeps ==
    ASSUME Ready, ReEvaluate, Top.rest # <<>>
    PROVE  LET x == Head(Top.rest)
               f == [Top EXCEPT !.rest = Tail(@)]
           IN  /\ x \in Timers /\ x \notin Known /\ x \in Known'
               /\ f \in Frames /\ f.op = "rearm" /\ todo' = <<f>> \o Rest
               /\ Pending = {x} \cup Pending'
               /\ Members(timer_list) \subseteq Members(timer_list')
               /\ Members(processed_timers) \subseteq Members(processed_timers')
               /\ \A u \in Timers \ {x} : entry'[u] = entry[u]
  <1> DEFINE x == Head(Top.rest)
             e == ResetState(entry[x])
             f == [Top EXCEPT !.rest = Tail(@)]
             k == <<f>> \o Rest
  <1>1. /\ TypeOK /\ todo # <<>> /\ In("rearm") /\ Top.op = "rearm" /\ ListsInv
        /\ timer_list \in Seq(Timers) /\ processed_timers \in Seq(Timers)
        /\ entry \in [Timers -> Entries]
    BY ReadyParts DEF ReEvaluate, In, TypeOK
  <1>2. /\ Top.rest \in Seq(Timers) /\ Top \in Frames
        /\ \A r \in Seq(Timers) : [Top EXCEPT !.rest = r] \in Frames
    BY <1>1, TopOfKind, TopType DEF TypeOK
  <1>3. /\ x \in Timers /\ Tail(Top.rest) \in Seq(Timers)
        /\ Members(Top.rest) = {x} \cup Members(Tail(Top.rest))
    BY <1>2, MembersTail
  <1>4. f \in Frames /\ f.op = "rearm" /\ f.rest = Tail(Top.rest)
    BY <1>1, <1>2, <1>3 DEF Frames
  <1>5. x \notin Known /\ e \in Entries
    BY <1>1, <1>3, ReadyParts, ResetStateType DEF ListsInv
  <1>6. AddTimerEntry(x, e, timer_list, processed_timers, k, TRUE)
    BY DEF ReEvaluate
  <1> HIDE DEF x, e, f
  <1>7. todo' = k
    BY <1>6 DEF AddTimerEntry, Retire, Enqueue, Recalc
  <1>8. /\ Members(timer_list) \subseteq Members(timer_list')
        /\ Members(processed_timers) \subseteq Members(processed_timers')
        /\ x \in Known' /\ \E y : entry' = [entry EXCEPT ![x] = y]
    BY <1>1, <1>6, AddTimerEntryKeeps
  <1>9. Top' = f /\ todo' # <<>>
    BY <1>1, <1>4, <1>7, ReplacedMembers DEF Top
  <1>10. Pending = {x} \cup Pending'
    BY <1>1, <1>3, <1>4, <1>9 DEF Pending, In
  <1>11. \A u \in Timers \ {x} : entry'[u] = entry[u]
    BY <1>1, <1>8
  <1> QED BY <1>3, <1>4, <1>5, <1>7, <1>8, <1>10, <1>11 DEF f, x

\* No timer is lost but those removed, as long as the box is on.
LEMMA HandlerKeeps ==
    ASSUME Ready, StageInv, "retry" \notin UserOps, Handler
    PROVE  RemoveProcessed \/ Boot \/ Alive \subseteq Alive'
  <1>1. TypeOK /\ ListTypes /\ ListsInv /\ ListsConsistent
    BY ReadyParts, TypeParts
  <1>2. ASSUME ~In("rearm"), Known \subseteq Known'
        PROVE  Alive \subseteq Alive'
    BY <1>2 DEF Alive, Pending
  <1>3. CASE CalcNextActivation
    <2>1. /\ UNCHANGED timer_list /\ ~In("rearm")
          /\ \/ UNCHANGED processed_timers
             \/ Pending' = Members(processed_timers)
      <3>1. Frame("rearm", NoTimer, 0, processed_timers) \in Frames
        BY <1>1, FrameType DEF ListTypes
      <3>2. CASE lastActivation > now
        <4>1. Top' = Frame("rearm", NoTimer, 0, processed_timers) /\ todo' # <<>>
          BY <1>1, <1>3, <3>1, <3>2, ReplacedMembers
          DEF CalcNextActivation, In, Top
        <4> QED BY <1>3, <4>1 DEF CalcNextActivation, In, Pending, Frame
      <3>3. CASE ~(lastActivation > now)
        BY <1>3, <3>3 DEF CalcNextActivation, In
      <3> QED BY <3>2, <3>3
    <2> QED BY <2>1 DEF Alive, Pending, Known
  <1>4. CASE ReEvaluate
    <2>1. CASE Top.rest = <<>>
      BY <1>4, <2>1, MembersEmpty DEF ReEvaluate, Alive, Pending, Known
    <2>2. CASE Top.rest # <<>>
      BY <1>4, <2>2, ReEvaluateKeeps DEF Alive, Known
    <2> QED BY <2>1, <2>2
  <1>5. CASE ProcessActivation \/ ActivateChosen
    <2>1. PICK t \in Timers : \E k : DoActivate(t, k)
      <3>1. timer_list # <<>> => Head(timer_list) \in Timers
        BY <1>1, MembersTail DEF ListTypes
      <3>2. In("activate") => Top.t \in Timers
        BY <1>1, TopOfKind DEF ListTypes, In
      <3> QED BY <1>5, <3>1, <3>2
              DEF ProcessActivation, HeadDue, ActivateChosen
    <2>2. Known' = Known \cup {t}
      BY <1>1, <2>1, ActivationRequeues, RequeueLists DEF SameDays
    <2> QED BY <1>2, <1>5, <2>2 DEF ProcessActivation, ActivateChosen, In
  <1>6. CASE \/ LimitRecording \/ ExtendRecordings \/ CheckEdited
             \/ RetimeChosen
    <2>1. Retimes /\ ~In("rearm")
      BY <1>1, <1>6, LimitRecordingRetimes, ExtendRecordingsRetimes,
         CheckEditedRetimes, RetimeChosenRetimes
      DEF In, LimitRecording, ExtendRecordings, CheckEdited, RetimeChosen
    <2>2. CASE UNCHANGED <<timer_list, processed_timers>>
      BY <1>2, <2>1, <2>2 DEF Known
    <2>3. ASSUME NEW t \in Timers, NEW k, Retimed(t, k)
          PROVE  Known' = Known \cup {t}
      BY <1>1, <2>3, TimerTimeChangedLists DEF Retimed, SameService
    <2> QED BY <1>2, <2>1, <2>2, <2>3 DEF Retimes
  <1>7. CASE LoadTimer \/ AddRecord
    <2>1. \/ UNCHANGED <<timer_list, processed_timers>>
          \/ \E t, e, k, noRecalc :
               AddTimerEntry(t, e, timer_list, processed_timers, k, noRecalc)
      BY <1>7 DEF LoadTimer, AddRecord, Drop
    <2>2. Known \subseteq Known'
      BY <1>1, <2>1, AddTimerEntryKeeps DEF Known, ListTypes
    <2> QED BY <1>2, <1>7, <2>2 DEF LoadTimer, AddRecord, In
  <1>8. CASE SetNextActivation \/ Fatal \/ Truncate \/ Write
    BY <1>2, <1>8
    DEF SetNextActivation, Fatal, Truncate, Write, In, Known
  <1> QED BY <1>3, <1>4, <1>5, <1>6, <1>7, <1>8 DEF Handler
LEMMA UserKeeps ==
    ASSUME Ready, Unedited, User
    PROVE  Idle /\ (Cleanup \/ Alive \subseteq Alive')
  <1>1. TypeOK /\ ListTypes /\ ListsConsistent
    BY ReadyParts, TypeParts
  <1>2. ~RetryRecord /\ \A t \in Timers : ~OnConflict(t) /\ ~EditTimer(t)
    BY ReadyParts, SMTT(30) DEF ListsInv, NoRetry, RetryRecord, Unedited, OnConflict,
                      EditTimer, UserTurn
  <1>3. Idle
    BY <1>2 DEF User, Record, InstantRecord, RemoveEntry, SetEnd,
                ToggleDisabledState, ToggleConflict, EditConflict, Cleanup,
                Shutdown, FinishEdit, Abandon, RunningEventCallback, UserTurn
  <1>4. ASSUME Known \subseteq Known' PROVE Alive \subseteq Alive'
    BY <1>3, <1>4 DEF Alive, Pending, In, Idle
  <1>5. ASSUME UNCHANGED <<timer_list, processed_timers>>
        PROVE  Known \subseteq Known'
    BY <1>5 DEF Known
  <1>6. ASSUME NEW t \in Timers, NEW e \in Entries, e.state = entry[t].state,
               NEW k, TimerTimeChanged(t, e, k)
        PROVE  Known \subseteq Known'
    BY <1>1, <1>6, TimerTimeChangedLists
  <1>7. ASSUME NEW t \in Timers, SetEnd(t)
        PROVE  Known \subseteq Known'
    <2>1. PICK end \in Int, growing \in BOOLEAN :
            TimerTimeChanged(t, [entry[t] EXCEPT !.autoincrease = growing,
                                                 !.end = end], <<>>)
      BY <1>1, <1>7, SetEndChange
    <2> DEFINE e == [entry[t] EXCEPT !.autoincrease = growing, !.end = end]
    <2>2. e \in Entries /\ e.state = entry[t].state
      <3>1. entry[t] \in Entries
        BY ReadyParts
      <3> QED BY <3>1 DEF Entries
    <2> QED BY <1>6, <2>1, <2>2
  <1>8. ASSUME NEW t \in Timers, ToggleDisabledState(t)
        PROVE  Known \subseteq Known'
    <2>1. PICK disabled \in BOOLEAN :
            TimerTimeChanged(t, [entry[t] EXCEPT !.disabled = disabled], <<>>)
      BY <1>1, <1>8, ToggleChange
    <2> QED BY <1>6, <2>1, ReadyParts, DisabledService DEF SameService
  <1>9. ASSUME NEW t \in Timers, RemoveEntry(t)
        PROVE  Known \subseteq Known'
    BY <1>5, <1>6, <1>9, ReadyParts, RemoveEntryCalls
  <1>10. Cleanup \/ Known \subseteq Known'
    BY <1>2, <1>5, <1>7, <1>8, <1>9
    DEF User, Record, InstantRecord, ToggleConflict, EditConflict, Shutdown,
        FinishEdit, Abandon, RunningEventCallback
  <1> QED BY <1>3, <1>4, <1>10

-----------------------------------------------------------------------------
(***************************************************************************)
(* The calls to come.                                                      *)
(***************************************************************************)

\* A handler makes no call that is the user's to begin.
LEMMA HandlerBegins ==
    ASSUME Ready, Ordered, "retry" \notin UserOps, Handler,
           NEW f \in Members(todo'), f.op \in Begun \ {"boot"}
    PROVE  f \in Members(todo)
  <1>1. /\ TypeOK /\ todo \in Seq(Frames)
        /\ todo # <<>> => Members(Rest) \subseteq Members(todo)
    BY ReadyParts, RestMembers DEF TypeOK
  <1>2. CASE Proceeds
    <2>1. PICK k : Later(k) /\ Resumes(k) /\ todo # <<>>
      BY <1>2 DEF Proceeds, Quiet, Moved, Moves, Resumes
    <2>2. f \in Members(k) \/ f.op = "calc"
      <3>1. k \in Seq(Frames)
        BY <2>1 DEF Later
      <3> QED BY <2>1, <3>1, ResumedMembers
    <2> QED BY <1>1, <2>1, <2>2 DEF Later, Begun
  <1>3. CASE SetNextActivation
    BY <1>1, <1>3 DEF SetNextActivation, In
  <1>4. CASE Boots
    BY <1>4, BootFrameType, SingletonMembers DEF Boots
  <1>5. CASE Boot
    <2>1. todo' = <<Frame("load", NoTimer, 1, <<>>)>> \/ todo' = <<>>
      BY <1>5 DEF Boot
    <2> QED BY <2>1, SingletonMembers, MembersEmpty DEF Frame, Begun
  <1> QED BY <1>2, <1>3, <1>4, <1>5, HandlerProceeds

LEMMA UserBegins ==
    ASSUME Ready, Ordered, Unedited, User, NEW f \in Members(todo')
    PROVE  /\ f.op \in {"edited", "retime"}
                => dialog.kind # "none" /\ f.t = dialog.t
           /\ f.op = "remove" => \E t \in Timers : RemoveEntry(t)
  <1>1. TypeOK
    BY ReadyParts
  <1>2. ASSUME NEW ops, Acts(ops)
        PROVE  f.op \in ops \cup {"calc"}
    <2>1. PICK k \in Seq(Frames) :
            (\A g \in Members(k) : g.op \in ops) /\ Resumes(k)
      BY <1>2 DEF Acts, Moves, Resumes
    <2> QED BY <2>1, ResumedMembers
  <1>3. CASE FinishEdit
    <2> DEFINE edited == Frame("edited", dialog.t, 0, <<>>)
    <2>1. dialog.kind # "none" /\ \E begin : Shorten(begin, edited)
      BY <1>3 DEF FinishEdit
    <2>2. edited \in Frames /\ edited.t = dialog.t /\ edited.op = "edited"
      <3>1. 0 \in Int /\ dialog.t \in Timers
        BY <1>1, <2>1, TypeParts
      <3> QED BY <3>1, FrameType DEF Frame
    <2> HIDE DEF edited
    <2>3. f = edited \/ f.op = "limit"
      <3>1. \/ todo' = <<edited>>
            \/ \E g : todo' = <<g, edited>> /\ g.op = "limit"
        BY <1>1, <2>1, <2>2, ShortenCalls
      <3> QED BY <3>1 DEF Members
    <2> QED BY <2>1, <2>2, <2>3
  <1>4. CASE Shutdown
    BY <1>4, ShutdownCallsType DEF Shutdown, ShutdownCalls, Alone
  <1>5. CASE RunningEventCallback
    <2>1. /\ dialog.kind # "none"
          /\ \/ todo' = <<Frame("retime", dialog.t, 1, <<>>)>>
             \/ \E n : todo' = <<Frame("activate", dialog.t, 0, <<>>),
                                 Frame("retime", dialog.t, n, <<>>)>>
             \/ todo' = <<>>
      BY <1>5 DEF RunningEventCallback, Idle
    <2> QED BY <2>1 DEF Members, Frame
  <1>6. CASE \E t \in Timers : RemoveEntry(t)
    BY <1>2, <1>6, RemoveEntryActs DEF RemoveOps
  <1> QED BY <1>2, <1>3, <1>4, <1>5, <1>6, UserActs

-----------------------------------------------------------------------------
(***************************************************************************)
(* The timers the screens are about.                                       *)
(***************************************************************************)

\* What can be called while removeEntry runs.
Removing == {"calc", "process", "rearm"} \cup RemoveOps

\* An activation of a timer in this state ends it, or brings it nearer to its
\* end, whenever it comes.
Ending(e) ==
    \/ e.state = StateRunning
    \/ e.state = StatePrepared /\ e.cancelled /\ e.begin <= e.end

OnItsWay(t) ==
    \/ t \in Members(processed_timers) \cup Pending
    \/ /\ t \in Members(timer_list) /\ Ending(entry[t])
       /\ Top.op \in {"calc", "process", "rearm"}

Leaving(t) ==
    /\ dialog = NoDialog
    /\ \A f \in Members(todo) :
         f.op \in Removing /\ (f.op = "process" => f.n >= entry[t].end)
    /\ entry[t].repeated = {} /\ ~entry[t].autoincrease
    /\ entry[t].end <= now
    /\ OnItsWay(t)

\* There is one removal at most, with saveTimer behind it.
RemovalLast(stack) ==
    \A i \in DOMAIN stack : stack[i].op = "remove" => Len(stack) = i + 2

RemovalInv ==
    /\ RemovalLast(todo)
    /\ \A f \in Members(todo) : f.op = "remove" => Leaving(f.t)

\* A screen is about a timer that is there, and so is the answer to it.
ScreensKnow ==
    /\ dialog.kind # "none" /\ ~In("boot") => dialog.t \in Alive
    /\ \A f \in Members(todo) : f.op \in {"edited", "retime"} => f.t \in Alive

\* A step that loses no timer, and opens no dialog but about one that is there.
LEMMA ScreensKnowOn ==
    ASSUME ScreensKnow, ~In("boot"), Alive \subseteq Alive',
           UNCHANGED dialog \/ dialog'.kind = "none" \/ dialog'.t \in Alive,
           \A f \in Members(todo') : f.op \in {"edited", "retime"}
             => f \in Members(todo) \/ f.t \in Alive
    PROVE  ScreensKnow'
  BY DEF ScreensKnow

LEMMA HandlerScreens ==
    ASSUME Ready, StageInv, Ordered, RemovalInv, ScreensKnow, Unedited, Handler
    PROVE  ScreensKnow'
  <1>1. /\ TypeOK /\ NoDialog.kind = "none" /\ "retry" \notin UserOps
        /\ \A f \in Members(todo') : f.op \in {"edited", "retime"}
             => f \in Members(todo)
    BY HandlerBegins, ReadyParts DEF Unedited, Begun, NoDialog
  <1>2. CASE Boot
    <2>1. \A f \in Members(todo') : f.op = "load"
      BY <1>2, SingletonMembers, MembersEmpty DEF Boot, Frame
    <2> QED BY <1>1, <1>2, <2>1 DEF Boot, ScreensKnow
  <1>3. CASE RemoveProcessed
    <2>1. Top \in Members(todo) /\ Top.op = "remove"
      BY <1>1, <1>3, RestMembers DEF RemoveProcessed, In
    <2>2. Leaving(Top.t)
      BY <2>1 DEF RemovalInv
    <2>3. dialog' = NoDialog
      BY <1>3, <2>2 DEF RemoveProcessed, Leaving
    <2>4. \A f \in Members(todo) : f.op \notin {"edited", "retime"}
      BY <2>2 DEF Leaving, Removing, RemoveOps
    <2> QED BY <1>1, <2>3, <2>4 DEF ScreensKnow
  <1>4. CASE ~Boot /\ ~RemoveProcessed
    <2>1. Alive \subseteq Alive'
      BY <1>1, <1>4, HandlerKeeps, SMTT(30)
    <2>2. ~In("boot")
      BY <1>4 DEF Handler, CalcNextActivation, ReEvaluate, ProcessActivation,
           SetNextActivation, Fatal, Truncate, Write, LoadTimer, AddRecord,
           LimitRecording, ExtendRecordings, CheckEdited, ActivateChosen,
           RetimeChosen, In
    <2>3. UNCHANGED dialog \/ CheckEdited
      BY <1>1, <1>4 DEF Handler, CalcNextActivation, ReEvaluate,
           ProcessActivation, SetNextActivation, Fatal, Truncate, Write,
           LoadTimer, AddRecord, LimitRecording, ExtendRecordings,
           ActivateChosen, RetimeChosen, DoActivate
    <2>4. CASE CheckEdited
      <3>1. Top.t \in Alive
        BY <1>1, <2>4, RestMembers DEF CheckEdited, In, ScreensKnow
      <3>2. UNCHANGED dialog \/ dialog'.t \in Alive
        BY <2>4, <3>1 DEF CheckEdited, FirstInConflict, Open, Alive, Known
      <3> QED BY <1>1, <2>1, <2>2, <3>2, ScreensKnowOn
    <2> QED BY <1>1, <2>1, <2>2, <2>3, <2>4, ScreensKnowOn
  <1> QED BY <1>2, <1>3, <1>4

LEMMA UserScreens ==
    ASSUME Ready, Ordered, ScreensKnow, Unedited, User
    PROVE  ScreensKnow'
  <1>1. /\ NoDialog.kind = "none" /\ Idle /\ ~In("boot")
        /\ Cleanup \/ Alive \subseteq Alive'
    BY UserKeeps DEF NoDialog, Idle, In
  <1>2. \A f \in Members(todo') : f.op \in {"edited", "retime"}
          => f.t \in Alive
    BY <1>1, UserBegins DEF ScreensKnow
  <1>3. CASE Cleanup
    BY <1>1, <1>3, MembersEmpty DEF Cleanup, UserTurn, ScreensKnow, Idle
  <1>4. CASE ~Cleanup
    <2>1. \/ UNCHANGED dialog \/ dialog'.kind = "none"
          \/ \E t \in Timers : ToggleDisabledState(t)
      BY <1>1, <1>4 DEF User, Record, InstantRecord, RemoveEntry, SetEnd,
           EditTimer, ToggleConflict, EditConflict, Shutdown, FinishEdit,
           Abandon, RetryRecord, RunningEventCallback, OnConflict, UserTurn,
           Unedited
    <2>2. ASSUME NEW t \in Timers, ToggleDisabledState(t)
          PROVE  \/ UNCHANGED dialog \/ dialog'.kind = "none"
                 \/ dialog'.t \in Alive
      BY <1>1, <2>2, SMTT(30)
      DEF ToggleDisabledState, FirstInConflict, Open, Alive, Known
    <2> QED BY <1>1, <1>2, <1>4, <2>1, <2>2, ScreensKnowOn
  <1> QED BY <1>3, <1>4

LEMMA NextScreens ==
    ASSUME Ready, StageInv, Ordered, RemovalInv, ScreensKnow, Unedited,
           [Next]_vars
    PROVE  ScreensKnow'
  <1>1. CASE UNCHANGED <<timer_list, processed_timers, todo, dialog>>
    BY <1>1 DEF ScreensKnow, Alive, Known, Pending, In, Top
  <1>2. CASE Timeout
    <2>1. ~In("boot") /\ ~In("rearm") /\ ~In("rearm")'
      BY <1>2 DEF Timeout, Idle, In, Top, Calc, Frame
    <2>2. \A f \in Members(todo') : f.op = "calc"
      BY <1>2, SingletonMembers DEF Timeout, Calc, Frame
    <2>3. UNCHANGED <<dialog, Alive>>
      BY <1>2, <2>1 DEF Timeout, Alive, Known, Pending
    <2> QED BY <2>1, <2>2, <2>3, ScreensKnowOn
  <1>3. CASE Crash
    <2>1. In("boot")'
      BY <1>3, BootFrameType DEF Crash, In, Top
    <2>2. \A f \in Members(todo') : f.op = "boot"
      BY <1>3, BootFrameType, SingletonMembers DEF Crash
    <2> QED BY <2>1, <2>2 DEF ScreensKnow
  <1> QED BY <1>1, <1>2, <1>3, HandlerScreens, UserScreens
          DEF Next, vars, listVars, Tick, SetClock

-----------------------------------------------------------------------------
(***************************************************************************)
(* The timer removeEntry waits for.                                        *)
(***************************************************************************)

\* A call of removeEntry goes on with k.
GoesOn(k) ==
    \/ k = todo \/ k = Rest
    \/ \E f \in Frames : /\ f = Process \/ f.op \in {"calc", "rearm", "extend"}
                         /\ k = <<f>> \o Rest

\* What is withdrawn stays withdrawn.
StillEnds(t) ==
    /\ entry'[t].repeated = entry[t].repeated
    /\ entry'[t].autoincrease = entry[t].autoincrease
    /\ entry'[t].end = entry[t].end

LEMMA RemovalPush ==
    ASSUME NEW s \in Seq(Frames), NEW f \in Frames, f.op # "remove",
           RemovalLast(s)
    PROVE  RemovalLast(<<f>> \o s)
  <1>1. /\ Len(<<f>> \o s) = Len(s) + 1 /\ Len(s) \in Nat
        /\ DOMAIN (<<f>> \o s) = 1..Len(s) + 1 /\ DOMAIN s = 1..Len(s)
        /\ (<<f>> \o s)[1] = f
        /\ \A i \in 2..Len(s) + 1 : (<<f>> \o s)[i] = s[i - 1]
    OBVIOUS
  <1> QED BY <1>1 DEF RemovalLast

LEMMA RemovalRest ==
    ASSUME TypeOK, todo # <<>>, RemovalLast(todo)
    PROVE  /\ RemovalLast(Rest)
           /\ Top.op = "remove" => \A f \in Members(Rest) : f.op # "remove"
  <1>1. /\ Len(Rest) = Len(todo) - 1 /\ Len(todo) \in Nat
        /\ DOMAIN Rest = 1..Len(todo) - 1 /\ DOMAIN todo = 1..Len(todo)
        /\ Top = todo[1] /\ 1 \in DOMAIN todo
        /\ \A i \in 1..Len(todo) - 1 : Rest[i] = todo[i + 1]
    <2>1. todo \in Seq(Frames)
      BY DEF TypeOK
    <2> QED BY <2>1 DEF Rest, Top
  <1>2. ASSUME NEW i \in DOMAIN Rest, Rest[i].op = "remove"
        PROVE  Len(Rest) = i + 2 /\ Top.op # "remove"
    <2>1. i \in 1..Len(todo) - 1 /\ todo[i + 1].op = "remove"
      BY <1>1, <1>2
    <2>2. i + 1 \in DOMAIN todo
      BY <1>1, <2>1
    <2>3. Len(todo) = (i + 1) + 2
      BY <2>1, <2>2 DEF RemovalLast
    <2>4. Top.op = "remove" => Len(todo) = 3
      BY <1>1 DEF RemovalLast
    <2> QED BY <1>1, <2>1, <2>3, <2>4
  <1> QED BY <1>2 DEF RemovalLast, Members

LEMMA RemovalGoesOn ==
    ASSUME Ready, todo # <<>>, RemovalInv, NEW k, GoesOn(k), Resumes(k),
           UNCHANGED <<now, dialog>>,
           \A t \in Timers : Leaving(t) => StillEnds(t) /\ OnItsWay(t)'
    PROVE  RemovalInv'
  <1>1. /\ TypeOK /\ todo \in Seq(Frames) /\ Rest \in Seq(Frames)
        /\ RemovalLast(todo) /\ RemovalLast(Rest) /\ now \in Int
        /\ Members(todo) = {Top} \cup Members(Rest)
        /\ Calc \in Frames /\ Calc.op = "calc" /\ Process.op = "process"
        /\ \A t \in Timers : entry[t].end \in Int
    <2>1. \A e \in Entries : e.end \in Int
      BY DEF Entries
    <2> QED BY <2>1, ReadyParts, TopType, RemovalRest, RestMembers, FrameType
            DEF RemovalInv, TypeOK, Calc, Frame, Process
  <1>2. /\ k \in Seq(Frames) /\ RemovalLast(k)
        /\ \A f \in Members(k) : \/ f \in Members(todo) \/ f = Process
                                 \/ f.op \in {"calc", "rearm", "extend"}
    <2>1. CASE k = todo \/ k = Rest
      BY <1>1, <2>1
    <2>2. ASSUME NEW f \in Frames, k = <<f>> \o Rest,
                 f = Process \/ f.op \in {"calc", "rearm", "extend"}
          PROVE  /\ k \in Seq(Frames) /\ RemovalLast(k)
                 /\ Members(k) = {f} \cup Members(Rest)
      BY <1>1, <2>2, PushType, RemovalPush, MembersPush
    <2> QED BY <1>1, <2>1, <2>2 DEF GoesOn
  <1>3. RemovalLast(todo')
    BY <1>1, <1>2, RemovalPush DEF Resumes
  <1>4. \A f \in Members(todo') : \/ f \in Members(todo) \/ f = Process
                                  \/ f.op \in {"calc", "rearm", "extend"}
    BY <1>2, ResumedMembers
  <1>5. ASSUME NEW f \in Members(todo'), f.op = "remove"
        PROVE  Leaving(f.t)'
    <2>1. f \in Members(todo) /\ f \in Frames
      BY <1>1, <1>4, <1>5, MembersType
    <2>2. f.t \in Timers /\ Leaving(f.t)
      BY <1>5, <2>1 DEF Frames, RemovalInv
    <2>3. StillEnds(f.t) /\ OnItsWay(f.t)'
      BY <2>2
    <2>4. Process.n = now
      BY DEF Process, Frame
    <2>5. \A g \in Members(todo') :
            g.op \in Removing /\ (g.op = "process" => g.n >= entry[f.t].end)
      BY <1>1, <1>4, <2>2, <2>4 DEF Leaving, Removing, RemoveOps
    <2> QED BY <2>2, <2>3, <2>5 DEF Leaving, StillEnds
  <1> QED BY <1>3, <1>5 DEF RemovalInv

LEMMA StaysOnItsWay ==
    ASSUME NEW t, OnItsWay(t), entry'[t] = entry[t],
           t \in Members(timer_list) => t \in Members(timer_list'),
           t \in Members(processed_timers) \cup Pending
             => t \in Members(processed_timers') \cup Pending',
           Top'.op \in {"calc", "process", "rearm"}
    PROVE  StillEnds(t) /\ OnItsWay(t)'
  BY DEF OnItsWay, StillEnds

LEMMA CalcNextActivationRemoval ==
    ASSUME Ready, RemovalInv, CalcNextActivation
    PROVE  RemovalInv'
  <1> DEFINE rearm == Frame("rearm", NoTimer, 0, processed_timers)
  <1>1. /\ TypeOK /\ todo # <<>> /\ Pending = {}
        /\ UNCHANGED <<now, dialog, entry, timer_list>>
        /\ Process \in Frames /\ Process.op = "process"
    BY ReadyParts, ProcessFrame
    DEF CalcNextActivation, In, Pending, clockVars
  <1>2. rearm \in Frames /\ rearm.op = "rearm" /\ rearm.rest = processed_timers
    BY <1>1, FrameType DEF TypeOK, Frame
  <1>3. \/ todo' = <<rearm>> \o Rest
        \/ todo' = <<Process>> \o Rest /\ UNCHANGED processed_timers
    BY DEF CalcNextActivation
  <1> HIDE DEF rearm
  <1>4. CASE todo' = <<rearm>> \o Rest
    <2>1. Top' = rearm /\ todo' # <<>>
      BY <1>1, <1>2, <1>4, ReplacedMembers DEF Top
    <2>2. Pending' = Members(processed_timers)
      BY <1>2, <2>1 DEF Pending, In
    <2>3. \A t : OnItsWay(t) => StillEnds(t) /\ OnItsWay(t)'
      BY <1>1, <1>2, <2>1, <2>2, StaysOnItsWay
    <2> QED BY <1>1, <1>2, <1>4, <2>3, RemovalGoesOn
            DEF GoesOn, Resumes, Leaving
  <1>5. CASE todo' = <<Process>> \o Rest /\ UNCHANGED processed_timers
    <2>1. Top' = Process
      BY <1>1, <1>5, ReplacedMembers DEF Top
    <2>2. \A t : OnItsWay(t) => StillEnds(t) /\ OnItsWay(t)'
      BY <1>1, <1>5, <2>1, StaysOnItsWay
    <2> QED BY <1>1, <1>5, <2>2, RemovalGoesOn DEF GoesOn, Resumes, Leaving
  <1> QED BY <1>3, <1>4, <1>5

\* A timer that waits, and whose end has passed, is retired at once.
LEMMA EndsAtOnce ==
    ASSUME entry \in [Timers -> Entries], NEW t \in Timers, NEW e,
           e.repeated = {}, ShouldSkip(e, now), NEW active,
           NEW processed \in Seq(Timers), NEW k, NEW noRecalc,
           AddTimerEntry(t, e, active, processed, k, noRecalc)
    PROVE  /\ t \in Members(processed_timers')
           /\ entry'[t] = [e EXCEPT !.state = StateEnded]
  <1>1. Retire(t, e, processed, k)
    BY DEF AddTimerEntry, ProcessRepeated, AlreadyPassed
  <1>2. PICK p \in 0..Len(processed) :
          processed_timers' = InsertAfter(processed, p, t)
    BY <1>1, InsertPointsType DEF Retire
  <1> QED BY <1>1, <1>2, InsertAfterMembers DEF Retire

LEMMA ReEvaluateRemoval ==
    ASSUME Ready, RemovalInv, ReEvaluate
    PROVE  RemovalInv'
  <1>1. /\ TypeOK /\ todo # <<>> /\ Top.op = "rearm" /\ UNCHANGED <<now, dialog>>
        /\ Process \in Frames /\ Process.op = "process"
        /\ entry \in [Timers -> Entries] /\ processed_timers \in Seq(Timers)
    BY ReadyParts, ProcessFrame DEF ReEvaluate, In, clockVars, TypeOK
  <1>2. CASE Top.rest = <<>>
    <2>1. /\ todo' = <<Process>> \o Rest /\ Pending = {}
          /\ UNCHANGED <<entry, timer_list, processed_timers>>
      BY <1>2, MembersEmpty DEF ReEvaluate, Pending
    <2>2. Top' = Process
      BY <1>1, <2>1, ReplacedMembers DEF Top
    <2>3. \A t : OnItsWay(t) => StillEnds(t) /\ OnItsWay(t)'
      BY <1>1, <2>1, <2>2, StaysOnItsWay
    <2> QED BY <1>1, <2>1, <2>3, RemovalGoesOn DEF GoesOn, Resumes, Leaving
  <1>3. CASE Top.rest # <<>>
    <2> DEFINE x == Head(Top.rest)
               f == [Top EXCEPT !.rest = Tail(@)]
    <2>1. /\ x \in Timers /\ f \in Frames /\ f.op = "rearm"
          /\ todo' = <<f>> \o Rest /\ Pending = {x} \cup Pending'
          /\ Members(timer_list) \subseteq Members(timer_list')
          /\ Members(processed_timers) \subseteq Members(processed_timers')
          /\ \A u \in Timers \ {x} : entry'[u] = entry[u]
      BY <1>3, ReEvaluateKeeps
    <2>2. AddTimerEntry(x, ResetState(entry[x]), timer_list,
                        processed_timers, <<f>> \o Rest, TRUE)
      BY <1>3 DEF ReEvaluate
    <2> HIDE DEF x, f
    <2>3. Top' = f
      BY <1>1, <2>1, ReplacedMembers DEF Top
    <2>4. ASSUME NEW t \in Timers \ {x}, OnItsWay(t)
          PROVE  StillEnds(t) /\ OnItsWay(t)'
      BY <2>1, <2>3, <2>4, StaysOnItsWay
    <2>5. ASSUME NEW t, t = x, Leaving(t)
          PROVE  StillEnds(t) /\ OnItsWay(t)'
      <3> DEFINE e == ResetState(entry[x])
                 ended == [e EXCEPT !.state = StateEnded]
      <3>1. /\ e.repeated = entry[x].repeated /\ e.end = entry[x].end
            /\ e.state = StateWaiting /\ ended.repeated = entry[x].repeated
            /\ ended.end = entry[x].end
            /\ ended.autoincrease = entry[x].autoincrease
        <4>1. entry[x] \in Entries
          BY <1>1, <2>1
        <4> QED BY <4>1 DEF ResetState, TimeChanged, Entries
      <3>2. e.repeated = {} /\ ShouldSkip(e, now)
        BY <2>5, <3>1 DEF Leaving, ShouldSkip
      <3> HIDE DEF e
      <3>3. x \in Members(processed_timers') /\ entry'[x] = ended
        BY <1>1, <2>1, <2>2, <3>2, EndsAtOnce DEF e
      <3> HIDE DEF ended
      <3> QED BY <2>5, <3>1, <3>3 DEF StillEnds, OnItsWay
    <2> QED BY <1>1, <2>1, <2>4, <2>5, RemovalGoesOn
            DEF GoesOn, Resumes, Leaving
  <1> QED BY <1>2, <1>3

LEMMA ActivationEnds ==
    ASSUME Ready, NEW t \in Timers, NEW k, DoActivate(t, k), t \in Known',
           entry[t].repeated = {}, ~entry[t].autoincrease, Ending(entry[t])
    PROVE  /\ StillEnds(t)
           /\ \/ t \in Members(processed_timers')
              \/ t \in Members(timer_list') /\ Ending(entry'[t])
  <1>1. /\ TypeOK /\ entry[t] \in Entries /\ entry \in [Timers -> Entries]
        /\ processed_timers \in Seq(Timers)
    BY ReadyParts DEF TypeOK
  <1>2. PICK x \in Entries :
          /\ Requeue(t, x, k) /\ x.repeated = {} /\ x.end = entry[t].end
          /\ x.autoincrease = entry[t].autoincrease
          /\ x.state \in {StateRunning, StateEnded}
    <2> DEFINE e == entry[t]
               stopped == Advance(e)
               freed == [stopped EXCEPT !.svc = FALSE]
    <2>1. e.state \in {StatePrepared, StateRunning} /\ e.state < StateEnded
      BY DEF Ending, StatePrepared, StateRunning, StateEnded
    <2>2. Requeue(t, stopped, k) \/ Requeue(t, freed, k)
      BY <2>1, StatesDiffer
      DEF DoActivate, Skip, Prepare, Start, Stop, Ending, ShouldSkip
    <2> HIDE DEF e
    <2>3. /\ stopped \in Entries /\ stopped.repeated = e.repeated
          /\ stopped.end = e.end /\ stopped.autoincrease = e.autoincrease
          /\ stopped.state \in {StateRunning, StateEnded}
      <3>1. e \in Entries /\ stopped \in Entries
        BY <1>1, <2>1, AdvanceType DEF e
      <3> QED BY <2>1, <3>1
              DEF Entries, Advance, StatePrepared, StateRunning, StateEnded
    <2> HIDE DEF stopped
    <2>4. /\ freed \in Entries /\ freed.repeated = e.repeated
          /\ freed.end = e.end /\ freed.autoincrease = e.autoincrease
          /\ freed.state = stopped.state
      BY <2>3 DEF Entries
    <2> HIDE DEF freed
    <2> QED BY <2>2, <2>3, <2>4 DEF e
  <1>3. CASE x.state = StateRunning
    <2>1. entry'[t] = x
      BY <1>1, <1>2, <1>3, RequeueKeeps DEF StateRunning, StateEnded
    <2> QED BY <1>2, <1>3, <2>1 DEF StillEnds, Ending, Known
  <1>4. CASE x.state = StateEnded
    <2>1. Retire(t, x, processed_timers, k)
      BY <1>2, <1>4 DEF Requeue, StateEnded
    <2>2. /\ t \in Members(processed_timers')
          /\ entry'[t] = [x EXCEPT !.state = StateEnded]
      <3>1. PICK p \in 0..Len(processed_timers) :
              processed_timers' = InsertAfter(processed_timers, p, t)
        BY <2>1, InsertPointsType DEF Retire
      <3> QED BY <1>1, <2>1, <3>1, InsertAfterMembers DEF Retire
    <2>3. /\ [x EXCEPT !.state = StateEnded].repeated = x.repeated
          /\ [x EXCEPT !.state = StateEnded].end = x.end
          /\ [x EXCEPT !.state = StateEnded].autoincrease = x.autoincrease
      BY DEF Entries
    <2> QED BY <1>2, <2>2, <2>3 DEF StillEnds
  <1> QED BY <1>2, <1>3, <1>4

LEMMA ProcessActivationRemoval ==
    ASSUME Ready, Ordered, RemovalInv, ProcessActivation
    PROVE  RemovalInv'
  <1> DEFINE h == Head(timer_list)
  <1>1. /\ TypeOK /\ todo # <<>> /\ Top.op = "process" /\ DoActivate(h, todo)
        /\ timer_list # <<>> /\ timer_list \in Seq(Timers) /\ ListsInv
        /\ todo \in Seq(Frames) /\ UNCHANGED <<now, dialog>> /\ Pending = {}
        /\ Calc \in Frames /\ Calc.op = "calc"
    BY ReadyParts, FrameType
    DEF TypeOK, ProcessActivation, DoActivate, clockVars, In, HeadDue, Pending,
        Calc, Frame
  <1>2. h \in Timers /\ h \in Members(timer_list)
    BY <1>1, MembersTail
  <1> HIDE DEF h
  <1>3. Moves(h, todo)
    BY <1>1, <1>2, OrderedNow, ActivationMoves DEF In
  <1>4. Top'.op \in {"process", "calc"}
    <2>1. todo' = todo \/ Head(todo') = Calc
      BY <1>1, <1>3, MembersPush DEF Moves, Resumes
    <2> QED BY <1>1, <2>1 DEF Top
  <1>5. ASSUME NEW t \in Timers, Leaving(t)
        PROVE  StillEnds(t) /\ OnItsWay(t)'
    <2>1. CASE t # h
      BY <1>1, <1>3, <1>4, <1>5, <2>1, StaysOnItsWay DEF Moves, Leaving
    <2>2. CASE t = h
      <3>1. Ending(entry[t])
        BY <1>1, <1>2, <1>5, <2>2, ReadyParts
        DEF Leaving, OnItsWay, ListsConsistent
      <3>2. t \in Known'
        BY <1>3, <2>2 DEF Moves, Known
      <3> QED BY <1>1, <1>4, <1>5, <2>2, <3>1, <3>2, ActivationEnds
              DEF Leaving, OnItsWay
    <2> QED BY <2>1, <2>2
  <1> QED BY <1>1, <1>3, <1>5, RemovalGoesOn DEF GoesOn, Moves

\* processActivation does not end before the timer has, and nothing that comes
\* later brings it back.
LEMMA EndedBefore ==
    ASSUME Ready, Ordered, BootIsLast, NEW t \in Timers, Leaving(t),
           todo # <<>>, Top.op \notin {"calc", "rearm", "process"}
             \/ SetNextActivation
    PROVE  t \in Members(processed_timers)
  <1>1. /\ TypeOK /\ entry[t] \in Entries /\ Top.op # "rearm"
        /\ Members(todo) = {Top} \cup Members(Rest)
    BY ReadyParts, RestMembers DEF SetNextActivation, In
  <1>2. SUFFICES ASSUME SetNextActivation, t \in Members(timer_list),
                        Ending(entry[t])
                 PROVE  FALSE
    BY <1>1 DEF Leaving, OnItsWay, Pending, In
  <1>3. /\ Top.n >= entry[t].end /\ Top.n \in Int /\ InOrder /\ ~HeadDue
    BY <1>1, <1>2, SetNextActivationOrdered, TopOfKind
    DEF Leaving, SetNextActivation, In, TypeOK
  <1>4. NextActivation(t) <= entry[t].end /\ entry[t].end \in Int
    BY <1>1, <1>2, StatesDiffer
    DEF Ending, NextActivation, GetNextActivation, Entries
  <1> QED BY <1>1, <1>2, <1>3, <1>4, HeadIsFirst DEF HeadDue

LEMMA ReturnRemoval ==
    ASSUME Ready, Ordered, BootIsLast, RemovalInv,
           SetNextActivation \/ Truncate \/ Write
    PROVE  RemovalInv'
  <1>1. /\ todo # <<>> /\ todo' = Rest
        /\ UNCHANGED <<now, dialog, entry, processed_timers>>
        /\ SetNextActivation \/ Top.op \in {"save", "write"}
    BY DEF SetNextActivation, Truncate, Write, In, clockVars
  <1>2. ASSUME NEW t \in Timers, Leaving(t)
        PROVE  StillEnds(t) /\ OnItsWay(t)'
    <2>1. t \in Members(processed_timers)
      BY <1>1, <1>2, EndedBefore
    <2> QED BY <1>1, <2>1 DEF StillEnds, OnItsWay
  <1> QED BY <1>1, <1>2, RemovalGoesOn DEF GoesOn, Resumes

LEMMA ExtendRecordingsRemoval ==
    ASSUME Ready, Ordered, BootIsLast, RemovalInv, ExtendRecordings
    PROVE  RemovalInv'
  <1>1. /\ TypeOK /\ ListTypes /\ ListsConsistent /\ todo # <<>>
        /\ Top.op = "extend" /\ Retimes /\ UNCHANGED <<now, dialog>>
        /\ \A u : SortedBut(entry, timer_list, {u})
    BY ReadyParts, TypeParts, ExtendRecordingsRetimes, OrderedNow
    DEF ExtendRecordings, In, clockVars
  <1>2. PICK k :
          /\ GoesOn(k)
          /\ \/ \E x \in Timers : Retimed(x, k) /\ x \in Members(timer_list)
             \/ todo' = k /\ UNCHANGED <<entry, timer_list, processed_timers>>
    BY <1>1 DEF Retimes, GoesOn
  <1>3. \/ \E x \in Timers : Moves(x, k) /\ x \in Members(timer_list)
        \/ todo' = k /\ UNCHANGED <<entry, timer_list, processed_timers>>
    BY <1>1, <1>2, TimerTimeChangedMoves DEF Retimed, SameService
  <1>4. Resumes(k)
    BY <1>3 DEF Moves, Resumes
  <1>5. ASSUME NEW t \in Timers, Leaving(t)
        PROVE  StillEnds(t) /\ OnItsWay(t)'
    <2>1. t \in Members(processed_timers) /\ t \notin Members(timer_list)
      BY <1>1, <1>5, EndedBefore DEF ListsConsistent
    <2>2. t \in Members(processed_timers') /\ entry'[t] = entry[t]
      BY <1>3, <2>1 DEF Moves
    <2> QED BY <2>2 DEF StillEnds, OnItsWay
  <1> QED BY <1>1, <1>2, <1>4, <1>5, RemovalGoesOn

LEMMA HandlerRemoval ==
    ASSUME Ready, StageInv, Ordered, BootIsLast, RemovalInv, Unedited, Handler
    PROVE  RemovalInv'
  <1>1. CASE \A f \in Members(todo') : f.op # "remove"
    BY <1>1 DEF RemovalInv, RemovalLast, Members
  <1>2. CASE \E f \in Members(todo') : f.op = "remove"
    <2>1. PICK f \in Members(todo') : f.op = "remove"
      BY <1>2
    <2>2. f \in Members(todo) /\ todo # <<>>
      BY <2>1, HandlerBegins, MembersEmpty DEF Begun, Unedited
    <2>3. Top.op \in Removing
      BY <2>1, <2>2, RestMembers, ReadyParts DEF RemovalInv, Leaving
    <2>4. ~RemoveProcessed /\ ~Fatal
      <3>1. \A g \in Members(<<BootFrame>>) : g.op # "remove"
        BY BootFrameType, SingletonMembers
      <3>2. Top.op = "remove" => todo' # Rest
        BY <2>1, <2>2, RemovalRest, ReadyParts DEF RemovalInv
      <3> QED BY <2>1, <3>1, <3>2 DEF RemoveProcessed, Fatal, In
    <2>5. \/ CalcNextActivation \/ ReEvaluate \/ ProcessActivation
          \/ SetNextActivation \/ Truncate \/ Write \/ ExtendRecordings
      BY <2>3, <2>4
      DEF Handler, Boot, LoadTimer, AddRecord, LimitRecording, CheckEdited,
          ActivateChosen, RetimeChosen, In, Removing, RemoveOps
    <2> QED BY <2>5, CalcNextActivationRemoval, ReEvaluateRemoval,
               ProcessActivationRemoval, ReturnRemoval,
               ExtendRecordingsRemoval
  <1> QED BY <1>1, <1>2

\* removeEntry ends the timer at once, or leaves it due for the calculation
\* that is the first call to come.
LEMMA RemoveEntryLeaves ==
    ASSUME Ready, NEW t \in Timers, RemoveEntry(t)
    PROVE  /\ entry'[t].repeated = {} /\ ~entry'[t].autoincrease
           /\ entry'[t].end <= now /\ OnItsWay(t)'
  <1> DEFINE e == Abort(Withdraw(entry[t]), now)
             changed == TimeChanged(e)
             ended == [changed EXCEPT !.state = StateEnded]
  <1>1. PICK k : /\ RemoveCalls(t, k)
                 /\ \/ e.state # StateEnded /\ TimerTimeChanged(t, e, k)
                    \/ /\ e.state = StateEnded /\ UNCHANGED processed_timers
                       /\ entry' = [entry EXCEPT ![t] = e]
    BY ReadyParts, RemoveEntryCalls
  <1>2. /\ e \in Entries /\ e.state = entry[t].state /\ t \in Known
        /\ entry \in [Timers -> Entries] /\ ListsConsistent /\ now \in Int
        /\ processed_timers \in Seq(Timers) /\ timer_list \in Seq(Timers)
    BY RemoveEntryCalls, ReadyParts DEF TypeOK
  <1>3. /\ e.repeated = {} /\ ~e.autoincrease /\ e.end = now
        /\ e.cancelled /\ e.begin <= now
    <2>1. entry[t] \in Entries
      BY <1>2
    <2> QED BY <1>2, <2>1 DEF Abort, Withdraw, Entries
  <1> HIDE DEF e
  <1>4. /\ changed.repeated = {} /\ ~changed.autoincrease /\ changed.end = now
        /\ changed.cancelled /\ changed.begin <= now
        /\ changed.state = e.state /\ ended.repeated = {}
        /\ ~ended.autoincrease /\ ended.end = now
    BY <1>2, <1>3 DEF TimeChanged, Entries
  <1> HIDE DEF changed, ended
  <1>5. CASE e.state = StateEnded
    <2>1. t \in Members(processed_timers) /\ entry'[t] = e
      BY <1>1, <1>2, <1>5 DEF Known, ListsConsistent
    <2> QED BY <1>1, <1>2, <1>3, <1>5, <2>1 DEF OnItsWay
  <1>6. CASE e.state # StateEnded
    <2> DEFINE active == RemoveTimer(timer_list, t)
    <2>1. AddTimerEntry(t, changed, active, processed_timers, k, FALSE)
      BY <1>1, <1>6 DEF TimerTimeChanged, changed
    <2>2. CASE e.state = StateWaiting
      <3>1. ShouldSkip(changed, now)
        BY <1>2, <1>4, <2>2 DEF ShouldSkip
      <3>2. t \in Members(processed_timers') /\ entry'[t] = ended
        BY <1>2, <1>4, <2>1, <3>1, EndsAtOnce DEF ended
      <3> QED BY <1>2, <1>4, <3>2 DEF OnItsWay
    <2>3. CASE e.state # StateWaiting
      <3>1. Enqueue(t, changed, active, <<Calc>> \o k)
        BY <1>4, <1>6, <2>1, <2>3
        DEF AddTimerEntry, ProcessRepeated, AlreadyPassed, ShouldSkip, Recalc
      <3>2. active \in Seq(Timers)
        BY <1>2, RemoveTimerType
      <3>3. t \in Members(timer_list') /\ entry'[t] = changed
        <4>1. PICK p \in 0..Len(active) :
                timer_list' = InsertAfter(active, p, t)
          BY <3>1, InsertPointsType DEF Enqueue
        <4> QED BY <1>2, <3>1, <3>2, <4>1, InsertAfterMembers DEF Enqueue
      <3>4. Top'.op = "calc"
        <4>1. Calc \in Frames /\ Calc.op = "calc" /\ k \in Seq(Frames)
          BY <1>1, FrameType, RemoveCallsType DEF Calc, Frame
        <4> QED BY <3>1, <4>1, MembersPush DEF Enqueue, Top
      <3>5. Ending(changed)
        BY <1>2, <1>4, <1>6, <2>3, FourStates DEF Ending
      <3> QED BY <1>2, <1>4, <3>3, <3>4, <3>5 DEF OnItsWay
    <2> QED BY <2>2, <2>3
  <1> QED BY <1>5, <1>6

LEMMA RemoveEntryRemoval ==
    ASSUME Ready, Ordered, NEW t \in Timers, RemoveEntry(t)
    PROVE  RemovalInv'
  <1> DEFINE remove == Frame("remove", t, 0, <<>>)
             extend == Frame("extend", NoTimer, 1, <<>>)
             s == <<remove>> \o Save
  <1>1. PICK k : RemoveCalls(t, k) /\ Resumes(k)
    BY RemoveEntryCalls, ReadyParts, TypeParts, TimerTimeChangedLists
    DEF Resumes
  <1>2. UNCHANGED <<now, dialog>> /\ dialog = NoDialog
    BY DEF RemoveEntry, UserTurn, clockVars
  <1>3. /\ remove \in Frames /\ remove.op = "remove" /\ remove.t = t
        /\ extend \in Frames /\ extend.op = "extend"
        /\ Calc \in Frames /\ Calc.op = "calc"
    <2>1. 0 \in Int /\ 1 \in Nat \ {0}
      OBVIOUS
    <2>2. remove \in Frames /\ extend \in Frames
      BY <2>1, FrameType
    <2> QED BY <2>2, FrameType DEF Frame, Calc
  <1> HIDE DEF remove, extend
  <1>4. /\ s \in Seq(Frames) /\ Members(s) = {remove} \cup Members(Save)
        /\ RemovalLast(s)
    <2>1. /\ DOMAIN s = 1..3 /\ Len(s) = 3
          /\ s[2].op = "save" /\ s[3].op = "write"
      BY DEF Save, Frame
    <2> QED BY <1>3, <2>1, SaveMembers, PushType, MembersPush DEF RemovalLast
  <1> HIDE DEF s
  <1>5. /\ k \in Seq(Frames) /\ RemovalLast(k)
        /\ \A f \in Members(k) : f = remove \/ f.op \in RemoveOps \ {"remove"}
    <2>1. k = s \/ k = <<extend>> \o s
      BY <1>1 DEF RemoveCalls, remove, extend, s
    <2>2. \A f \in Members(s) : f = remove \/ f.op \in RemoveOps \ {"remove"}
      BY <1>4, SaveMembers DEF RemoveOps
    <2>3. CASE k = <<extend>> \o s
      <3>1. /\ k \in Seq(Frames) /\ RemovalLast(k)
            /\ Members(k) = {extend} \cup Members(s)
        BY <1>3, <1>4, <2>3, PushType, RemovalPush, MembersPush
      <3> QED BY <1>3, <2>2, <3>1 DEF RemoveOps
    <2> QED BY <1>4, <2>1, <2>2, <2>3
  <1>6. RemovalLast(todo')
    BY <1>1, <1>3, <1>5, RemovalPush DEF Resumes
  <1>7. \A f \in Members(todo') :
          f = remove \/ f.op \in Removing \ {"remove", "process"}
    BY <1>1, <1>5, ResumedMembers DEF Removing, RemoveOps
  <1>8. /\ entry'[t].repeated = {} /\ ~entry'[t].autoincrease
        /\ entry'[t].end <= now /\ OnItsWay(t)'
    BY RemoveEntryLeaves
  <1>9. Leaving(t)'
    BY <1>2, <1>3, <1>7, <1>8 DEF Leaving, Removing, RemoveOps
  <1>10. ASSUME NEW f \in Members(todo'), f.op = "remove"
         PROVE  Leaving(f.t)'
    <2>1. f.t = t
      BY <1>3, <1>7, <1>10
    <2> QED BY <1>9, <2>1
  <1> QED BY <1>6, <1>10 DEF RemovalInv

LEMMA NextRemoval ==
    ASSUME Ready, StageInv, Ordered, BootIsLast, RemovalInv, Unedited,
           [Next]_vars
    PROVE  RemovalInv'
  <1>1. CASE \A f \in Members(todo') : f.op # "remove"
    BY <1>1 DEF RemovalInv, RemovalLast, Members
  <1>2. CASE Handler \/ \E t \in Timers : RemoveEntry(t)
    BY <1>2, HandlerRemoval, RemoveEntryRemoval
  <1>3. CASE User /\ ~\E t \in Timers : RemoveEntry(t)
    BY <1>1, <1>3, UserBegins
  <1>4. CASE SetClock \/ Timeout \/ Crash
    <2>1. \/ todo' = <<>> \/ todo' = <<Calc>> \/ todo' = <<BootFrame>>
      BY <1>4 DEF SetClock, Timeout, Crash, Idle, listVars
    <2>2. \A f \in Members(todo') : f.op # "remove"
      BY <2>1, MembersEmpty, SingletonMembers
      DEF Calc, BootFrame, Frame
    <2> QED BY <1>1, <2>2
  <1>5. CASE Tick \/ UNCHANGED vars
    <2>1. /\ UNCHANGED <<entry, timer_list, processed_timers, todo, dialog>>
          /\ now \in Int /\ now' >= now /\ now' \in Int
      BY <1>5, ReadyParts DEF Tick, vars, listVars, clockVars, TypeOK
    <2>2. ASSUME NEW f \in Members(todo'), f.op = "remove"
          PROVE  Leaving(f.t)'
      <3>1. Leaving(f.t) /\ f \in Frames
        BY <2>1, <2>2, ReadyParts, MembersType DEF RemovalInv, TypeOK
      <3>2. entry[f.t].end \in Int
        BY <2>2, <3>1, ReadyParts DEF Frames, Entries
      <3>3. OnItsWay(f.t)'
        BY <2>1, <3>1 DEF Leaving, OnItsWay, Pending, In, Top
      <3> QED BY <2>1, <3>1, <3>2, <3>3 DEF Leaving
    <2> QED BY <2>1, <2>2 DEF RemovalInv
  <1> QED BY <1>2, <1>3, <1>4, <1>5 DEF Next

LEMMA InitRemoval == Init => RemovalInv /\ ScreensKnow
  BY MembersEmpty
  DEF Init, RemovalInv, RemovalLast, ScreensKnow, NoDialog

\* For any number of timers, whatever the user does but edit, and however the
\* calls nest: the timer removeEntry removes has ended in processed_timers when
\* it is looked for there ("now the timer should be in the processed_timers
\* list", RecordTimer.py:760), and a timer a dialog was about is still where
\* its answer looks for it.
THEOREM RemovedTimersAreFound ==
    Unedited => (Spec => []RemoveFindsEntry)
  <1> SUFFICES ASSUME Unedited PROVE Spec => []RemoveFindsEntry
    OBVIOUS
  <1>1. Init => RemovalInv /\ ScreensKnow
    BY InitRemoval
  <1>2. Ready /\ StageInv /\ Ordered /\ BootIsLast /\ RemovalInv
          /\ ScreensKnow /\ [Next]_vars => RemovalInv' /\ ScreensKnow'
    BY NextRemoval, NextScreens
  <1>3. TypeOK /\ TypeOK' /\ ListsInv /\ Served => Ready
    BY DEF Ready, Typed
  <1>4. TypeOK /\ StageInv /\ RemovalInv /\ ScreensKnow => RemoveFindsEntry
    <2> SUFFICES ASSUME TypeOK, StageInv, RemovalInv, ScreensKnow
                 PROVE  RemoveFindsEntry
      OBVIOUS
    <2>1. todo # <<>> => Top \in Members(todo)
      BY RestMembers
    <2>2. todo # <<>> /\ Top.op # "rearm" => Alive = Known
      BY DEF Alive, Pending, In
    <2>3. In("remove") => Top.t \in Members(processed_timers)
      BY <2>1 DEF RemovalInv, Leaving, OnItsWay, Pending, In
    <2> QED BY <2>1, <2>2, <2>3
            DEF RemoveFindsEntry, StageInv, ScreensKnow, In
  <1>5. Spec => [](TypeOK /\ ListsInv /\ Served /\ StageInv)
    BY ReadyHolds
  <1>6. Spec => [](Ordered /\ BootIsLast)
    BY OrderedHolds
  <1> QED BY <1>1, <1>2, <1>3, <1>4, <1>5, <1>6, PTL DEF Spec

-----------------------------------------------------------------------------
(***************************************************************************)
(*                    9. What a timer keeps                                *)
(*                                                                         *)
(* Activations, retries, steps of the clock and the loops over the         *)
(* recordings in a conflict move a timer to other days or to another end,  *)
(* nothing else: its days, its type and its time of day stay.  Entries are *)
(* replaced only where a timer is entered, edited or forgotten.            *)
(***************************************************************************)

\* Division by the length of a day.
LEMMA DivisionFacts ==
    ASSUME NEW a \in Int, NEW d \in Nat \ {0}
    PROVE  /\ a \div d \in Int /\ a % d \in Int
           /\ a = d * (a \div d) + (a % d)
           /\ 0 <= a % d /\ a % d < d
  OBVIOUS

LEMMA SmallMultiple ==
    ASSUME NEW d \in Nat \ {0}, NEW z \in Int, d * z < d, - d < d * z
    PROVE  z = 0
  <1>1. CASE z >= 1
    <2>1. d * z >= d
      BY <1>1, Z3
    <2> QED BY <2>1
  <1>2. CASE z <= -1
    <2>1. d * z <= -d
      BY <1>2, Z3
    <2> QED BY <2>1
  <1> QED BY <1>1, <1>2

LEMMA SameRemainder ==
    ASSUME NEW a \in Int, NEW k \in Int, NEW d \in Nat \ {0}
    PROVE  (a + k * d) % d = a % d
  <1> DEFINE b == a + k * d
             p == a \div d
             q == b \div d
             r == a % d
             s == b % d
             z == p + k - q
  <1>1. b \in Int
    OBVIOUS
  <1> HIDE DEF b
  <1>2. p \in Int /\ r \in Int /\ a = d * p + r /\ 0 <= r /\ r < d
    BY DivisionFacts
  <1>3. q \in Int /\ s \in Int /\ b = d * q + s /\ 0 <= s /\ s < d
    BY <1>1, DivisionFacts
  <1> HIDE DEF p, q, r, s
  <1>4. d * z = s - r
    <2>1. b = a + k * d
      BY DEF b
    <2>2. d * q + s = d * p + r + k * d
      BY <1>2, <1>3, <2>1
    <2>3. d * z = d * p + k * d - d * q
      BY <1>2, <1>3, Z3
    <2>4. d * q \in Int /\ d * p \in Int /\ k * d \in Int
      BY <1>2, <1>3
    <2> QED BY <1>2, <1>3, <2>2, <2>3, <2>4
  <1>5. z = 0
    <2>1. z \in Int
      BY <1>2, <1>3
    <2>2. s - r < d /\ -d < s - r
      BY <1>2, <1>3
    <2> HIDE DEF z
    <2> QED BY <1>4, <2>1, <2>2, SmallMultiple
  <1>6. s = r
    <2>1. d * z = 0
      BY <1>5
    <2> QED BY <1>2, <1>3, <1>4, <2>1
  <1> QED BY <1>6 DEF s, r, b

-----------------------------------------------------------------------------
(***************************************************************************)
(* One entry.                                                              *)
(***************************************************************************)

\* What every change of the timer's own makes of the entry e.
Kept(x, e) ==
    /\ x.repeated = e.repeated /\ x.justplay = e.justplay
    /\ x.dontSave = e.dontSave /\ (x.autoincrease => e.autoincrease)
    /\ TimeOfDay(x.begin) = TimeOfDay(e.begin)
    /\ e.repeated = {} => /\ x.begin = e.begin
                          /\ x.end = e.end \/ e.autoincrease \/ e.dontSave

LEMMA KeptReflexive == \A e : Kept(e, e)
  BY DEF Kept

LEMMA KeptTransitive ==
    ASSUME NEW x, NEW y, NEW e, Kept(x, y), Kept(y, e)
    PROVE  Kept(x, e)
  BY DEF Kept

\* The fields Kept is about are as they were.
LEMMA KeptSame ==
    ASSUME NEW x, NEW e, x.repeated = e.repeated, x.justplay = e.justplay,
           x.dontSave = e.dontSave, x.autoincrease = e.autoincrease,
           x.begin = e.begin, x.end = e.end
    PROVE  Kept(x, e)
  BY DEF Kept

LEMMA TimeChangedKept ==
    ASSUME NEW e \in Entries
    PROVE  Kept(TimeChanged(e), e)
  <1> DEFINE x == TimeChanged(e)
  <1>1. /\ x.repeated = e.repeated /\ x.justplay = e.justplay
        /\ x.dontSave = e.dontSave /\ x.autoincrease = e.autoincrease
        /\ x.begin = e.begin /\ x.end = e.end
    BY DEF TimeChanged, Entries
  <1> HIDE DEF x
  <1>2. Kept(x, e)
    BY <1>1, KeptSame
  <1> QED BY <1>2 DEF x

LEMMA StateKept ==
    ASSUME NEW e \in Entries, NEW state
    PROVE  Kept([e EXCEPT !.state = state], e)
  <1> DEFINE x == [e EXCEPT !.state = state]
  <1>1. /\ x.repeated = e.repeated /\ x.justplay = e.justplay
        /\ x.dontSave = e.dontSave /\ x.autoincrease = e.autoincrease
        /\ x.begin = e.begin /\ x.end = e.end
    BY DEF Entries
  <1> HIDE DEF x
  <1>2. Kept(x, e)
    BY <1>1, KeptSame
  <1> QED BY <1>2 DEF x

LEMMA DisabledKept ==
    ASSUME NEW e \in Entries, NEW disabled
    PROVE  Kept([e EXCEPT !.disabled = disabled], e)
  <1> DEFINE x == [e EXCEPT !.disabled = disabled]
  <1>1. /\ x.repeated = e.repeated /\ x.justplay = e.justplay
        /\ x.dontSave = e.dontSave /\ x.autoincrease = e.autoincrease
        /\ x.begin = e.begin /\ x.end = e.end
    BY DEF Entries
  <1> HIDE DEF x
  <1>2. Kept(x, e)
    BY <1>1, KeptSame
  <1> QED BY <1>2 DEF x

\* The end may change of a recording that has no fixed end, or is not saved.
LEMMA EndKept ==
    ASSUME NEW e \in Entries, NEW end, e.autoincrease \/ e.dontSave
    PROVE  Kept([e EXCEPT !.end = end], e)
  <1> DEFINE x == [e EXCEPT !.end = end]
  <1>1. /\ x.repeated = e.repeated /\ x.justplay = e.justplay
        /\ x.dontSave = e.dontSave /\ x.autoincrease = e.autoincrease
        /\ x.begin = e.begin
    BY DEF Entries
  <1> HIDE DEF x
  <1>2. Kept(x, e)
    BY <1>1 DEF Kept
  <1> QED BY <1>2 DEF x

LEMMA ResetStateKept ==
    ASSUME NEW e \in Entries
    PROVE  Kept(ResetState(e), e)
  <1> DEFINE x == ResetState(e)
  <1>1. /\ x.repeated = e.repeated /\ x.justplay = e.justplay
        /\ x.dontSave = e.dontSave /\ x.autoincrease = e.autoincrease
        /\ x.begin = e.begin /\ x.end = e.end
    BY DEF ResetState, TimeChanged, Entries
  <1> HIDE DEF x
  <1>2. Kept(x, e)
    BY <1>1, KeptSame
  <1> QED BY <1>2 DEF x

\* A repeated timer is moved by whole days; one that is not, not at all.
LEMMA ProcessRepeatedKept ==
    ASSUME NEW e \in Entries, NEW at, NEW findRunningEvent,
           NEW x \in ProcessRepeated(e, at, findRunningEvent)
    PROVE  Kept(x, e)
  <1>1. CASE e.repeated = {}
    BY <1>1, KeptReflexive DEF ProcessRepeated
  <1>2. CASE e.repeated # {}
    <2>1. PICK k \in 0..MaxDays :
            x = TimeChanged(
                  [e EXCEPT !.begin = e.begin + Days(k),
                            !.end = IF e.begin + Days(k) = e.end + Days(k)
                                    THEN e.end + Days(k) + 1
                                    ELSE e.end + Days(k)])
      BY <1>2 DEF ProcessRepeated
    <2>2. /\ x.repeated = e.repeated /\ x.justplay = e.justplay
          /\ x.dontSave = e.dontSave /\ x.autoincrease = e.autoincrease
          /\ x.begin = e.begin + Days(k)
      BY <2>1 DEF TimeChanged, Entries
    <2>3. TimeOfDay(x.begin) = TimeOfDay(e.begin)
      <3>1. e.begin \in Int /\ k \in Int /\ DayLength \in Nat \ {0}
        BY EntryAssumption DEF Entries
      <3>2. (e.begin + k * DayLength) % DayLength = e.begin % DayLength
        BY <3>1, SameRemainder
      <3> QED BY <2>2, <3>2 DEF TimeOfDay, Days
    <2> QED BY <1>2, <2>2, <2>3 DEF Kept
  <1> QED BY <1>1, <1>2

-----------------------------------------------------------------------------
(***************************************************************************)
(* The helpers that move a timer.                                          *)
(***************************************************************************)

\* The entry of t becomes one that keeps what e has; no other changes.
Renews(t, e) ==
    \E x \in Entries : Kept(x, e) /\ entry' = [entry EXCEPT ![t] = x]

LEMMA AddTimerEntryRenews ==
    ASSUME NEW t, NEW e \in Entries, NEW active, NEW processed, NEW k,
           NEW noRecalc, AddTimerEntry(t, e, active, processed, k, noRecalc)
    PROVE  Renews(t, e)
  <1>1. PICK x \in ProcessRepeated(e, now, TRUE) :
          \/ Retire(t, x, processed, k)
          \/ Enqueue(t, x, active, Recalc(k, noRecalc))
    BY DEF AddTimerEntry
  <1>2. x \in Entries /\ Kept(x, e)
    BY ProcessRepeatedType, ProcessRepeatedKept
  <1>3. CASE Retire(t, x, processed, k)
    <2> DEFINE ended == [x EXCEPT !.state = StateEnded]
    <2>1. ended \in Entries /\ Kept(ended, x)
      BY <1>2, StateType, StateKept
    <2>2. entry' = [entry EXCEPT ![t] = ended]
      BY <1>3 DEF Retire
    <2> HIDE DEF ended
    <2> QED BY <1>2, <2>1, <2>2, KeptTransitive DEF Renews
  <1>4. CASE Enqueue(t, x, active, Recalc(k, noRecalc))
    BY <1>2, <1>4 DEF Enqueue, Renews
  <1> QED BY <1>1, <1>3, <1>4

LEMMA TimerTimeChangedRenews ==
    ASSUME NEW t, NEW e \in Entries, NEW k, TimerTimeChanged(t, e, k)
    PROVE  Renews(t, e)
  <1> DEFINE changed == TimeChanged(e)
             waiting == [changed EXCEPT !.state = StateWaiting]
             restored == IF e.state = StateEnded THEN waiting ELSE changed
             active == IF e.state = StateEnded THEN timer_list
                       ELSE RemoveTimer(timer_list, t)
             processed == IF e.state = StateEnded
                          THEN RemoveTimer(processed_timers, t)
                          ELSE processed_timers
  <1>1. AddTimerEntry(t, restored, active, processed, k, FALSE)
    BY DEF TimerTimeChanged
  <1>2. changed \in Entries /\ Kept(changed, e)
    BY TimeChangedType, TimeChangedKept
  <1> HIDE DEF changed, active, processed
  <1>3. waiting \in Entries /\ Kept(waiting, changed)
    BY <1>2, StateType, StateKept
  <1> HIDE DEF waiting
  <1>4. restored \in Entries /\ Kept(restored, e)
    BY <1>2, <1>3, KeptTransitive
  <1> HIDE DEF restored
  <1>5. Renews(t, restored)
    BY <1>1, <1>4, AddTimerEntryRenews
  <1> QED BY <1>4, <1>5, KeptTransitive DEF Renews

LEMMA RequeueRenews ==
    ASSUME NEW t, NEW e \in Entries, NEW k, Requeue(t, e, k)
    PROVE  Renews(t, e)
  <1> DEFINE active == RemoveTimer(timer_list, t)
  <1>1. CASE e.state < StateEnded
    BY <1>1, KeptReflexive DEF Requeue, Enqueue, Renews
  <1>2. CASE ~(e.state < StateEnded) /\ e.repeated # {}
    <2>1. PICK x \in ProcessRepeated(e, now, TRUE) :
            AddTimerEntry(t, [x EXCEPT !.state = StateWaiting], active,
                          processed_timers, k, FALSE)
      BY <1>2 DEF Requeue
    <2> DEFINE next == [x EXCEPT !.state = StateWaiting]
    <2>2. x \in Entries /\ Kept(x, e)
      BY ProcessRepeatedType, ProcessRepeatedKept
    <2>3. next \in Entries /\ Kept(next, x)
      BY <2>2, StateType, StateKept
    <2> HIDE DEF next, active
    <2>4. Renews(t, next)
      BY <2>1, <2>3, AddTimerEntryRenews DEF next
    <2> QED BY <2>2, <2>3, <2>4, KeptTransitive DEF Renews
  <1>3. CASE ~(e.state < StateEnded) /\ e.repeated = {}
    <2> DEFINE ended == [e EXCEPT !.state = StateEnded]
    <2>1. ended \in Entries /\ Kept(ended, e)
      BY StateType, StateKept
    <2>2. entry' = [entry EXCEPT ![t] = ended]
      BY <1>3 DEF Requeue, Retire
    <2> HIDE DEF ended
    <2> QED BY <2>1, <2>2 DEF Renews
  <1> QED BY <1>1, <1>2, <1>3

\* A service is taken, given back or refused.
LEMMA ServiceKept ==
    ASSUME NEW e \in Entries, NEW svc \in BOOLEAN
    PROVE  [e EXCEPT !.svc = svc] \in Entries /\ Kept([e EXCEPT !.svc = svc], e)
  <1> DEFINE x == [e EXCEPT !.svc = svc]
  <1>1. /\ x \in Entries
        /\ x.repeated = e.repeated /\ x.justplay = e.justplay
        /\ x.dontSave = e.dontSave /\ x.autoincrease = e.autoincrease
        /\ x.begin = e.begin /\ x.end = e.end
    BY DEF Entries
  <1> HIDE DEF x
  <1>2. Kept(x, e)
    BY <1>1, KeptSame
  <1> QED BY <1>1, <1>2 DEF x

\* The delay and the time of the next try to prepare.
LEMMA RetryKept ==
    ASSUME NEW e \in Entries, NEW backoff \in Nat, NEW at \in Int
    PROVE  /\ [e EXCEPT !.backoff = backoff] \in Entries
           /\ Kept([e EXCEPT !.backoff = backoff], e)
           /\ [e EXCEPT !.start_prepare = at] \in Entries
           /\ Kept([e EXCEPT !.start_prepare = at], e)
  <1> DEFINE x == [e EXCEPT !.backoff = backoff]
             y == [e EXCEPT !.start_prepare = at]
  <1>1. /\ x \in Entries
        /\ x.repeated = e.repeated /\ x.justplay = e.justplay
        /\ x.dontSave = e.dontSave /\ x.autoincrease = e.autoincrease
        /\ x.begin = e.begin /\ x.end = e.end
    BY DEF Entries
  <1>2. /\ y \in Entries
        /\ y.repeated = e.repeated /\ y.justplay = e.justplay
        /\ y.dontSave = e.dontSave /\ y.autoincrease = e.autoincrease
        /\ y.begin = e.begin /\ y.end = e.end
    BY DEF Entries
  <1> HIDE DEF x, y
  <1>3. Kept(x, e) /\ Kept(y, e)
    BY <1>1, <1>2, KeptSame
  <1> QED BY <1>1, <1>2, <1>3 DEF x, y

LEMMA AdvanceKept ==
    ASSUME NEW e \in Entries, e.state < StateEnded
    PROVE  Advance(e) \in Entries /\ Kept(Advance(e), e)
  BY AdvanceType, StateKept DEF Advance

LEMMA SkipRenews ==
    ASSUME TypeOK, NEW t \in Timers, NEW k, Skip(t, k)
    PROVE  Renews(t, entry[t])
  <1> DEFINE ended == [entry[t] EXCEPT !.state = StateEnded]
  <1>1. ended \in Entries /\ Kept(ended, entry[t])
    BY TypeParts, StateType, StateKept
  <1>2. Requeue(t, ended, k)
    BY DEF Skip
  <1> HIDE DEF ended
  <1>3. Renews(t, ended)
    BY <1>1, <1>2, RequeueRenews
  <1> QED BY <1>1, <1>3, KeptTransitive DEF Renews

LEMMA PrepareRenews ==
    ASSUME TypeOK, NEW t \in Timers, NEW k, Prepare(t, k)
    PROVE  Renews(t, entry[t])
  <1> DEFINE e == entry[t]
             calm == [e EXCEPT !.backoff = 0]
             ready == Advance(calm)
             refused == DoBackoff(e)
             served == [ready EXCEPT !.svc = TRUE]
             none == [e EXCEPT !.svc = FALSE]
             given == [refused EXCEPT !.svc = FALSE]
             later == [given EXCEPT !.start_prepare = now + refused.backoff]
  <1>1. e \in Entries /\ e.state = StateWaiting /\ now \in Int
    BY TypeParts DEF Prepare, TypeOK
  <1>2. \E x \in {ready, served, none, later} : Requeue(t, x, k)
    <2>1. later = [refused EXCEPT !.svc = FALSE,
                                  !.start_prepare = now + refused.backoff]
      OBVIOUS
    <2> QED BY <2>1 DEF Prepare
  <1> HIDE DEF e
  <1>3. calm \in Entries /\ Kept(calm, e) /\ calm.state = StateWaiting
    BY <1>1, RetryKept DEF Entries
  <1> HIDE DEF calm
  <1>4. ready \in Entries /\ Kept(ready, e)
    <2>1. calm.state < StateEnded
      BY <1>3 DEF StateWaiting, StateEnded
    <2> QED BY <1>3, <2>1, AdvanceKept, KeptTransitive
  <1> HIDE DEF ready
  <1>5. served \in Entries /\ Kept(served, e)
    BY <1>4, ServiceKept, KeptTransitive
  <1>6. none \in Entries /\ Kept(none, e)
    BY <1>1, ServiceKept
  <1>7. refused \in Entries /\ Kept(refused, e)
    <2> DEFINE delay == IF e.backoff = 0 THEN BackoffFirst
                        ELSE IF 2 * e.backoff > BackoffMax THEN BackoffMax
                        ELSE 2 * e.backoff
    <2>1. refused = [e EXCEPT !.backoff = delay]
      BY DEF DoBackoff
    <2>2. delay \in Nat
      BY <1>1, EntryAssumption DEF Entries
    <2> HIDE DEF delay, refused
    <2> QED BY <1>1, <2>1, <2>2, RetryKept
  <1> HIDE DEF refused
  <1>8. given \in Entries /\ Kept(given, e)
    BY <1>7, ServiceKept, KeptTransitive
  <1> HIDE DEF given
  <1>9. later \in Entries /\ Kept(later, e)
    <2>1. now + refused.backoff \in Int
      BY <1>1, <1>7 DEF Entries
    <2> QED BY <1>8, <2>1, RetryKept, KeptTransitive
  <1> HIDE DEF served, none, later
  <1>10. PICK x \in Entries : Kept(x, e) /\ Requeue(t, x, k)
    BY <1>2, <1>4, <1>5, <1>6, <1>9
  <1>11. Renews(t, x)
    BY <1>10, RequeueRenews
  <1> QED BY <1>10, <1>11, KeptTransitive DEF Renews, e

LEMMA StartRenews ==
    ASSUME TypeOK, "start" \notin Faults, NEW t \in Timers, NEW k, Start(t, k)
    PROVE  Renews(t, entry[t])
  <1> DEFINE e == entry[t]
  <1>1. e \in Entries /\ e.state < StateEnded
    BY TypeParts DEF Start, StatePrepared, StateEnded
  <1>2. Requeue(t, Advance(e), k)
    BY DEF Start, Fault
  <1> HIDE DEF e
  <1>3. Advance(e) \in Entries /\ Kept(Advance(e), e)
    BY <1>1, AdvanceKept
  <1>4. Renews(t, Advance(e))
    BY <1>2, <1>3, RequeueRenews
  <1> QED BY <1>3, <1>4, KeptTransitive DEF Renews, e

LEMMA StopRenews ==
    ASSUME TypeOK, NEW t \in Timers, NEW k, Stop(t, k)
    PROVE  Renews(t, entry[t])
  <1> DEFINE e == entry[t]
             stopped == Advance(e)
             freed == [stopped EXCEPT !.svc = FALSE]
  <1>1. e \in Entries /\ e.state < StateEnded
    BY TypeParts DEF Stop, StateRunning, StateEnded
  <1>2. \/ Requeue(t, stopped, k) \/ Requeue(t, freed, k)
        \/ /\ e.autoincrease
           /\ \E end \in AutoEnds : Requeue(t, [e EXCEPT !.end = end], k)
    BY DEF Stop
  <1>3. AutoEnds \subseteq Int
    BY TypeParts, EndsType DEF TypeOK
  <1> HIDE DEF e
  <1>4. stopped \in Entries /\ Kept(stopped, e)
    BY <1>1, AdvanceKept
  <1> HIDE DEF stopped
  <1>5. freed \in Entries /\ Kept(freed, e)
    BY <1>4, ServiceKept, KeptTransitive
  <1> HIDE DEF freed
  <1>6. ASSUME e.autoincrease, NEW end \in AutoEnds
        PROVE  /\ [e EXCEPT !.end = end] \in Entries
               /\ Kept([e EXCEPT !.end = end], e)
    <2>1. [e EXCEPT !.end = end] \in Entries
      BY <1>1, <1>3 DEF Entries
    <2> QED BY <1>1, <1>6, <2>1, EndKept
  <1>7. PICK x \in Entries : Kept(x, e) /\ Requeue(t, x, k)
    BY <1>2, <1>4, <1>5, <1>6
  <1>8. Renews(t, x)
    BY <1>7, RequeueRenews
  <1> QED BY <1>7, <1>8, KeptTransitive DEF Renews, e

\* A start that is refused puts off the begin of the timer: left out.
LEMMA ActivationRenews ==
    ASSUME TypeOK, "start" \notin Faults, NEW t \in Timers, NEW k,
           DoActivate(t, k)
    PROVE  Renews(t, entry[t])
  BY SkipRenews, PrepareRenews, StartRenews, StopRenews DEF DoActivate

-----------------------------------------------------------------------------
(***************************************************************************)
(* How a call goes on.                                                     *)
(***************************************************************************)

AllKept == \A u \in Timers : Kept(entry'[u], entry[u])

LEMMA RenewsAllKept ==
    ASSUME TypeOK, NEW t \in Timers, NEW e, Kept(e, entry[t]), Renews(t, e)
    PROVE  AllKept
  <1>1. PICK x \in Entries : Kept(x, e) /\ entry' = [entry EXCEPT ![t] = x]
    BY DEF Renews
  <1>2. Kept(x, entry[t])
    BY <1>1, KeptTransitive
  <1>3. \A u \in Timers : entry'[u] = entry[u] \/ (u = t /\ entry'[u] = x)
    BY <1>1 DEF TypeOK
  <1> QED BY <1>2, <1>3, KeptReflexive DEF AllKept

LEMMA SameAllKept ==
    ASSUME UNCHANGED entry
    PROVE  AllKept
  BY KeptReflexive DEF AllKept

\* The calls that put a timer they were given back into the lists.
Answered == {"edited", "activate", "retime"}

\* The timers a call may bring into the lists, if they are not there.
Movable ==
    {u \in Timers : entry[u].autoincrease}
      \cup (IF todo # <<>> /\ Top.op \in Answered THEN {Top.t} ELSE {})

\* timers.xml and what it holds stay; the lists grow by movable timers.
Carries ==
    /\ AllKept /\ UNCHANGED file
    /\ Alive \subseteq Alive' /\ Alive' \subseteq Alive \cup Movable

\* The calls a call of the timer makes.
Nested == {"calc", "process", "rearm", "limit", "extend", "load"}

\* The call on top returns, is not done yet, or goes on as another one.
Onward(k) ==
    \/ k = Rest
    \/ k = todo /\ Top.op \in Nested
    \/ \E f \in Frames : f.op \in Nested \ {"rearm"} /\ k = <<f>> \o Rest

\* No call that saves, shuts down or boots, or adds or removes a timer.
Moving(op) == op \notin Alone \cup {"add", "remove"}

\* A call returns, or goes on, perhaps under a new calcNextActivation.
Resuming ==
    /\ todo # <<>> /\ Moving(Top.op)
    /\ \E k \in Seq(Frames) :
         /\ Resumes(k)
         /\ \/ Onward(k)
            \/ \E f \in Frames : f.op = "rearm" /\ k = <<f>> \o Rest

\* A list of conflicts may be shown, with a timer that is known.
Asks ==
    \/ UNCHANGED dialog
    \/ /\ Top.op = "edited" /\ dialog'.kind = "conflict"
       /\ dialog'.t \in Known \cup {Top.t}

GoesAhead == Resuming /\ Carries /\ Asks

LEMMA NotRearming ==
    ASSUME ~In("rearm")
    PROVE  Pending = {} /\ Alive = Known
  BY DEF Pending, Alive

LEMMA ResumesWithoutRearm ==
    ASSUME NEW k \in Seq(Frames), NoRearm(k), Resumes(k)
    PROVE  ~In("rearm")' /\ Pending' = {} /\ Alive' = Known'
  <1>1. NoRearm(todo')
    <2>1. CASE todo' = <<Calc>> \o k
      <3>1. Members(<<Calc>> \o k) = {Calc} \cup Members(k)
        BY FrameType, MembersPush
      <3> QED BY <2>1, <3>1 DEF NoRearm, Calc, Frame
    <2> QED BY <2>1 DEF Resumes
  <1>2. todo' \in Seq(Frames)
    BY FrameType, PushType DEF Resumes
  <1>3. ~In("rearm")'
    <2>1. todo' # <<>> => Head(todo') \in Members(todo')
      BY <1>2, MembersTail
    <2> QED BY <1>1, <2>1 DEF In, Top, NoRearm
  <1>4. Pending' = {}
    BY <1>3 DEF Pending
  <1> QED BY <1>3, <1>4 DEF Alive

\* Under the call on top nothing is re-evaluated.
LEMMA RestWithoutRearm ==
    ASSUME TypeOK, ListsInv, todo # <<>>
    PROVE  /\ Rest \in Seq(Frames) /\ NoRearm(Rest)
           /\ Top.op # "rearm" => NoRearm(todo)
           /\ \A f \in Frames : f.op # "rearm" => NoRearm(<<f>> \o Rest)
           /\ \A f \in Frames : <<f>> \o Rest \in Seq(Frames)
  <1>1. Rest \in Seq(Frames) /\ NoRearm(Rest)
    BY TopType DEF TypeOK, ListsInv, StackInOrder, Rest
  <1>2. Members(todo) = {Top} \cup Members(Rest)
    BY MembersTail DEF TypeOK, Top, Rest
  <1>3. ASSUME NEW f \in Frames
        PROVE  /\ Members(<<f>> \o Rest) = {f} \cup Members(Rest)
               /\ <<f>> \o Rest \in Seq(Frames)
    BY <1>1, MembersPush, PushType
  <1> QED BY <1>1, <1>2, <1>3 DEF NoRearm

\* A call of the timer changes no list, and returns or goes on.
LEMMA QuietGoes ==
    ASSUME TypeOK, ListsInv, todo # <<>>,
           Moving(Top.op), Top.op # "rearm", NEW k, Onward(k), todo' = k,
           UNCHANGED <<entry, timer_list, processed_timers, file>>, Asks
    PROVE  GoesAhead
  <1>1. AllKept
    BY SameAllKept
  <1>2. Alive' = Alive
    <2>1. Pending = {} /\ Alive = Known
      BY NotRearming DEF In
    <2>2. k \in Seq(Frames) /\ NoRearm(k) /\ Resumes(k)
      BY RestWithoutRearm DEF Resumes, Onward, TypeOK
    <2>3. Alive' = Known'
      BY <2>2, ResumesWithoutRearm
    <2> QED BY <2>1, <2>3 DEF Known
  <1>3. Resuming
    BY <1>2, RestWithoutRearm DEF Resuming, Resumes, Onward, TypeOK
  <1> QED BY <1>1, <1>2, <1>3 DEF GoesAhead, Carries

LEMMA CalcNextActivationGoes ==
    ASSUME Typed, ListsInv, CalcNextActivation
    PROVE  GoesAhead
  <1>1. /\ TypeOK /\ todo # <<>> /\ Top.op = "calc"
        /\ UNCHANGED <<entry, timer_list, file, dialog>>
    BY DEF Typed, CalcNextActivation, In
  <1>2. CASE ~(lastActivation > now)
    <2>1. Process \in Frames /\ Process.op = "process"
      BY <1>1, ProcessFrame
    <2>2. todo' = <<Process>> \o Rest /\ UNCHANGED processed_timers
      BY <1>2 DEF CalcNextActivation
    <2> DEFINE k == <<Process>> \o Rest
    <2>3. Onward(k) /\ Moving(Top.op) /\ Asks
      BY <1>1, <2>1 DEF Onward, Nested, Moving, Alone, Asks
    <2> HIDE DEF k
    <2> QED BY <1>1, <2>2, <2>3, QuietGoes DEF k
  <1>3. CASE lastActivation > now
    <2> DEFINE f == Frame("rearm", NoTimer, 0, processed_timers)
    <2>1. f \in Frames /\ f.op = "rearm" /\ f.rest = processed_timers
      BY <1>1, FrameType DEF TypeOK, Frame
    <2>2. todo' = <<f>> \o Rest /\ processed_timers' = <<>>
      BY <1>3 DEF CalcNextActivation
    <2> HIDE DEF f
    <2>3. Rest \in Seq(Frames)
      BY <1>1, RestWithoutRearm
    <2>4. todo' # <<>> /\ Head(todo') = f
      BY <2>1, <2>2, <2>3, MembersPush
    <2>5. Pending' = Members(processed_timers)
      BY <2>1, <2>4 DEF Pending, In, Top
    <2>6. Known' = Members(timer_list)
      BY <1>1, <2>2, MembersEmpty DEF Known
    <2>7. Alive' = Alive
      <3>1. Alive = Known
        BY <1>1, NotRearming DEF In
      <3> QED BY <2>5, <2>6, <3>1 DEF Alive, Known
    <2>8. <<f>> \o Rest \in Seq(Frames)
      BY <1>1, <2>1, RestWithoutRearm
    <2>9. Resuming
      BY <1>1, <2>1, <2>2, <2>8 DEF Resuming, Resumes, Moving, Onward,
          Alone, Nested
    <2> QED BY <1>1, <2>7, <2>9, SameAllKept DEF GoesAhead, Carries, Asks
  <1> QED BY <1>2, <1>3

LEMMA ReEvaluateGoes ==
    ASSUME Typed, ListsInv, ReEvaluate
    PROVE  GoesAhead
  <1>1. /\ TypeOK /\ TypeOK' /\ todo # <<>> /\ In("rearm") /\ Top.op = "rearm"
        /\ UNCHANGED <<file, dialog>> /\ ListsConsistent
    BY DEF Typed, ReEvaluate, In, ListsInv
  <1>2. /\ Top.rest \in Seq(Timers)
        /\ \A r \in Seq(Timers) : [Top EXCEPT !.rest = r] \in Frames
    BY <1>1, TopOfKind DEF TypeOK
  <1>3. /\ Rest \in Seq(Frames)
        /\ \A f \in Frames : <<f>> \o Rest \in Seq(Frames)
    BY <1>1, RestWithoutRearm
  <1>4. CASE Top.rest = <<>>
    <2>1. Process \in Frames /\ Process.op = "process"
      BY <1>1, ProcessFrame
    <2>2. /\ todo' = <<Process>> \o Rest
          /\ UNCHANGED <<entry, timer_list, processed_timers>>
      BY <1>4 DEF ReEvaluate
    <2>3. Alive' = Alive
      <3>1. Pending = {}
        BY <1>4, MembersEmpty DEF Pending
      <3>2. NoRearm(<<Process>> \o Rest) /\ <<Process>> \o Rest \in Seq(Frames)
        BY <1>1, <2>1, RestWithoutRearm
      <3>3. Alive' = Known'
        BY <2>2, <3>2, ResumesWithoutRearm DEF Resumes
      <3> QED BY <2>2, <3>1, <3>3 DEF Known, Alive
    <2>4. Resuming
      BY <1>1, <1>3, <2>1, <2>2 DEF Resuming, Resumes, Moving, Onward,
          Alone, Nested
    <2> QED BY <1>1, <2>2, <2>3, <2>4, SameAllKept DEF GoesAhead, Carries, Asks
  <1>5. CASE Top.rest # <<>>
    <2> DEFINE x == Head(Top.rest)
               f == [Top EXCEPT !.rest = Tail(Top.rest)]
               k == <<f>> \o Rest
    <2>1. /\ x \in Timers /\ Tail(Top.rest) \in Seq(Timers)
          /\ Members(Top.rest) = {x} \cup Members(Tail(Top.rest))
      BY <1>2, <1>5, MembersTail
    <2>2. Members(Top.rest) \cap Known = {}
      BY <1>1 DEF ListsInv
    <2>3. /\ ResetState(entry[x]) \in Entries
          /\ Kept(ResetState(entry[x]), entry[x])
      BY <1>1, <2>1, TypeParts, ResetStateType, ResetStateKept
    <2>4. AddTimerEntry(x, ResetState(entry[x]), timer_list, processed_timers,
                        k, TRUE)
      BY <1>5 DEF ReEvaluate
    <2>5. f \in Frames /\ f.op = "rearm" /\ f.rest = Tail(Top.rest)
      <3>1. Top \in Frames
        BY <1>1, TopType DEF TypeOK
      <3>2. f \in Frames
        BY <1>2, <2>1
      <3> QED BY <1>1, <3>1, <3>2 DEF Frames
    <2> HIDE DEF f, x
    <2>6. AllKept
      BY <1>1, <2>1, <2>3, <2>4, AddTimerEntryRenews, RenewsAllKept
    <2>7. Known' = Known \cup {x} /\ todo' = k
      <3>1. Split(entry, timer_list, processed_timers)
        BY <1>1, SplitLists
      <3>2. x \notin Members(timer_list) /\ x \notin Members(processed_timers)
        BY <2>1, <2>2 DEF Known
      <3>3. /\ Known' = Members(timer_list) \cup Members(processed_timers)
                          \cup {x}
            /\ todo' = k
        BY <1>1, <2>1, <2>3, <2>4, <3>1, <3>2, AddTimerEntryLists DEF TypeOK
      <3> QED BY <3>3 DEF Known
    <2>8. todo' # <<>> /\ Head(todo') = f
      BY <1>3, <2>5, <2>7, MembersPush
    <2>9. Pending' = Members(Tail(Top.rest))
      BY <2>5, <2>8 DEF Pending, In, Top
    <2>10. Alive' = Alive
      BY <1>1, <2>1, <2>7, <2>9 DEF Alive, Pending
    <2>11. Resuming
      BY <1>1, <1>3, <2>5, <2>7 DEF Resuming, Resumes, Moving, Onward,
          Alone, Nested
    <2> QED BY <1>1, <2>6, <2>10, <2>11 DEF GoesAhead, Carries, Asks
  <1> QED BY <1>4, <1>5

\* One timer is moved; it is known, or may be brought in.
LEMMA RenewsGoes ==
    ASSUME TypeOK, ListsInv, todo # <<>>,
           Moving(Top.op), Top.op # "rearm",
           NEW t \in Timers, NEW e, Kept(e, entry[t]), Renews(t, e),
           NEW k, Onward(k), Resumes(k), Known' = Known \cup {t},
           t \in Known \cup Movable,
           UNCHANGED file, Asks
    PROVE  GoesAhead
  <1>1. AllKept
    BY RenewsAllKept
  <1>2. k \in Seq(Frames) /\ NoRearm(k)
    BY RestWithoutRearm DEF Onward, TypeOK
  <1>3. Alive = Known /\ Alive' = Known'
    BY <1>2, NotRearming, ResumesWithoutRearm DEF In
  <1>4. Resuming
    BY <1>2 DEF Resuming
  <1> QED BY <1>1, <1>3, <1>4 DEF GoesAhead, Carries

LEMMA TimeChangeGoes ==
    ASSUME TypeOK, ListsInv, todo # <<>>,
           Moving(Top.op), Top.op # "rearm",
           NEW t \in Timers, NEW e \in Entries, e.state = entry[t].state,
           Kept(e, entry[t]),
           NEW k, Onward(k),
           TimerTimeChanged(t, e, k), t \in Known \cup Movable,
           UNCHANGED file, Asks
    PROVE  GoesAhead
  <1>1. Renews(t, e)
    BY TimerTimeChangedRenews
  <1>2. Known' = Known \cup {t} /\ Resumes(k)
    BY TypeParts, TimerTimeChangedLists DEF ListsInv
  <1> QED BY <1>1, <1>2, RenewsGoes

LEMMA ActivationGoes ==
    ASSUME TypeOK, ListsInv, "start" \notin Faults, todo # <<>>,
           Moving(Top.op), Top.op # "rearm",
           NEW t \in Timers, NEW k, Onward(k),
           DoActivate(t, k), t \in Known \cup Movable
    PROVE  GoesAhead
  <1>1. Renews(t, entry[t])
    BY ActivationRenews
  <1>2. Known' = Known \cup {t} /\ Resumes(k)
    <2>1. /\ entry[t].state # StateEnded
          /\ \E x \in Entries : Requeue(t, x, k)
      BY ActivationRequeues
    <2> QED BY <2>1, TypeParts, RequeueLists DEF ListsInv
  <1>3. UNCHANGED file /\ Asks
    BY DEF DoActivate, Asks
  <1> QED BY <1>1, <1>2, <1>3, KeptReflexive, RenewsGoes

LEMMA ProcessActivationGoes ==
    ASSUME Typed, ListsInv, "start" \notin Faults, ProcessActivation
    PROVE  GoesAhead
  <1> DEFINE t == Head(timer_list)
  <1>1. /\ TypeOK /\ todo # <<>> /\ Top.op = "process" /\ DoActivate(t, todo)
        /\ timer_list # <<>> /\ timer_list \in Seq(Timers)
    BY DEF Typed, TypeOK, ProcessActivation, In, HeadDue
  <1>2. t \in Timers /\ t \in Known
    <2>1. Members(timer_list) = {t} \cup Members(Tail(timer_list))
      BY <1>1, MembersTail
    <2>2. Members(timer_list) \subseteq Timers
      BY <1>1, MembersType
    <2> QED BY <2>1, <2>2 DEF Known
  <1>3. Moving(Top.op) /\ Top.op # "rearm" /\ Onward(todo)
    BY <1>1 DEF Moving, Alone, Onward, Nested
  <1> HIDE DEF t
  <1> QED BY <1>1, <1>2, <1>3, ActivationGoes

LEMMA SetNextActivationGoes ==
    ASSUME Typed, ListsInv, SetNextActivation
    PROVE  GoesAhead
  <1>1. /\ TypeOK /\ todo # <<>> /\ todo' = Rest
        /\ UNCHANGED <<entry, timer_list, processed_timers, file, dialog>>
    BY DEF Typed, SetNextActivation, In
  <1>2. Moving(Top.op) /\ Top.op # "rearm" /\ Onward(Rest) /\ Asks
    BY <1>1 DEF SetNextActivation, In, Moving, Alone, Onward, Asks
  <1> QED BY <1>1, <1>2, QuietGoes

\* The timer an answer is about is movable.
LEMMA TopMovable ==
    ASSUME TypeOK, todo # <<>>, Top.op \in Answered
    PROVE  Top.t \in Timers /\ Top.t \in Movable
  BY TopOfKind DEF TypeOK, Movable, Answered

LEMMA ActivateChosenGoes ==
    ASSUME Typed, ListsInv, "start" \notin Faults, ActivateChosen
    PROVE  GoesAhead
  <1> DEFINE t == Top.t
             k == Rest
  <1>1. /\ TypeOK /\ todo # <<>> /\ Top.op = "activate"
        /\ DoActivate(t, k)
    BY DEF Typed, ActivateChosen, In
  <1>2. t \in Timers /\ t \in Known \cup Movable
    BY <1>1, TopMovable DEF Answered
  <1> HIDE DEF t
  <1>3. Moving(Top.op) /\ Top.op # "rearm" /\ Onward(Rest)
    BY <1>1 DEF Moving, Alone, Onward
  <1> QED BY <1>1, <1>2, <1>3, ActivationGoes

LEMMA RetimeChosenGoes ==
    ASSUME Typed, ListsInv, RetimeChosen
    PROVE  GoesAhead
  <1> DEFINE e == entry[Top.t]
             disabled == [e EXCEPT !.disabled = TRUE]
  <1>1. /\ TypeOK /\ todo # <<>> /\ Top.op = "retime" /\ UNCHANGED file
        /\ Asks
    BY DEF Typed, RetimeChosen, In, Asks
  <1>2. Top.t \in Timers /\ Top.t \in Movable /\ e \in Entries
    BY <1>1, TopMovable, TypeParts DEF Answered
  <1>3. \/ TimerTimeChanged(Top.t, e, Rest)
        \/ TimerTimeChanged(Top.t, disabled, Rest)
    BY DEF RetimeChosen
  <1> HIDE DEF e
  <1>4. /\ disabled \in Entries /\ disabled.state = e.state
        /\ Kept(disabled, e)
    BY <1>2, DisabledService, DisabledKept DEF SameService
  <1> HIDE DEF disabled
  <1>5. \E x \in Entries : /\ x.state = e.state /\ Kept(x, e)
                           /\ TimerTimeChanged(Top.t, x, Rest)
    BY <1>2, <1>3, <1>4, KeptReflexive
  <1>6. Moving(Top.op) /\ Top.op # "rearm" /\ Onward(Rest)
    BY <1>1 DEF Moving, Alone, Onward
  <1> QED BY <1>1, <1>2, <1>5, <1>6, TimeChangeGoes DEF e

LEMMA CheckEditedGoes ==
    ASSUME Typed, ListsInv, CheckEdited
    PROVE  GoesAhead
  <1>1. /\ TypeOK /\ todo # <<>> /\ Top.op = "edited" /\ UNCHANGED file
    BY DEF Typed, CheckEdited, In
  <1>2. /\ Top.t \in Timers /\ Top.t \in Movable
        /\ entry[Top.t] \in Entries
    BY <1>1, TopMovable, TypeParts DEF Answered
  <1>3. CASE /\ TimerTimeChanged(Top.t, entry[Top.t], Rest)
             /\ UNCHANGED dialog
    <2>1. Asks /\ Kept(entry[Top.t], entry[Top.t])
      BY <1>3, KeptReflexive DEF Asks
    <2>2. Moving(Top.op) /\ Top.op # "rearm" /\ Onward(Rest)
      BY <1>1 DEF Moving, Alone, Onward
    <2> QED BY <1>1, <1>2, <1>3, <2>1, <2>2, TimeChangeGoes
  <1>4. CASE /\ \E u \in FirstInConflict(Top.t) : dialog' = Open("conflict", u)
             /\ todo' = Rest
             /\ UNCHANGED <<entry, timer_list, processed_timers>>
    <2>1. FirstInConflict(Top.t) \subseteq Known \cup {Top.t}
      BY DEF FirstInConflict, Known
    <2>2. Asks
      BY <1>1, <1>4, <2>1 DEF Asks, Open
    <2>3. Moving(Top.op) /\ Top.op # "rearm" /\ Onward(Rest)
      BY <1>1 DEF Moving, Alone, Onward
    <2> QED BY <1>1, <1>4, <2>2, <2>3, QuietGoes
  <1> QED BY <1>3, <1>4 DEF CheckEdited

LEMMA LimitRecordingGoes ==
    ASSUME Typed, ListsInv, LimitRecording
    PROVE  GoesAhead
  <1> DEFINE x == Head(Top.rest)
             others == Tail(Top.rest)
             next == [Top EXCEPT !.rest = others]
             k == IF others = <<>> THEN Rest ELSE <<next>> \o Rest
  <1>1. /\ TypeOK /\ todo # <<>> /\ Top.op = "limit" /\ UNCHANGED file /\ Asks
    BY DEF Typed, LimitRecording, In, Asks
  <1>2. /\ Top.rest \in Seq(Timers) \ {<<>>} /\ Top.n \in Int
        /\ \A r \in Seq(Timers) \ {<<>>} : [Top EXCEPT !.rest = r] \in Frames
    BY <1>1, TopOfKind DEF TypeOK
  <1>3. x \in Timers /\ entry[x] \in Entries /\ others \in Seq(Timers)
    BY <1>1, <1>2, MembersTail, TypeParts
  <1>4. PICK end \in {Top.n - Lead} \cup ConflictEnds :
          \/ /\ entry[x].autoincrease
             /\ TimerTimeChanged(x, [entry[x] EXCEPT !.end = end], k)
          \/ todo' = k /\ UNCHANGED <<entry, timer_list, processed_timers>>
    BY DEF LimitRecording
  <1>5. end \in Int
    <2>1. ConflictEnds \subseteq Int
      BY <1>1, EndsType, TypeParts DEF TypeOK
    <2>2. Top.n - Lead \in Int
      BY <1>2, TimerAssumption
    <2> QED BY <2>1, <2>2
  <1>6. k = Rest \/ \E f \in Frames : f.op = "limit" /\ k = <<f>> \o Rest
    <2>1. others # <<>> => next \in Frames
      BY <1>2, <1>3
    <2>2. Top \in Frames
      BY <1>1, TopType DEF TypeOK
    <2>3. next.op = Top.op
      BY <2>2 DEF Frames
    <2> HIDE DEF next
    <2> QED BY <1>1, <2>1, <2>3
  <1> HIDE DEF x, k
  <1>7. Moving(Top.op) /\ Top.op # "rearm" /\ Onward(k)
    BY <1>1, <1>6 DEF Moving, Alone, Onward, Nested
  <1>8. CASE todo' = k /\ UNCHANGED <<entry, timer_list, processed_timers>>
    BY <1>1, <1>7, <1>8, QuietGoes
  <1>9. CASE /\ entry[x].autoincrease
             /\ TimerTimeChanged(x, [entry[x] EXCEPT !.end = end], k)
    <2> DEFINE e == [entry[x] EXCEPT !.end = end]
    <2>1. e \in Entries /\ e.state = entry[x].state
      BY <1>3, <1>5 DEF Entries
    <2>2. Kept(e, entry[x])
      BY <1>3, <1>9, EndKept
    <2>3. x \in Movable
      BY <1>3, <1>9 DEF Movable
    <2>4. TimerTimeChanged(x, e, k)
      BY <1>9
    <2> HIDE DEF e
    <2> QED BY <1>1, <1>3, <1>7, <2>1, <2>2, <2>3, <2>4, TimeChangeGoes
  <1> QED BY <1>4, <1>8, <1>9

LEMMA ExtendRecordingsGoes ==
    ASSUME Typed, ListsInv, ExtendRecordings
    PROVE  GoesAhead
  <1> DEFINE next == [Top EXCEPT !.n = Top.n + 1]
             k == <<next>> \o Rest
             x == timer_list[Top.n]
  <1>1. /\ TypeOK /\ todo # <<>> /\ Top.op = "extend" /\ UNCHANGED file
        /\ Asks /\ timer_list \in Seq(Timers)
    BY DEF Typed, ExtendRecordings, In, Asks, TypeOK
  <1>2. Top.n \in Nat \ {0} /\ next \in Frames /\ Top \in Frames
    BY <1>1, TopOfKind, TopType DEF TypeOK
  <1>3. next.op = "extend"
    BY <1>1, <1>2 DEF Frames
  <1> HIDE DEF next
  <1>4. Moving(Top.op) /\ Top.op # "rearm" /\ Onward(Rest) /\ Onward(k)
    BY <1>1, <1>2, <1>3 DEF Moving, Alone, Onward, Nested
  <1> HIDE DEF k
  <1>5. \/ /\ todo' = Rest \/ todo' = k
           /\ UNCHANGED <<entry, timer_list, processed_timers>>
        \/ /\ Top.n <= Len(timer_list) /\ entry[x].autoincrease
           /\ \E end \in AutoEnds :
                TimerTimeChanged(x, [entry[x] EXCEPT !.end = end], k)
    BY DEF ExtendRecordings, k, next
  <1>6. CASE /\ todo' = Rest \/ todo' = k
             /\ UNCHANGED <<entry, timer_list, processed_timers>>
    BY <1>1, <1>4, <1>6, QuietGoes
  <1>7. CASE /\ Top.n <= Len(timer_list) /\ entry[x].autoincrease
             /\ \E end \in AutoEnds :
                  TimerTimeChanged(x, [entry[x] EXCEPT !.end = end], k)
    <2>1. PICK end \in AutoEnds :
            TimerTimeChanged(x, [entry[x] EXCEPT !.end = end], k)
      BY <1>7
    <2>2. end \in Int
      BY <1>1, EndsType, TypeParts DEF TypeOK
    <2>3. x \in Timers /\ entry[x] \in Entries
      BY <1>1, <1>2, <1>7, SeqFacts, TypeParts
    <2> DEFINE e == [entry[x] EXCEPT !.end = end]
    <2> HIDE DEF x
    <2>4. e \in Entries /\ e.state = entry[x].state
      BY <2>2, <2>3 DEF Entries
    <2>5. Kept(e, entry[x])
      BY <1>7, <2>3, EndKept
    <2>6. x \in Movable
      BY <1>7, <2>3 DEF Movable
    <2>7. TimerTimeChanged(x, e, k)
      BY <2>1
    <2> HIDE DEF e
    <2> QED BY <1>1, <1>4, <2>3, <2>4, <2>5, <2>6, <2>7, TimeChangeGoes
  <1> QED BY <1>5, <1>6, <1>7

-----------------------------------------------------------------------------
(***************************************************************************)
(* The time of day.                                                        *)
(***************************************************************************)

GoesDown == \E f \in Members(todo) : f.op = "boot"

\* The new timers a call is about to put into the lists.
Entered(stack) == {f.t : f \in {g \in Members(stack) : g.op = "add"}}

\* Unless the box goes down, an entry with days is that of a timer the program
\* still refers to: no other entry, when it is used again, had a time of day.
Claimed ==
    \/ GoesDown
    \/ \A t \in Timers :
         entry[t].repeated # {} => t \in Alive \cup Entered(todo)

\* The repeated timers are at the time of day they were at.
Daily ==
    \A t \in Timers :
      \/ entry[t].repeated = {} \/ entry'[t].repeated = {}
      \/ TimeOfDay(entry'[t].begin) = TimeOfDay(entry[t].begin)

Claims == BootIsLast' /\ Claimed' /\ Daily

LEMMA AllKeptDaily ==
    ASSUME AllKept
    PROVE  Daily /\ \A t \in Timers : entry'[t].repeated = entry[t].repeated
  BY DEF AllKept, Kept, Daily

LEMMA StackMembers ==
    ASSUME TypeOK, todo # <<>>
    PROVE  /\ Rest \in Seq(Frames) /\ Top \in Frames
           /\ Members(todo) = {Top} \cup Members(Rest)
  <1>1. todo \in Seq(Frames)
    BY DEF TypeOK
  <1> QED BY <1>1, MembersTail, TopType DEF Top, Rest

LEMMA CalcCall == Calc \in Frames /\ Calc.op = "calc"
  BY FrameType DEF Calc, Frame

\* A call that goes on leaves the calls below it, and adds calls of the timer.
LEMMA ResumingCalls ==
    ASSUME TypeOK, Resuming
    PROVE  /\ Members(todo) = {Top} \cup Members(Rest)
           /\ Members(Rest) \subseteq Members(todo')
           /\ \A f \in Members(todo') : f \in Members(todo) \/ f.op \in Nested
  <1>1. PICK k \in Seq(Frames) :
          /\ Resumes(k)
          /\ \/ k = Rest \/ k = todo
             \/ \E f \in Frames : f.op \in Nested /\ k = <<f>> \o Rest
    BY DEF Resuming, Onward, Nested
  <1>2. /\ Rest \in Seq(Frames)
        /\ Members(todo) = {Top} \cup Members(Rest)
    BY StackMembers DEF Resuming
  <1>3. ASSUME NEW f \in Frames
        PROVE  Members(<<f>> \o Rest) = {f} \cup Members(Rest)
    BY <1>2, MembersPush
  <1>4. /\ Members(Rest) \subseteq Members(k)
        /\ \A f \in Members(k) : f \in Members(todo) \/ f.op \in Nested
    BY <1>1, <1>2, <1>3
  <1>5. todo' = k \/ Members(todo') = {Calc} \cup Members(k)
    <2>1. Members(<<Calc>> \o k) = {Calc} \cup Members(k)
      BY CalcCall, MembersPush
    <2> QED BY <1>1, <2>1 DEF Resumes
  <1>6. Calc.op \in Nested
    BY CalcCall DEF Nested
  <1> QED BY <1>2, <1>4, <1>5, <1>6

\* No call on top of which the box goes down.
LEMMA StaysUp ==
    ASSUME TypeOK, BootIsLast, todo # <<>>, Top.op \notin Alone
    PROVE  ~GoesDown
  <1>1. Top \in Members(todo)
    BY StackMembers
  <1> QED BY <1>1 DEF BootIsLast, GoesDown

LEMMA GoesClaims ==
    ASSUME TypeOK, BootIsLast, Claimed, GoesAhead
    PROVE  Claims
  <1>1. /\ todo # <<>> /\ Top.op \notin Alone /\ Top.op # "add"
        /\ Alive \subseteq Alive' /\ AllKept /\ Resuming
    BY DEF GoesAhead, Carries, Resuming, Moving
  <1>2. ~GoesDown
    BY <1>1, StaysUp
  <1>3. \A f \in Members(todo') : f.op # "boot"
    BY <1>1, <1>2, ResumingCalls DEF GoesDown, Nested
  <1>4. Entered(todo) \subseteq Entered(todo')
    BY <1>1, ResumingCalls DEF Entered
  <1>5. Daily /\ \A t \in Timers : entry'[t].repeated = entry[t].repeated
    BY <1>1, AllKeptDaily
  <1>6. Claimed'
    BY <1>1, <1>2, <1>4, <1>5 DEF Claimed
  <1> QED BY <1>3, <1>5, <1>6 DEF Claims, BootIsLast

\* The box goes down.
LEMMA BootsClaims ==
    ASSUME Boots, Daily
    PROVE  Claims
  <1>1. Members(todo') = {BootFrame} /\ BootFrame.op = "boot"
    BY SingletonMembers DEF Boots, BootFrame, Frame
  <1> QED BY <1>1 DEF Claims, BootIsLast, Claimed, GoesDown, Alone

LEMMA BlankDays == Blank.repeated = {}
  BY DEF Blank, NewEntry, ResetState, TimeChanged

LEMMA BootClaims ==
    ASSUME TypeOK, Boot
    PROVE  Claims
  <1>1. \A t \in Timers : entry'[t].repeated = {}
    BY BlankDays DEF Boot
  <1>2. \A f \in Members(todo') : f.op # "boot"
    <2>1. \/ todo' = <<>>
          \/ todo' = <<Frame("load", NoTimer, 1, <<>>)>>
      BY DEF Boot
    <2>2. Frame("load", NoTimer, 1, <<>>).op = "load"
      BY DEF Frame
    <2> QED BY <2>1, <2>2, SingletonMembers, MembersEmpty
  <1> QED BY <1>1, <1>2 DEF Claims, BootIsLast, Claimed, Daily

LEMMA SameDaily ==
    ASSUME UNCHANGED entry
    PROVE  Daily
  BY DEF Daily

\* saveTimer.
LEMMA FileClaims ==
    ASSUME TypeOK, ListsInv, BootIsLast, Claimed, Truncate \/ Write
    PROVE  Claims
  <1>1. /\ todo # <<>> /\ Top.op \in {"save", "write"} /\ todo' = Rest
        /\ UNCHANGED <<entry, timer_list, processed_timers>>
    BY DEF Truncate, Write, In
  <1>2. Members(todo) = {Top} \cup Members(Rest)
    BY <1>1, StackMembers
  <1>3. Entered(todo') = Entered(todo) /\ (GoesDown' <=> GoesDown)
    BY <1>1, <1>2 DEF Entered, GoesDown
  <1>4. Alive' = Alive
    <2>1. Rest \in Seq(Frames) /\ NoRearm(Rest) /\ Resumes(Rest)
      BY <1>1, RestWithoutRearm DEF Resumes
    <2>2. Alive = Known /\ Alive' = Known'
      BY <1>1, <2>1, NotRearming, ResumesWithoutRearm DEF In
    <2> QED BY <1>1, <2>2 DEF Known
  <1>5. Claimed'
    BY <1>1, <1>3, <1>4 DEF Claimed
  <1>6. BootIsLast'
    BY <1>1, <1>2 DEF BootIsLast
  <1> QED BY <1>1, <1>5, <1>6, SameDaily DEF Claims

\* The call on top is about a new timer, and the only one that is.
LEMMA OnlyArrival ==
    ASSUME TypeOK, ListsInv, todo # <<>>, Top.op \in Arrivals
    PROVE  Entered(todo) = IF Top.op = "add" THEN {Top.t} ELSE {}
  <1>1. \A g \in Members(Rest) : Plain(g)
    BY RestFits
  <1>2. Members(todo) = {Top} \cup Members(Rest)
    BY StackMembers
  <1>3. \A g \in Members(todo) : g.op = "add" <=> g = Top /\ Top.op = "add"
    BY <1>1, <1>2 DEF Plain
  <1> QED BY <1>2, <1>3 DEF Entered

\* A timer no list knew is put into one.
LEMMA ArrivesClaims ==
    ASSUME TypeOK, ListsInv, BootIsLast, Claimed, todo # <<>>,
           Top.op \in Arrivals, NEW t \in Timers \ Known, NEW e,
           Renews(t, e), Top.op = "add" => t = Top.t /\ Kept(e, entry[t]),
           Known' = Known \cup {t}, NEW k \in Seq(Frames), NoRearm(k),
           \A f \in Members(k) : f.op # "boot", Resumes(k)
    PROVE  Claims
  <1>1. ~GoesDown /\ Alive = Known
    BY StaysUp, NotRearming DEF Arrivals, Alone, In
  <1>2. Entered(todo) = IF Top.op = "add" THEN {Top.t} ELSE {}
    BY OnlyArrival
  <1>3. Alive' = Known \cup {t}
    BY ResumesWithoutRearm
  <1>4. PICK x \in Entries : Kept(x, e) /\ entry' = [entry EXCEPT ![t] = x]
    BY DEF Renews
  <1>5. \A u \in Timers : entry'[u] = IF u = t THEN x ELSE entry[u]
    BY <1>4 DEF TypeOK
  <1>6. Top.op = "load" => entry[t].repeated = {}
    BY <1>1, <1>2 DEF Claimed
  <1>7. Daily
    <2>1. CASE Top.op = "load"
      BY <1>5, <1>6, <2>1 DEF Daily
    <2>2. CASE Top.op = "add"
      <3>1. Kept(x, entry[t])
        BY <1>4, <2>2, KeptTransitive
      <3> QED BY <1>5, <3>1 DEF Daily, Kept
    <2> QED BY <2>1, <2>2 DEF Arrivals
  <1>8. \A f \in Members(todo') : f.op # "boot"
    <2>1. Members(<<Calc>> \o k) = {Calc} \cup Members(k)
      BY CalcCall, MembersPush
    <2> QED BY <2>1, CalcCall DEF Resumes
  <1>9. Claimed'
    <2>1. \A u \in Timers : entry'[u].repeated # {} => u \in Alive'
      BY <1>1, <1>2, <1>3, <1>5 DEF Claimed
    <2> QED BY <2>1 DEF Claimed
  <1> QED BY <1>7, <1>8, <1>9 DEF Claims, BootIsLast

\* The calls below an arrival bring in no timer, and re-evaluate none.
LEMMA BelowArrival ==
    ASSUME TypeOK, ListsInv, BootIsLast, todo # <<>>, Top.op \in Arrivals
    PROVE  /\ Rest \in Seq(Frames) /\ NoRearm(Rest) /\ ~GoesDown
           /\ \A f \in Members(Rest) : f.op # "boot" /\ f.op # "add"
  <1>1. \A g \in Members(Rest) : Plain(g)
    BY RestFits
  <1>2. /\ Rest \in Seq(Frames)
        /\ Members(todo) = {Top} \cup Members(Rest)
    BY StackMembers
  <1>3. ~GoesDown
    BY StaysUp DEF Arrivals, Alone
  <1> QED BY <1>1, <1>2, <1>3 DEF Plain, NoRearm, GoesDown

LEMMA LoadTimerArrives ==
    ASSUME Typed, ListsInv, LoadTimer
    PROVE  /\ todo # <<>> /\ Top.op = "load" /\ UNCHANGED <<dialog, file>>
           /\ \/ GoesAhead
              \/ \E t \in Timers \ Known, f \in Frames, i \in DOMAIN file.timers :
                   LET s == file.timers[i]
                       e == NewEntry(s.begin, s.end, s.repeated, s.disabled,
                                     s.justplay)
                   IN  /\ s \in SavedTimer /\ t = s.t /\ f.op = "load"
                       /\ Renews(t, e) /\ Known' = Known \cup {t}
                       /\ Resumes(<<f>> \o Rest)
  <1> DEFINE f == [Top EXCEPT !.n = Top.n + 1]
             next == <<f>> \o Rest
             s == file.timers[Top.n]
             e == NewEntry(s.begin, s.end, s.repeated, s.disabled, s.justplay)
  <1>1. /\ TypeOK /\ todo # <<>> /\ Top.op = "load"
        /\ UNCHANGED <<dialog, file>> /\ file.timers \in Seq(SavedTimer)
    BY DEF Typed, LoadTimer, In, TypeOK
  <1>2. Top.n \in Nat \ {0} /\ f \in Frames /\ f.op = "load"
    <2>1. Top \in Frames
      BY <1>1, StackMembers
    <2>2. Top.n \in Nat \ {0} /\ f \in Frames
      BY <1>1, TopOfKind DEF TypeOK
    <2>3. f.op = Top.op
      BY <2>1 DEF Frames
    <2> QED BY <1>1, <2>2, <2>3
  <1>3. \/ /\ todo' = Rest \/ todo' = next
           /\ UNCHANGED <<entry, timer_list, processed_timers>>
        \/ /\ Top.n <= Len(file.timers)
           /\ AddTimerEntry(s.t, TimeChanged(e), timer_list, processed_timers,
                            next, FALSE)
    BY DEF LoadTimer
  <1> HIDE DEF f
  <1>4. Moving(Top.op) /\ Top.op # "rearm" /\ Onward(Rest) /\ Onward(next)
    BY <1>1, <1>2 DEF Moving, Alone, Onward, Nested
  <1>5. CASE /\ todo' = Rest \/ todo' = next
             /\ UNCHANGED <<entry, timer_list, processed_timers>>
    <2>1. Asks
      BY <1>1 DEF Asks
    <2> HIDE DEF next
    <2> QED BY <1>1, <1>4, <1>5, <2>1, QuietGoes
  <1>6. CASE /\ Top.n <= Len(file.timers)
             /\ AddTimerEntry(s.t, TimeChanged(e), timer_list,
                              processed_timers, next, FALSE)
    <2>1. /\ s.t \in Timers \ Known /\ s \in SavedTimer
          /\ Top.n \in DOMAIN file.timers
      BY <1>1, <1>2, <1>6, LoadedUnknown, SeqFacts
    <2>2. e \in Entries
      BY <2>1, NewEntryType DEF SavedTimer
    <2> DEFINE x == TimeChanged(e)
               t == s.t
    <2> HIDE DEF e, next
    <2>3. x \in Entries /\ Kept(x, e)
      BY <2>2, TimeChangedType, TimeChangedKept
    <2>4. AddTimerEntry(t, x, timer_list, processed_timers, next, FALSE)
      BY <1>6
    <2>5. t \in Timers \ Known
      BY <2>1
    <2> HIDE DEF x, s, t
    <2>6. Renews(t, e)
      <3>1. Renews(t, x)
        BY <2>3, <2>4, AddTimerEntryRenews
      <3> QED BY <2>3, <3>1, KeptTransitive DEF Renews
    <2>7. Known' = Known \cup {t} /\ Resumes(next)
      <3>1. /\ Split(entry, timer_list, processed_timers)
            /\ t \notin Members(timer_list)
            /\ t \notin Members(processed_timers)
        BY <2>5, SplitLists DEF ListsInv, Known
      <3>2. /\ Known' = Members(timer_list) \cup Members(processed_timers)
                          \cup {t}
            /\ todo' = next \/ (todo' = <<Calc>> \o next /\ ~FALSE)
        BY <1>1, <2>5, <2>3, <2>4, <3>1, AddTimerEntryLists DEF TypeOK
      <3> QED BY <3>2 DEF Known, Resumes
    <2> QED BY <1>1, <1>2, <2>1, <2>6, <2>7 DEF s, e, t, next
  <1> QED BY <1>1, <1>3, <1>5, <1>6

LEMMA LoadTimerClaims ==
    ASSUME Typed, ListsInv, BootIsLast, Claimed, LoadTimer
    PROVE  Claims
  <1>1. /\ TypeOK /\ todo # <<>> /\ Top.op = "load" /\ Top.op \in Arrivals
    BY LoadTimerArrives DEF Typed, Arrivals
  <1>2. CASE GoesAhead
    BY <1>1, <1>2, GoesClaims
  <1>3. ASSUME NEW t \in Timers \ Known, NEW f \in Frames, f.op = "load", NEW e,
               Renews(t, e), Known' = Known \cup {t}, Resumes(<<f>> \o Rest)
        PROVE  Claims
    <2> DEFINE k == <<f>> \o Rest
    <2>1. /\ Rest \in Seq(Frames) /\ NoRearm(Rest)
          /\ \A g \in Members(Rest) : g.op # "boot"
      BY <1>1, BelowArrival
    <2>2. k \in Seq(Frames) /\ Members(k) = {f} \cup Members(Rest)
      BY <2>1, MembersPush, PushType
    <2>3. NoRearm(k) /\ \A g \in Members(k) : g.op # "boot"
      BY <1>3, <2>1, <2>2 DEF NoRearm
    <2>4. Resumes(k)
      BY <1>3
    <2> HIDE DEF k
    <2> QED BY <1>1, <1>3, <2>2, <2>3, <2>4, ArrivesClaims
  <1> QED BY <1>2, <1>3, LoadTimerArrives

\* What RecordTimer.record does with a new timer.
LEMMA AddRecordArrives ==
    ASSUME Typed, ListsInv, "retry" \notin UserOps, AddRecord
    PROVE  /\ todo # <<>> /\ Top.op = "add" /\ Top.t \in Timers \ Known
           /\ UNCHANGED <<dialog, file>>
           /\ \/ /\ Renews(Top.t, entry[Top.t]) /\ Known' = Known \cup {Top.t}
                 /\ Resumes(Save \o Rest)
              \/ /\ entry' = [entry EXCEPT ![Top.t] = Blank]
                 /\ todo' = Rest
                 /\ UNCHANGED <<timer_list, processed_timers>>
  <1> DEFINE t == Top.t
             k == Save \o Rest
             e == TimeChanged(entry[t])
  <1>1. /\ TypeOK /\ todo # <<>> /\ Top.op = "add" /\ UNCHANGED file
    BY DEF Typed, AddRecord, In
  <1>2. t \in Timers \ Known /\ entry[t] \in Entries
    BY <1>1, AddedUnknown, TypeParts
  <1>3. /\ UNCHANGED dialog
        /\ \/ AddTimerEntry(t, e, timer_list, processed_timers, k, FALSE)
           \/ Drop(t)
    BY DEF AddRecord
  <1> HIDE DEF t, k
  <1>4. e \in Entries /\ Kept(e, entry[t])
    BY <1>2, TimeChangedType, TimeChangedKept
  <1> HIDE DEF e
  <1>5. CASE AddTimerEntry(t, e, timer_list, processed_timers, k, FALSE)
    <2>1. Renews(t, entry[t])
      <3>1. Renews(t, e)
        BY <1>4, <1>5, AddTimerEntryRenews
      <3> QED BY <1>4, <3>1, KeptTransitive DEF Renews
    <2>2. Known' = Known \cup {t} /\ Resumes(k)
      <3>1. /\ Split(entry, timer_list, processed_timers)
            /\ t \notin Members(timer_list)
            /\ t \notin Members(processed_timers)
        BY <1>2, SplitLists DEF ListsInv, Known
      <3>2. /\ Known' = Members(timer_list) \cup Members(processed_timers)
                          \cup {t}
            /\ todo' = k \/ (todo' = <<Calc>> \o k /\ ~FALSE)
        BY <1>1, <1>2, <1>4, <1>5, <3>1, AddTimerEntryLists DEF TypeOK
      <3> QED BY <3>2 DEF Known, Resumes
    <2> QED BY <1>1, <1>2, <1>3, <2>1, <2>2 DEF t, k
  <1>6. CASE Drop(t)
    BY <1>1, <1>2, <1>3, <1>6 DEF Drop, t
  <1> QED BY <1>3, <1>5, <1>6

LEMMA SavePushed ==
    ASSUME NEW k \in Seq(Frames)
    PROVE  /\ Save \o k \in Seq(Frames)
           /\ Members(Save \o k) = Members(Save) \cup Members(k)
  <1>1. Save \in Seq(Frames)
    BY FrameType
  <1> QED BY <1>1, ConcatenationMembers

LEMMA AddRecordClaims ==
    ASSUME Typed, ListsInv, BootIsLast, Claimed, "retry" \notin UserOps,
           AddRecord
    PROVE  Claims
  <1> DEFINE t == Top.t
             k == Save \o Rest
  <1>1. /\ TypeOK /\ todo # <<>> /\ Top.op = "add" /\ Top.op \in Arrivals
        /\ t \in Timers \ Known
    BY AddRecordArrives DEF Typed, Arrivals
  <1>2. /\ Rest \in Seq(Frames) /\ NoRearm(Rest) /\ ~GoesDown
        /\ \A f \in Members(Rest) : f.op # "boot"
    BY <1>1, BelowArrival
  <1>3. CASE /\ Renews(t, entry[t]) /\ Known' = Known \cup {t} /\ Resumes(k)
    <2>1. /\ k \in Seq(Frames) /\ NoRearm(k)
          /\ \A f \in Members(k) : f.op # "boot"
      BY <1>2, SavePushed, SaveMembers DEF NoRearm
    <2>2. t = Top.t
      OBVIOUS
    <2> HIDE DEF k, t
    <2> QED BY <1>1, <1>3, <2>1, <2>2, KeptReflexive, ArrivesClaims
  <1>4. CASE /\ entry' = [entry EXCEPT ![t] = Blank] /\ todo' = Rest
             /\ UNCHANGED <<timer_list, processed_timers>>
    <2>1. \A u \in Timers : entry'[u] = IF u = t THEN Blank ELSE entry[u]
      BY <1>1, <1>4 DEF TypeOK
    <2>2. Entered(todo) = {t}
      BY <1>1, OnlyArrival
    <2>3. Alive = Known
      BY <1>1, NotRearming DEF In
    <2>4. Alive' = Known
      BY <1>2, <1>4, ResumesWithoutRearm DEF Resumes, Known
    <2> HIDE DEF t
    <2>5. Claimed'
      <3>1. \A u \in Timers : entry'[u].repeated # {} => u \in Alive'
        BY <1>2, <2>1, <2>2, <2>3, <2>4, BlankDays DEF Claimed
      <3> QED BY <3>1 DEF Claimed
    <2>6. Daily
      BY <2>1, BlankDays DEF Daily
    <2> QED BY <1>2, <1>4, <2>5, <2>6 DEF Claims, BootIsLast
  <1> QED BY <1>3, <1>4, AddRecordArrives

LEMMA RemoveProcessedClaims ==
    ASSUME Typed, ListsInv, BootIsLast, Claimed, RemoveProcessed
    PROVE  Claims
  <1> DEFINE t == Top.t
  <1>1. /\ TypeOK /\ todo # <<>> /\ Top.op = "remove"
        /\ processed_timers \in Seq(Timers) /\ NoDuplicates(processed_timers)
    BY DEF Typed, RemoveProcessed, In, TypeOK, ListsInv, ListsConsistent
  <1>2. /\ Rest \in Seq(Frames) /\ NoRearm(Rest)
        /\ Members(todo) = {Top} \cup Members(Rest)
    BY <1>1, RestWithoutRearm, StackMembers
  <1>3. ~GoesDown
    BY <1>1, StaysUp DEF Alone
  <1>4. CASE todo' = <<BootFrame>> /\ UNCHANGED entry
    BY <1>4, SameDaily, BootsClaims DEF Boots
  <1>5. CASE /\ processed_timers' = RemoveTimer(processed_timers, t)
             /\ entry' = [entry EXCEPT ![t] = Blank] /\ todo' = Rest
             /\ UNCHANGED timer_list
    <2>1. \A u \in Timers : entry'[u] = IF u = t THEN Blank ELSE entry[u]
      BY <1>1, <1>5 DEF TypeOK
    <2>2. Alive = Known
      BY <1>1, NotRearming DEF In
    <2>3. Alive' = Known'
      BY <1>2, <1>5, ResumesWithoutRearm DEF Resumes
    <2>4. Known \ {t} \subseteq Known'
      <3>1. Members(processed_timers') = Members(processed_timers) \ {t}
        BY <1>1, <1>5, RemoveTimerMembers
      <3> QED BY <1>5, <3>1 DEF Known
    <2>5. Entered(todo') = Entered(todo)
      BY <1>1, <1>2, <1>5 DEF Entered
    <2> HIDE DEF t
    <2>6. Claimed'
      <3>1. \A u \in Timers :
              entry'[u].repeated # {} => u \in Alive' \cup Entered(todo')
        BY <1>3, <2>1, <2>2, <2>3, <2>4, <2>5, BlankDays DEF Claimed
      <3> QED BY <3>1 DEF Claimed
    <2>7. Daily
      BY <2>1, BlankDays DEF Daily
    <2> QED BY <1>2, <1>3, <1>5, <2>6, <2>7 DEF Claims, BootIsLast, GoesDown
  <1> QED BY <1>4, <1>5 DEF RemoveProcessed

\* The calls of the timer that go on as they do for every property here.
LEMMA HandlerGoes ==
    ASSUME Typed, ListsInv, "start" \notin Faults, Handler
    PROVE  \/ GoesAhead \/ Fatal \/ Truncate \/ Write \/ Boot \/ LoadTimer
           \/ AddRecord \/ RemoveProcessed
  BY CalcNextActivationGoes, ReEvaluateGoes, ProcessActivationGoes,
     SetNextActivationGoes, LimitRecordingGoes, ExtendRecordingsGoes,
     CheckEditedGoes, ActivateChosenGoes, RetimeChosenGoes DEF Handler

LEMMA HandlerClaims ==
    ASSUME Typed, ListsInv, BootIsLast, Claimed, "start" \notin Faults,
           "retry" \notin UserOps, Handler
    PROVE  Claims
  <1>1. TypeOK
    BY DEF Typed
  <1>2. ASSUME Fatal PROVE Claims
    BY <1>2, SameDaily, BootsClaims DEF Fatal, Boots
  <1> QED BY <1>1, <1>2, HandlerGoes, GoesClaims, FileClaims, BootClaims,
             LoadTimerClaims, AddRecordClaims, RemoveProcessedClaims

-----------------------------------------------------------------------------
(***************************************************************************)
(* What the user does.                                                     *)
(***************************************************************************)

LEMMA IdleClaims ==
    ASSUME Idle, Claimed
    PROVE  /\ ~GoesDown /\ Entered(todo) = {} /\ Alive = Known
           /\ \A t \in Timers : entry[t].repeated # {} => t \in Known
  <1>1. Members(todo) = {}
    BY MembersEmpty DEF Idle
  <1>2. Alive = Known
    BY NotRearming DEF In, Idle
  <1> QED BY <1>1, <1>2 DEF GoesDown, Entered, Claimed

\* The calls the user makes.
Unbooted(stack) == \A f \in Members(stack) : f.op \notin {"boot", "rearm"}

\* A key leaves calls, none of which boots; what has days is still known.
LEMMA KeyClaimed ==
    ASSUME TypeOK', Unbooted(todo'),
           \A t \in Timers :
             entry'[t].repeated # {} => t \in Known' \cup Entered(todo')
    PROVE  BootIsLast' /\ Claimed'
  <1>1. Alive' = Known'
    <2>1. todo' \in Seq(Frames)
      BY DEF TypeOK
    <2>2. NoRearm(todo') /\ Resumes(todo')
      BY DEF NoRearm, Unbooted, Resumes
    <2> QED BY <2>1, <2>2, ResumesWithoutRearm
  <1> QED BY <1>1 DEF Claimed, BootIsLast, Unbooted

LEMMA KeyClaims ==
    ASSUME TypeOK', Unbooted(todo'), Daily,
           \A t \in Timers :
             entry'[t].repeated # {} => t \in Known' \cup Entered(todo')
    PROVE  Claims
  BY KeyClaimed DEF Claims

LEMMA NoCalls == Unbooted(<<>>) /\ <<>> \in Seq(Frames)
  BY MembersEmpty DEF Unbooted

LEMMA OneCall ==
    ASSUME NEW f, f.op \notin {"boot", "rearm"}
    PROVE  Unbooted(<<f>>)
  BY SingletonMembers DEF Unbooted

\* A timer is enqueued again.
LEMMA KeyTimeChange ==
    ASSUME Typed, ListsInv, Idle, Claimed, NEW t \in Known,
           NEW e \in Entries, e.state = entry[t].state,
           Kept(e, entry[t]) \/ e.repeated = {},
           NEW k \in Seq(Frames), Unbooted(k), TimerTimeChanged(t, e, k)
    PROVE  Claims
  <1>1. t \in Timers /\ TypeOK /\ TypeOK'
    BY TypeParts DEF Typed
  <1>2. Known' = Known \cup {t} /\ Resumes(k)
    BY <1>1, TypeParts, TimerTimeChangedLists DEF ListsInv
  <1>3. PICK x \in Entries : Kept(x, e) /\ entry' = [entry EXCEPT ![t] = x]
    BY TimerTimeChangedRenews DEF Renews
  <1>4. \A u \in Timers : entry'[u] = IF u = t THEN x ELSE entry[u]
    BY <1>1, <1>3 DEF TypeOK
  <1>5. x.repeated = {} \/ Kept(x, entry[t])
    BY <1>3, KeptTransitive DEF Kept
  <1>6. Daily
    BY <1>4, <1>5 DEF Daily, Kept
  <1>7. Unbooted(todo')
    <2>1. Members(<<Calc>> \o k) = {Calc} \cup Members(k)
      BY CalcCall, MembersPush
    <2> QED BY <1>2, <2>1, CalcCall DEF Resumes, Unbooted
  <1>8. \A u \in Timers : entry'[u].repeated # {} => u \in Known'
    BY <1>2, <1>4, IdleClaims
  <1> QED BY <1>1, <1>6, <1>7, <1>8, KeyClaims

\* The calls of finishedAdd and finishedEdit.
LEMMA ShortenOnly ==
    ASSUME Typed, NEW next \in Frames,
           todo' = <<next>> \/ \E begin : Shorten(begin, next)
    PROVE  /\ next \in Members(todo')
           /\ \A f \in Members(todo') : f = next \/ f.op = "limit"
  <1>1. TypeOK /\ todo' \in Seq(Frames)
    BY DEF Typed, TypeOK
  <1>2. CASE todo' = <<next>>
    BY <1>2, SingletonMembers
  <1>3. ASSUME NEW f, todo' = <<f, next>>, f.op = "limit"
        PROVE  Members(todo') = {f, next}
    <2>1. todo' # <<>> /\ Head(todo') = f
      BY <1>3
    <2>2. f \in Frames
      BY <1>1, <2>1, SeqFacts
    <2> QED BY <1>3, <2>2, PairMembers
  <1> QED BY <1>1, <1>2, <1>3, ShortenCalls

LEMMA ShortenUnbooted ==
    ASSUME Typed, NEW next \in Frames, next.op \notin {"boot", "rearm"},
           todo' = <<next>> \/ \E begin : Shorten(begin, next)
    PROVE  Unbooted(todo') /\ next \in Members(todo')
  BY ShortenOnly DEF Unbooted

LEMMA EnteredClaims ==
    ASSUME Typed, ListsInv, Claimed, NEW t \in Timers,
           Record(t) \/ InstantRecord(t)
    PROVE  Claims
  <1> DEFINE add == Frame("add", t, 0, <<>>)
  <1>1. /\ TypeOK /\ TypeOK' /\ Idle /\ t \notin Known
        /\ UNCHANGED <<timer_list, processed_timers>>
    BY DEF Typed, Record, InstantRecord, UserTurn
  <1>2. add \in Frames /\ add.op = "add" /\ add.t = t
    <2>1. 0 \in Int
      OBVIOUS
    <2> QED BY <2>1, FrameType DEF Frame
  <1>3. PICK e : entry' = [entry EXCEPT ![t] = e]
    BY DEF Record, InstantRecord
  <1>4. todo' = <<add>> \/ \E begin : Shorten(begin, add)
    BY DEF Record, InstantRecord
  <1> HIDE DEF add
  <1>5. Unbooted(todo') /\ add \in Members(todo')
    BY <1>2, <1>4, ShortenUnbooted
  <1>6. \A u \in Timers : entry'[u] = IF u = t THEN e ELSE entry[u]
    BY <1>1, <1>3 DEF TypeOK
  <1>7. t \in Entered(todo')
    BY <1>2, <1>5 DEF Entered
  <1>8. Daily
    BY <1>1, <1>6, IdleClaims DEF Daily
  <1>9. \A u \in Timers : entry'[u].repeated # {} => u \in Known' \cup {t}
    BY <1>1, <1>6, IdleClaims DEF Known
  <1> QED BY <1>1, <1>5, <1>7, <1>8, <1>9, KeyClaims

LEMMA RemoveEntryClaims ==
    ASSUME Typed, ListsInv, Claimed, NEW t \in Timers, RemoveEntry(t)
    PROVE  Claims
  <1> DEFINE e == Abort(Withdraw(entry[t]), now)
  <1>1. TypeOK /\ TypeOK'
    BY DEF Typed
  <1>2. PICK k : /\ RemoveCalls(t, k)
                 /\ \/ TimerTimeChanged(t, e, k)
                    \/ /\ todo' = k /\ entry' = [entry EXCEPT ![t] = e]
                       /\ UNCHANGED <<timer_list, processed_timers>>
    BY <1>1, RemoveEntryCalls
  <1>3. /\ Idle /\ t \in Known /\ e \in Entries /\ e.state = entry[t].state
    BY <1>1, RemoveEntryCalls
  <1>4. e.repeated = {}
    <2>1. entry[t] \in Entries
      BY <1>1, TypeParts
    <2> QED BY <2>1 DEF Abort, Withdraw, Entries
  <1> HIDE DEF e
  <1>5. k \in Seq(Frames) /\ Unbooted(k)
    BY <1>2, RemoveCallsType DEF Unbooted, RemoveOps
  <1>6. CASE TimerTimeChanged(t, e, k)
    BY <1>3, <1>4, <1>5, <1>6, KeyTimeChange
  <1>7. CASE /\ todo' = k /\ entry' = [entry EXCEPT ![t] = e]
             /\ UNCHANGED <<timer_list, processed_timers>>
    <2>1. \A u \in Timers : entry'[u] = IF u = t THEN e ELSE entry[u]
      BY <1>1, <1>7 DEF TypeOK
    <2>2. Daily
      BY <1>4, <2>1 DEF Daily
    <2>3. \A u \in Timers : entry'[u].repeated # {} => u \in Known'
      BY <1>3, <1>4, <1>7, <2>1, IdleClaims DEF Known
    <2> QED BY <1>1, <1>5, <1>7, <2>2, <2>3, KeyClaims
  <1> QED BY <1>2, <1>6, <1>7

\* The end of an instant recording is given.
LEMMA SetEndKept ==
    ASSUME Typed, NEW t \in Timers, SetEnd(t)
    PROVE  \E e \in Entries : /\ e.state = entry[t].state /\ Kept(e, entry[t])
                              /\ TimerTimeChanged(t, e, <<>>)
  <1>1. entry[t] \in Entries /\ now \in Int /\ entry[t].dontSave
    BY TypeParts DEF SetEnd, Typed, TypeOK
  <1> DEFINE Ended(end) == [entry[t] EXCEPT !.end = end]
             Fixed(end) == [entry[t] EXCEPT !.autoincrease = FALSE, !.end = end]
  <1>2. ASSUME NEW end \in Int
        PROVE  /\ Ended(end) \in Entries /\ Ended(end).state = entry[t].state
               /\ Kept(Ended(end), entry[t])
               /\ Fixed(end) \in Entries /\ Fixed(end).state = entry[t].state
               /\ Kept(Fixed(end), entry[t])
    <2>1. /\ Ended(end) \in Entries /\ Ended(end).state = entry[t].state
          /\ Fixed(end) \in Entries /\ Fixed(end).state = entry[t].state
      BY <1>1 DEF Entries
    <2>2. Kept(Ended(end), entry[t])
      BY <1>1, EndKept
    <2>3. /\ Fixed(end).repeated = entry[t].repeated
          /\ Fixed(end).justplay = entry[t].justplay
          /\ Fixed(end).dontSave = entry[t].dontSave
          /\ Fixed(end).autoincrease = FALSE
          /\ Fixed(end).begin = entry[t].begin
      BY <1>1 DEF Entries
    <2>4. Kept(Fixed(end), entry[t])
      BY <1>1, <2>3 DEF Kept
    <2> QED BY <2>1, <2>2, <2>4
  <1>3. \A new \in Templates : new.end \in Int
    BY TimerAssumption DEF TemplateType
  <1>4. \/ \E new \in Templates : TimerTimeChanged(t, Fixed(new.end), <<>>)
        \/ TimerTimeChanged(t, Ended(now), <<>>)
    BY DEF SetEnd
  <1>5. \E end \in Int : \/ TimerTimeChanged(t, Fixed(end), <<>>)
                         \/ TimerTimeChanged(t, Ended(end), <<>>)
    BY <1>1, <1>3, <1>4
  <1> HIDE DEF Ended, Fixed
  <1> QED BY <1>2, <1>5

LEMMA ToggleKept ==
    ASSUME Typed, NEW t \in Timers, ToggleDisabledState(t)
    PROVE  \E e \in Entries : /\ e.state = entry[t].state /\ Kept(e, entry[t])
                              /\ TimerTimeChanged(t, e, <<>>)
  <1>1. entry[t] \in Entries /\ TypeOK
    BY TypeParts DEF Typed
  <1> DEFINE Toggled(disabled) == [entry[t] EXCEPT !.disabled = disabled]
  <1>2. ASSUME NEW disabled \in BOOLEAN
        PROVE  /\ Toggled(disabled) \in Entries
               /\ Toggled(disabled).state = entry[t].state
               /\ Kept(Toggled(disabled), entry[t])
    BY <1>1, DisabledKept DEF Entries
  <1>3. PICK disabled \in BOOLEAN : TimerTimeChanged(t, Toggled(disabled), <<>>)
    BY <1>1, ToggleChange
  <1> HIDE DEF Toggled
  <1> QED BY <1>2, <1>3

LEMMA TimeChangingClaims ==
    ASSUME Typed, ListsInv, Claimed, NEW t \in Timers,
           SetEnd(t) \/ ToggleDisabledState(t)
    PROVE  Claims
  <1>1. Idle /\ t \in Known
    BY DEF SetEnd, ToggleDisabledState, UserTurn
  <1>2. PICK e \in Entries : /\ e.state = entry[t].state /\ Kept(e, entry[t])
                             /\ TimerTimeChanged(t, e, <<>>)
    BY SetEndKept, ToggleKept
  <1> QED BY <1>1, <1>2, NoCalls, KeyTimeChange

\* What remains of a list are all its entries that are kept.
LEMMA SelectionsKeep ==
    ASSUME NEW S, NEW list \in Seq(S), NEW keep,
           NEW s \in Selections(list, keep)
    PROVE  Members(list) \cap keep \subseteq Members(s)
  <1> DEFINE places == {i \in DOMAIN list : list[i] \in keep}
  <1>1. PICK n \in 0..Len(list) : \E f \in [1..n -> places] :
          /\ \A p \in places : \E i \in DOMAIN f : f[i] = p
          /\ s = [i \in DOMAIN f |-> list[f[i]]]
    BY ZenonT(40) DEF Selections
  <1>2. PICK f \in [1..n -> places] :
          /\ \A p \in places : \E i \in DOMAIN f : f[i] = p
          /\ s = [i \in DOMAIN f |-> list[f[i]]]
    BY <1>1
  <1>3. DOMAIN s = DOMAIN f /\ \A i \in DOMAIN f : s[i] = list[f[i]]
    BY <1>2
  <1>4. ASSUME NEW x \in Members(list), x \in keep
        PROVE  x \in Members(s)
    <2>1. PICK p \in places : list[p] = x
      BY <1>4 DEF Members
    <2>2. PICK i \in DOMAIN f : f[i] = p
      BY <1>2
    <2> QED BY <1>3, <2>1, <2>2 DEF Members
  <1> QED BY <1>4

LEMMA CleanupClaims ==
    ASSUME Typed, ListsInv, Claimed, Cleanup
    PROVE  Claims
  <1>1. /\ TypeOK /\ TypeOK' /\ Idle /\ todo' = <<>> /\ UNCHANGED timer_list
        /\ processed_timers \in Seq(Timers)
    BY DEF Typed, Cleanup, UserTurn, Idle, TypeOK
  <1> DEFINE keep == {t \in Timers : entry[t].disabled}
  <1>2. Members(processed_timers) \cap keep \subseteq Members(processed_timers')
    BY <1>1, SelectionsKeep DEF Cleanup
  <1>3. \A u \in Timers :
          entry'[u] = IF u \in Members(processed_timers) /\ ~entry[u].disabled
                      THEN Blank ELSE entry[u]
    BY DEF Cleanup
  <1>4. Daily
    BY <1>3, BlankDays DEF Daily
  <1>5. \A u \in Timers : entry'[u].repeated # {} => u \in Known'
    <2>1. \A u \in Timers : entry[u].repeated # {} => u \in Known
      BY <1>1, IdleClaims
    <2> QED BY <1>1, <1>2, <1>3, <2>1, BlankDays DEF Known
  <1> QED BY <1>1, <1>4, <1>5, NoCalls, KeyClaims

LEMMA ShutdownClaims ==
    ASSUME Typed, Shutdown
    PROVE  Claims
  <1>1. /\ todo' = Save \o <<BootFrame>> /\ UNCHANGED entry
    BY DEF Shutdown
  <1>2. BootFrame \in Frames /\ BootFrame.op = "boot"
    BY FrameType DEF BootFrame, Frame
  <1>3. <<BootFrame>> \in Seq(Frames) /\ Members(<<BootFrame>>) = {BootFrame}
    BY <1>2, SingletonMembers, SeqFacts
  <1>4. Members(todo') = Members(Save) \cup {BootFrame}
    BY <1>1, <1>3, SavePushed
  <1>5. BootIsLast' /\ GoesDown'
    BY <1>2, <1>4, SaveMembers DEF BootIsLast, GoesDown, Alone
  <1> QED BY <1>1, <1>5, SameDaily DEF Claims, Claimed

\* What keyGo changes.
LEMMA KeyGoEntries ==
    ASSUME TypeOK, NEW t \in Timers, KeyGo(t)
    PROVE  /\ \A u \in Timers \ {t} : entry'[u] = entry[u]
           /\ todo' = Save /\ UNCHANGED <<timer_list, processed_timers>>
           /\ \E new \in Templates :
                /\ entry'[t].begin = new.begin /\ entry'[t].end = new.end
                /\ entry'[t].repeated = new.repeated
                /\ entry'[t].dontSave = entry[t].dontSave
                /\ entry'[t].autoincrease = entry[t].autoincrease
  <1>1. PICK new \in Templates :
          entry' = [entry EXCEPT
              ![t].begin = new.begin, ![t].end = new.end,
              ![t].repeated = new.repeated, ![t].justplay = new.justplay,
              ![t].repeatedbegindate = IF new.repeated = {} THEN @
                                       ELSE new.begin]
    BY DEF KeyGo
  <1>2. entry \in [Timers -> Entries] /\ entry[t] \in Entries
    BY TypeParts DEF TypeOK
  <1> DEFINE e == [entry[t] EXCEPT !.begin = new.begin, !.end = new.end,
                     !.repeated = new.repeated, !.justplay = new.justplay,
                     !.repeatedbegindate = IF new.repeated = {} THEN @
                                           ELSE new.begin]
  <1>3. entry' = [entry EXCEPT ![t] = e]
    BY <1>1, <1>2
  <1>4. /\ e.begin = new.begin /\ e.end = new.end /\ e.repeated = new.repeated
        /\ e.dontSave = entry[t].dontSave
        /\ e.autoincrease = entry[t].autoincrease
    BY <1>2 DEF Entries
  <1> HIDE DEF e
  <1>5. \A u \in Timers : entry'[u] = IF u = t THEN e ELSE entry[u]
    BY <1>2, <1>3
  <1> QED BY <1>4, <1>5 DEF KeyGo

LEMMA EditTimerClaims ==
    ASSUME Typed, ListsInv, Claimed, NEW t \in Timers, EditTimer(t)
    PROVE  /\ BootIsLast' /\ Claimed' /\ dialog = NoDialog
           /\ dialog' = Open("edited", t)
           /\ \A u \in Timers \ {t} : entry'[u] = entry[u]
  <1>1. /\ TypeOK /\ TypeOK' /\ Idle /\ dialog = NoDialog /\ t \in Known
        /\ KeyGo(t) /\ dialog' = Open("edited", t)
    BY DEF Typed, EditTimer, UserTurn
  <1>2. /\ \A u \in Timers \ {t} : entry'[u] = entry[u]
        /\ todo' = Save /\ UNCHANGED <<timer_list, processed_timers>>
    BY <1>1, KeyGoEntries
  <1>3. Unbooted(todo')
    BY <1>2, SaveMembers DEF Unbooted
  <1>4. \A u \in Timers : entry'[u].repeated # {} => u \in Known'
    BY <1>1, <1>2, IdleClaims DEF Known
  <1> QED BY <1>1, <1>2, <1>3, <1>4, KeyClaimed

\* The lists stay, and no entry gets other days.
LEMMA ListsStayClaims ==
    ASSUME Typed, Idle, Claimed, UNCHANGED <<timer_list, processed_timers>>,
           Unbooted(todo'), Daily,
           \A t \in Timers : entry'[t].repeated # {} => entry[t].repeated # {}
    PROVE  Claims
  <1>1. TypeOK'
    BY DEF Typed
  <1>2. \A t \in Timers : entry'[t].repeated # {} => t \in Known'
    BY IdleClaims DEF Known
  <1> QED BY <1>1, <1>2, KeyClaims

LEMMA FinishEditClaims ==
    ASSUME Typed, Claimed, FinishEdit
    PROVE  Claims
  <1> DEFINE edited == Frame("edited", dialog.t, 0, <<>>)
  <1>1. /\ TypeOK /\ Idle /\ dialog.kind \in {"edited", "conflict"}
        /\ UNCHANGED <<entry, timer_list, processed_timers>>
    BY DEF Typed, FinishEdit
  <1>2. edited \in Frames /\ edited.op = "edited"
    <2>1. 0 \in Int /\ dialog.t \in Timers
      BY <1>1, TypeParts
    <2> QED BY <2>1, FrameType DEF Frame
  <1>3. \E begin : Shorten(begin, edited)
    BY DEF FinishEdit
  <1> HIDE DEF edited
  <1>4. Unbooted(todo')
    BY <1>2, <1>3, ShortenUnbooted
  <1> QED BY <1>1, <1>4, SameDaily, ListsStayClaims

LEMMA AbandonClaims ==
    ASSUME Typed, Claimed, Abandon
    PROVE  Claims
  <1>1. /\ TypeOK /\ Idle /\ todo' = <<>> /\ dialog.t \in Timers
        /\ UNCHANGED <<timer_list, processed_timers>>
    BY TypeParts DEF Typed, Abandon, Idle
  <1>2. \A u \in Timers : entry'[u] = entry[u] \/ entry'[u] = Blank
    BY <1>1 DEF Abandon, TypeOK
  <1>3. Daily
    BY <1>2, BlankDays DEF Daily
  <1> QED BY <1>1, <1>2, <1>3, BlankDays, NoCalls, ListsStayClaims

\* The answer to "The record is running".
LEMMA RunningEventCallbackKept ==
    ASSUME Typed, RunningEventCallback
    PROVE  /\ Idle /\ dialog.t \in Timers /\ dialog.kind = "choice" /\ AllKept
           /\ UNCHANGED <<timer_list, processed_timers, file>>
           /\ dialog' = NoDialog
           /\ \A f \in Members(todo') :
                f.op \in {"activate", "retime"} /\ f.t = dialog.t
           /\ \/ todo' = <<>>
              \/ (\E x : todo' = <<x>>) \/ \E x, y : todo' = <<x, y>>
  <1> DEFINE t == dialog.t
             e == [entry[t] EXCEPT !.disabled = FALSE]
             activate == Frame("activate", t, 0, <<>>)
             Retime(n) == Frame("retime", t, n, <<>>)
  <1>1. /\ TypeOK /\ Idle /\ dialog.kind = "choice" /\ dialog' = NoDialog
        /\ UNCHANGED <<timer_list, processed_timers, file>>
    BY DEF Typed, RunningEventCallback
  <1>2. t \in Timers /\ entry[t] \in Entries
    BY <1>1, TypeParts
  <1>3. e \in Entries /\ Kept(e, entry[t])
    BY <1>2, DisabledKept, DisabledService DEF SameService
  <1>4. \/ \E n \in {0, 1}, x \in ProcessRepeated(e, now, FALSE) :
             /\ entry' = [entry EXCEPT ![t] = x]
             /\ todo' = <<activate, Retime(n)>>
        \/ todo' = <<Retime(1)>> /\ UNCHANGED entry
        \/ UNCHANGED <<entry, todo>>
    BY DEF RunningEventCallback
  <1>5. /\ activate \in Frames /\ activate.op = "activate" /\ activate.t = t
        /\ \A n \in {0, 1} : /\ Retime(n) \in Frames /\ Retime(n).op = "retime"
                             /\ Retime(n).t = t
    <2>1. 0 \in Int /\ 1 \in Int
      OBVIOUS
    <2> QED BY <1>2, <2>1, FrameType DEF Frame
  <1> HIDE DEF e, activate, Retime
  <1>6. CASE \E n \in {0, 1}, x \in ProcessRepeated(e, now, FALSE) :
               /\ entry' = [entry EXCEPT ![t] = x]
               /\ todo' = <<activate, Retime(n)>>
    <2>1. PICK n \in {0, 1}, x \in ProcessRepeated(e, now, FALSE) :
               /\ entry' = [entry EXCEPT ![t] = x]
               /\ todo' = <<activate, Retime(n)>>
      BY <1>6
    <2>2. Kept(x, entry[t])
      BY <1>3, <2>1, ProcessRepeatedKept, KeptTransitive
    <2>3. \A u \in Timers : entry'[u] = IF u = t THEN x ELSE entry[u]
      BY <1>1, <2>1 DEF TypeOK
    <2>4. AllKept
      BY <2>2, <2>3, KeptReflexive DEF AllKept
    <2>5. Members(todo') = {activate, Retime(n)}
      BY <1>5, <2>1, PairMembers
    <2> QED BY <1>1, <1>2, <1>5, <2>1, <2>4, <2>5
  <1>7. CASE todo' = <<Retime(1)>> /\ UNCHANGED entry
    BY <1>1, <1>2, <1>5, <1>7, SingletonMembers, SameAllKept
  <1>8. CASE UNCHANGED <<entry, todo>>
    BY <1>1, <1>2, <1>8, MembersEmpty, SameAllKept DEF Idle
  <1> QED BY <1>4, <1>6, <1>7, <1>8

LEMMA RunningEventCallbackClaims ==
    ASSUME Typed, Claimed, RunningEventCallback
    PROVE  Claims
  <1>1. /\ Idle /\ UNCHANGED <<timer_list, processed_timers>> /\ AllKept
        /\ Unbooted(todo')
    BY RunningEventCallbackKept DEF Unbooted
  <1> QED BY <1>1, AllKeptDaily, ListsStayClaims

\* No list of conflicts is shown for a new timer.
LEMMA NoRetryRecord ==
    ASSUME ListsInv
    PROVE  ~RetryRecord
  BY DEF ListsInv, NoRetry, RetryRecord

\* What TimeOfDayKept says of a step.
TimeKept ==
    \A t \in Timers :
      \/ entry[t].repeated = {} \/ entry'[t].repeated = {}
      \/ dialog = NoDialog /\ dialog' = Open("edited", t)
      \/ TimeOfDay(entry'[t].begin) = TimeOfDay(entry[t].begin)

LEMMA UserTimeKept ==
    ASSUME Typed, ListsInv, Claimed, "conflict" \notin UserOps, User
    PROVE  BootIsLast' /\ Claimed' /\ TimeKept
  <1>1. ASSUME Claims PROVE BootIsLast' /\ Claimed' /\ TimeKept
    BY <1>1 DEF Claims, Daily, TimeKept
  <1>2. ASSUME NEW t \in Timers, EditTimer(t)
        PROVE  BootIsLast' /\ Claimed' /\ TimeKept
    BY <1>2, EditTimerClaims DEF TimeKept
  <1>3. \A t : ~ToggleConflict(t) /\ ~EditConflict(t)
    BY DEF ToggleConflict, EditConflict, OnConflict
  <1>4. ASSUME NEW t \in Timers,
               \/ Record(t) \/ InstantRecord(t) \/ RemoveEntry(t) \/ SetEnd(t)
               \/ ToggleDisabledState(t)
        PROVE  Claims
    BY <1>4, EnteredClaims, RemoveEntryClaims, TimeChangingClaims
  <1>5. ASSUME Cleanup \/ Shutdown \/ FinishEdit \/ Abandon
                 \/ RunningEventCallback
        PROVE  Claims
    BY <1>5, CleanupClaims, ShutdownClaims, FinishEditClaims, AbandonClaims,
       RunningEventCallbackClaims
  <1> QED BY <1>1, <1>2, <1>3, <1>4, <1>5, NoRetryRecord DEF User

\* Nothing but the clock, the eTimer or the budget changes.
LEMMA ClockClaims ==
    ASSUME BootIsLast, Claimed,
           UNCHANGED <<entry, timer_list, processed_timers, todo>>
    PROVE  Claims
  <1>1. Alive' = Alive
    BY DEF Alive, Known, Pending, In, Top
  <1> QED BY <1>1, SameDaily DEF Claims, BootIsLast, Claimed, GoesDown

LEMMA TimeoutClaims ==
    ASSUME Typed, Claimed, Timeout
    PROVE  Claims
  <1>1. /\ Idle /\ todo' = <<Calc>>
        /\ UNCHANGED <<entry, timer_list, processed_timers>>
    BY DEF Timeout
  <1>2. Unbooted(todo')
    BY <1>1, CalcCall, OneCall
  <1> QED BY <1>1, <1>2, SameDaily, ListsStayClaims

LEMMA NextTimeKept ==
    ASSUME Typed, ListsInv, BootIsLast, Claimed, "start" \notin Faults,
           UserOps \cap {"conflict", "retry"} = {}, [Next]_vars
    PROVE  BootIsLast' /\ Claimed' /\ TimeKept
  <1>1. ASSUME Claims PROVE BootIsLast' /\ Claimed' /\ TimeKept
    BY <1>1 DEF Claims, Daily, TimeKept
  <1>2. ASSUME Tick \/ SetClock \/ UNCHANGED vars PROVE Claims
    <2>1. UNCHANGED <<entry, timer_list, processed_timers, todo>>
      BY <1>2 DEF Tick, SetClock, vars, listVars
    <2> QED BY <2>1, ClockClaims
  <1>3. ASSUME Crash PROVE Claims
    BY <1>3, SameDaily, BootsClaims DEF Crash, Boots
  <1> QED BY <1>1, <1>2, <1>3, HandlerClaims, UserTimeKept, TimeoutClaims
          DEF Next

LEMMA InitClaimed == Init => BootIsLast /\ Claimed
  BY MembersEmpty, BlankDays DEF Init, BootIsLast, Claimed

\* For any number of timers, any clock and however activations nest, fail to
\* prepare and are interrupted: a repeated timer keeps its time of day but for
\* an edit: "check if the calculated repeated time of day matches the initial
\* time of day" (tests/test_timer.py:64).  A recording that fails to start is
\* put off (RecordTimer.py:292-294), which is left out here, as are the edits
\* and new timers of a list of conflicts.
THEOREM RepeatedTimersKeepTheirTime ==
    ASSUME "start" \notin Faults, UserOps \cap {"conflict", "retry"} = {}
    PROVE  Spec => TimeOfDayKept
  <1> DEFINE Inv == ListsInv /\ BootIsLast /\ Claimed
  <1>1. Init => BootIsLast /\ Claimed
    BY InitClaimed
  <1>2. /\ TypeOK /\ TypeOK' /\ ListsInv /\ BootIsLast /\ Claimed /\ [Next]_vars
        => (BootIsLast /\ Claimed)' /\ TimeKept
    BY NextTimeKept DEF Typed
  <1>3. Spec => []TypeOK /\ []ListsInv
    BY TypeCorrect, ListsInvHolds
  <1>4. TimeKept => \A t \in Timers :
         \/ entry[t].repeated = {} \/ entry'[t].repeated = {}
         \/ dialog = NoDialog /\ dialog' = Open("edited", t)
         \/ TimeOfDay(entry'[t].begin) = TimeOfDay(entry[t].begin)
    BY DEF TimeKept
  <1> QED BY <1>1, <1>2, <1>3, <1>4, PTL DEF Spec, TimeOfDayKept

-----------------------------------------------------------------------------
(***************************************************************************)
(*                        10. What is saved                                *)
(*                                                                         *)
(* timers.xml is written by few handlers, and holds what a restart would   *)
(* bring back all the same: what part 9 says that every other change of a  *)
(* timer keeps is what timers.xml is asked for, and the end of a timer     *)
(* that is not repeated only moves when the timer is not saved.  A call    *)
(* that brings a timer back into a list it was taken out of finds it there *)
(* still; that holds however the lists are ordered, so that, unlike part   *)
(* 8, this part is about a box where timers are edited, too.               *)
(***************************************************************************)

\* The end given for a timer is not before its begin, "if the endtime is less
\* than the starttime, add 1 day" (getBeginEnd, TimerEntry.py:263); loadTimer
\* would put another one in its place (NewEntry).
InOrderTemplates ==
    \A new \in Templates : new.repeated = {} => new.begin <= new.end

\* A recording without a fixed end is not saved; what is saved and not repeated
\* ends after it begins.
Sound(e) ==
    /\ e.autoincrease => e.dontSave
    /\ e.repeated = {} /\ ~e.dontSave => e.begin <= e.end

SoundEntries == \A t \in Timers : Sound(entry[t])

SoundFile ==
    \A i \in DOMAIN file.timers :
      LET s == file.timers[i]
      IN  s.repeated = {} => s.begin <= s.end

\* What is truncated is written later.
Orderly(stack) ==
    \A i \in DOMAIN stack :
      stack[i].op = "save" =>
        \E j \in DOMAIN stack : j > i /\ stack[j].op = "write"

\* The timers a screen, or the answer to it, is about.
Targets(stack, d) ==
    {f.t : f \in {g \in Members(stack) : g.op \in Answered}}
      \cup {t \in Timers : d.kind # "none" /\ d.t = t}

TargetsAlive == GoesDown \/ Targets(todo, dialog) \subseteq Alive

\* While removeEntry runs there is no screen and no answer.
RemovesAlone ==
    \A f \in Members(todo) :
      f.op = "remove" => /\ dialog.kind = "none"
                         /\ \A g \in Members(todo) : g.op \notin Answered

\* A restart would bring back t with the days, the type and the end e has.
Covered(e, t, timers) ==
    \/ e.dontSave
    \/ \E i \in DOMAIN timers :
         LET s == timers[i]
         IN  /\ s.t = t /\ s.repeated = e.repeated
             /\ s.justplay = e.justplay
             /\ e.repeated = {} => s.end = e.end

Writes(stack) == \E f \in Members(stack) : f.op = "write"

\* timers.xml is going to be written, the box is going down, or the timers are
\* in it.
Covers ==
    \/ GoesDown \/ Writes(todo)
    \/ \A t \in Alive : Covered(entry[t], t, file.timers)

SavedInv ==
    /\ SoundEntries /\ SoundFile
    /\ Orderly(todo) /\ TargetsAlive /\ RemovesAlone /\ Covers

LEMMA KeptSound ==
    ASSUME NEW x \in Entries, NEW e \in Entries, Kept(x, e), Sound(e)
    PROVE  Sound(x)
  BY DEF Kept, Sound, Entries

LEMMA KeptCovered ==
    ASSUME NEW x \in Entries, NEW e \in Entries, Kept(x, e), Sound(e),
           NEW t, NEW timers, Covered(e, t, timers)
    PROVE  Covered(x, t, timers)
  BY DEF Kept, Sound, Covered

LEMMA BlankSound == Blank \in Entries /\ Sound(Blank)
  BY BlankType DEF Blank, NewEntry, ResetState, TimeChanged, Sound

\* The entry loadTimer and the editor make.
LEMMA NewEntrySound ==
    ASSUME NEW begin \in Int, NEW end \in Int, NEW repeated, NEW disabled,
           NEW justplay
    PROVE  LET e == NewEntry(begin, end, repeated, disabled, justplay)
           IN  /\ Sound(e) /\ e.repeated = repeated /\ e.justplay = justplay
               /\ begin <= end => e.end = end
  BY DEF NewEntry, ResetState, TimeChanged, Sound

-----------------------------------------------------------------------------
(***************************************************************************)
(* The calls to come.                                                      *)
(***************************************************************************)

LEMMA PushAt ==
    ASSUME NEW f \in Frames, NEW s \in Seq(Frames)
    PROVE  /\ Len(s) \in Nat /\ DOMAIN s = 1..Len(s)
           /\ DOMAIN (<<f>> \o s) = 1..Len(s) + 1
           /\ (<<f>> \o s)[1] = f
           /\ \A i \in 1..Len(s) : (<<f>> \o s)[i + 1] = s[i]
  OBVIOUS

LEMMA OrderlyPush ==
    ASSUME NEW f \in Frames, NEW s \in Seq(Frames), Orderly(s),
           f.op = "save" => Writes(s)
    PROVE  Orderly(<<f>> \o s)
  <1> DEFINE new == <<f>> \o s
  <1>1. /\ Len(s) \in Nat /\ DOMAIN s = 1..Len(s)
        /\ DOMAIN new = 1..Len(s) + 1 /\ new[1] = f
        /\ \A i \in 1..Len(s) : new[i + 1] = s[i]
    BY PushAt
  <1> HIDE DEF new
  <1>2. ASSUME NEW i \in DOMAIN new, new[i].op = "save"
        PROVE  \E j \in DOMAIN new : j > i /\ new[j].op = "write"
    <2>1. CASE i = 1
      <3>1. PICK j \in DOMAIN s : s[j].op = "write"
        BY <1>1, <1>2, <2>1 DEF Writes, Members
      <3>2. /\ j + 1 \in DOMAIN new /\ j + 1 > i /\ new[j + 1] = s[j]
        BY <1>1, <2>1, <3>1
      <3> QED BY <3>1, <3>2
    <2>2. CASE i # 1
      <3>1. i - 1 \in DOMAIN s /\ new[i] = s[i - 1]
        <4>1. i - 1 \in 1..Len(s)
          BY <1>1, <1>2, <2>2
        <4>2. new[(i - 1) + 1] = s[i - 1]
          BY <1>1, <4>1
        <4>3. (i - 1) + 1 = i
          BY <1>1, <1>2
        <4> QED BY <1>1, <4>1, <4>2, <4>3
      <3>2. PICK j \in DOMAIN s : j > i - 1 /\ s[j].op = "write"
        BY <1>2, <3>1 DEF Orderly
      <3>3. j + 1 \in DOMAIN new /\ j + 1 > i /\ new[j + 1] = s[j]
        BY <1>1, <1>2, <3>2
      <3> QED BY <3>2, <3>3
    <2> QED BY <2>1, <2>2
  <1>3. Orderly(new)
    BY <1>2 DEF Orderly
  <1> QED BY <1>3 DEF new

LEMMA OrderlyRest ==
    ASSUME TypeOK, todo # <<>>, Orderly(todo)
    PROVE  Orderly(Rest) /\ (Top.op = "save" => Writes(Rest))
  <1>1. /\ Rest \in Seq(Frames) /\ Top \in Frames /\ todo = <<Top>> \o Rest
    <2>1. todo \in Seq(Frames)
      BY DEF TypeOK
    <2> QED BY <2>1, MembersTail, TopType DEF Top, Rest
  <1> DEFINE r == Rest
             f == Top
  <1>2. /\ Len(r) \in Nat /\ DOMAIN r = 1..Len(r)
        /\ DOMAIN todo = 1..Len(r) + 1 /\ todo[1] = f
        /\ \A i \in 1..Len(r) : todo[i + 1] = r[i]
    BY <1>1, PushAt
  <1> HIDE DEF r, f
  <1>3. ASSUME NEW i \in 1..Len(r) + 1, todo[i].op = "save"
        PROVE  \E j \in DOMAIN r : j > i - 1 /\ r[j].op = "write"
    <2>1. PICK j \in DOMAIN todo : j > i /\ todo[j].op = "write"
      BY <1>2, <1>3 DEF Orderly
    <2>2. j - 1 \in 1..Len(r) /\ j - 1 > i - 1 /\ (j - 1) + 1 = j
      BY <1>2, <1>3, <2>1
    <2>3. todo[(j - 1) + 1] = r[j - 1]
      BY <1>2, <2>2
    <2> QED BY <1>2, <2>1, <2>2, <2>3
  <1>4. ASSUME NEW i \in DOMAIN r, r[i].op = "save"
        PROVE  \E j \in DOMAIN r : j > i /\ r[j].op = "write"
    <2>1. i + 1 \in 1..Len(r) + 1 /\ todo[i + 1] = r[i] /\ (i + 1) - 1 = i
      BY <1>2, <1>4
    <2>2. \E j \in DOMAIN r : j > (i + 1) - 1 /\ r[j].op = "write"
      BY <1>3, <1>4, <2>1
    <2> QED BY <2>1, <2>2
  <1>5. Orderly(r)
    BY <1>4 DEF Orderly
  <1>6. f.op = "save" => Writes(r)
    <2>1. 1 \in 1..Len(r) + 1
      BY <1>2
    <2> QED BY <1>2, <1>3, <2>1 DEF Writes, Members
  <1> QED BY <1>5, <1>6 DEF r, f

LEMMA OrderlyCalls ==
    ASSUME NEW s, \A f \in Members(s) : f.op # "save"
    PROVE  Orderly(s)
  BY DEF Orderly, Members

LEMMA SaveOrderly ==
    ASSUME NEW s \in Seq(Frames), Orderly(s)
    PROVE  /\ Orderly(Save \o s) /\ Writes(Save \o s)
           /\ Save \o s \in Seq(Frames)
  <1> DEFINE save == Frame("save", NoTimer, 0, <<>>)
             write == Frame("write", NoTimer, 0, <<>>)
  <1>1. save \in Frames /\ write \in Frames /\ Save = <<save, write>>
    <2>1. Save \in Seq(Frames) /\ Save = <<save, write>>
      BY FrameType DEF Save
    <2>2. Save[1] = save /\ Save[2] = write /\ Len(Save) = 2
      BY <2>1
    <2> QED BY <2>1, <2>2, SeqFacts
  <1>2. save.op = "save" /\ write.op = "write"
    BY DEF Frame
  <1> HIDE DEF save, write
  <1>3. /\ <<write>> \o s \in Seq(Frames)
        /\ Save \o s = <<save>> \o (<<write>> \o s)
    <2>1. Save = <<save>> \o <<write>>
      BY <1>1, PairMembers
    <2>2. (<<save>> \o <<write>>) \o s = <<save>> \o (<<write>> \o s)
      BY <1>1
    <2> QED BY <1>1, <2>1, <2>2, PushType
  <1>4. Orderly(<<write>> \o s) /\ Writes(<<write>> \o s)
    <2>1. Members(<<write>> \o s) = {write} \cup Members(s)
      BY <1>1, MembersPush
    <2>2. Orderly(<<write>> \o s)
      BY <1>1, <1>2, OrderlyPush
    <2> QED BY <1>2, <2>1, <2>2 DEF Writes
  <1>5. Orderly(Save \o s)
    BY <1>1, <1>3, <1>4, OrderlyPush
  <1>6. Writes(Save \o s)
    <2> DEFINE r == <<write>> \o s
    <2>1. r \in Seq(Frames) /\ Save \o s = <<save>> \o r /\ Writes(r)
      BY <1>3, <1>4
    <2> HIDE DEF r
    <2>2. Members(<<save>> \o r) = {save} \cup Members(r)
      BY <1>1, <2>1, MembersPush
    <2> QED BY <2>1, <2>2 DEF Writes
  <1> QED BY <1>5, <1>6, SavePushed

LEMMA SaveAlone == Orderly(Save) /\ Writes(Save) /\ Save \in Seq(Frames)
  <1>1. <<>> \in Seq(Frames) /\ Orderly(<<>>)
    BY MembersEmpty, OrderlyCalls
  <1>2. Save \in Seq(Frames)
    BY FrameType
  <1>3. Save \o <<>> = Save
    BY <1>2
  <1> QED BY <1>1, <1>2, <1>3, SaveOrderly

-----------------------------------------------------------------------------
(***************************************************************************)
(* The handlers.                                                           *)
(***************************************************************************)

LEMMA AliveType ==
    ASSUME TypeOK
    PROVE  Alive \subseteq Timers
  <1>1. In("rearm") => Top.rest \in Seq(Timers)
    BY TopOfKind DEF TypeOK, In
  <1>2. Pending \subseteq Timers
    BY <1>1, MembersType, MembersEmpty DEF Pending
  <1> QED BY <1>2, TypeParts DEF Alive

\* While the box is on.
LEMMA SavedUp ==
    ASSUME SavedInv, ~GoesDown
    PROVE  /\ Targets(todo, dialog) \subseteq Alive
           /\ Writes(todo)
                \/ \A t \in Alive : Covered(entry[t], t, file.timers)
  BY DEF SavedInv, TargetsAlive, Covers

LEMMA TargetsMember ==
    ASSUME NEW stack, NEW d, NEW t \in Timers
    PROVE  t \in Targets(stack, d) <=>
             \/ \E f \in Members(stack) : f.op \in Answered /\ f.t = t
             \/ d.kind # "none" /\ d.t = t
  BY DEF Targets

LEMMA AnsweredType ==
    ASSUME NEW f \in Frames, f.op \in Answered
    PROVE  f.t \in Timers
  BY DEF Frames, Answered

\* No timer but the one changed, and it keeps what is saved.
LEMMA AllKeptSaved ==
    ASSUME Typed, SavedInv, AllKept, UNCHANGED file
    PROVE  /\ SoundEntries' /\ SoundFile'
           /\ \A t \in Timers : Covered(entry[t], t, file.timers)
                => Covered(entry'[t], t, file.timers)
  <1>1. /\ TypeOK /\ TypeOK' /\ SoundEntries /\ SoundFile
        /\ \A t \in Timers : entry[t] \in Entries
    BY TypeParts DEF Typed, SavedInv
  <1>2. \A t \in Timers : entry'[t] \in Entries
    BY <1>1 DEF TypeOK
  <1>3. \A t \in Timers : Kept(entry'[t], entry[t]) /\ Sound(entry[t])
    BY <1>1 DEF AllKept, SoundEntries
  <1>4. SoundEntries'
    BY <1>1, <1>2, <1>3, KeptSound DEF SoundEntries
  <1>5. SoundFile'
    BY <1>1 DEF SoundFile
  <1>6. \A t \in Timers : Covered(entry[t], t, file.timers)
                => Covered(entry'[t], t, file.timers)
    BY <1>1, <1>2, <1>3, KeptCovered
  <1> QED BY <1>4, <1>5, <1>6

LEMMA ResumingOrderly ==
    ASSUME TypeOK, Orderly(todo), Resuming
    PROVE  Orderly(todo')
  <1>1. /\ Orderly(Rest) /\ Rest \in Seq(Frames) /\ todo \in Seq(Frames)
        /\ Calc \in Frames /\ Calc.op # "save"
    BY OrderlyRest, StackMembers, CalcCall DEF Resuming, TypeOK
  <1>2. PICK k \in Seq(Frames) :
          /\ Resumes(k)
          /\ \/ k = Rest \/ k = todo
             \/ \E f \in Frames : f.op # "save" /\ k = <<f>> \o Rest
    BY DEF Resuming, Onward, Nested
  <1>3. Orderly(k)
    BY <1>1, <1>2, OrderlyPush
  <1>4. Orderly(<<Calc>> \o k)
    BY <1>1, <1>3, OrderlyPush
  <1> QED BY <1>2, <1>3, <1>4 DEF Resumes

LEMMA GoesSaved ==
    ASSUME Typed, ListsInv, BootIsLast, SavedInv, GoesAhead
    PROVE  SavedInv'
  <1>1. /\ TypeOK /\ TypeOK' /\ todo # <<>> /\ Top.op \notin Alone
        /\ Top.op # "remove" /\ AllKept /\ UNCHANGED file /\ Resuming /\ Asks
        /\ Alive \subseteq Alive' /\ Alive' \subseteq Alive \cup Movable
    BY DEF Typed, GoesAhead, Carries, Resuming, Moving
  <1>2. /\ ~GoesDown /\ Targets(todo, dialog) \subseteq Alive
        /\ Writes(todo) \/ \A t \in Alive : Covered(entry[t], t, file.timers)
    BY <1>1, StaysUp, SavedUp
  <1>3. /\ Members(todo) = {Top} \cup Members(Rest) /\ Top \in Frames
        /\ Members(Rest) \subseteq Members(todo')
        /\ \A f \in Members(todo') : f \in Members(todo) \/ f.op \in Nested
    BY <1>1, ResumingCalls, StackMembers
  <1>4. Orderly(todo')
    BY <1>1, ResumingOrderly DEF SavedInv
  <1>5. /\ SoundEntries' /\ SoundFile'
        /\ \A t \in Timers : Covered(entry[t], t, file.timers)
                => Covered(entry'[t], t, file.timers)
    BY <1>1, AllKeptSaved
  <1>6. Top.op \in Answered => Top.t \in Timers /\ Top.t \in Alive
    BY <1>2, <1>3, AnsweredType, TargetsMember
  <1>7. TargetsAlive'
    <2>1. ASSUME NEW t \in Timers, t \in Targets(todo', dialog')
          PROVE  t \in Alive'
      <3>1. CASE \E f \in Members(todo') : f.op \in Answered /\ f.t = t
        <4>1. t \in Targets(todo, dialog)
          BY <1>3, <3>1, TargetsMember DEF Nested, Answered
        <4> QED BY <1>1, <1>2, <4>1
      <3>2. CASE dialog'.kind # "none" /\ dialog'.t = t
        <4>1. CASE UNCHANGED dialog
          <5>1. t \in Targets(todo, dialog)
            BY <3>2, <4>1, TargetsMember
          <5> QED BY <1>1, <1>2, <5>1
        <4>2. CASE Top.op = "edited" /\ dialog'.t \in Known \cup {Top.t}
          BY <1>1, <1>6, <3>2, <4>2 DEF Answered, Alive
        <4> QED BY <1>1, <4>1, <4>2 DEF Asks
      <3> QED BY <2>1, <3>1, <3>2, TargetsMember
    <2>2. Targets(todo', dialog') \subseteq Timers
      <3>1. \A f \in Members(todo') : f \in Frames
        BY <1>1, MembersType DEF TypeOK
      <3> QED BY <3>1, AnsweredType DEF Targets
    <2> QED BY <2>1, <2>2 DEF TargetsAlive
  <1>8. RemovesAlone'
    <2>1. ASSUME NEW f \in Members(todo'), f.op = "remove"
          PROVE  /\ dialog'.kind = "none"
                 /\ \A g \in Members(todo') : g.op \notin Answered
      <3>1. f \in Members(todo)
        BY <1>3, <2>1 DEF Nested
      <3>2. /\ dialog.kind = "none"
            /\ \A g \in Members(todo) : g.op \notin Answered
        BY <2>1, <3>1 DEF SavedInv, RemovesAlone
      <3>3. UNCHANGED dialog
        BY <1>1, <1>3, <3>2 DEF Asks, Answered
      <3> QED BY <1>3, <3>2, <3>3 DEF Nested, Answered
    <2> QED BY <2>1 DEF RemovesAlone
  <1>9. Covers'
    <2>1. CASE Writes(todo)
      BY <1>1, <1>3, <2>1 DEF Covers, Writes, Alone
    <2>2. CASE \A t \in Alive : Covered(entry[t], t, file.timers)
      <3>1. ASSUME NEW t \in Alive'
            PROVE  t \in Timers /\ Covered(entry[t], t, file.timers)
        <4>1. CASE t \in Alive
          BY <1>1, <2>2, <4>1, AliveType
        <4>2. CASE t \in Timers /\ entry[t].autoincrease
          BY <4>2 DEF SavedInv, SoundEntries, Sound, Covered
        <4>3. CASE Top.op \in Answered /\ t = Top.t
          BY <1>6, <2>2, <4>3
        <4> QED BY <1>1, <4>1, <4>2, <4>3 DEF Movable
      <3>2. \A t \in Alive' : Covered(entry'[t], t, file'.timers)
        BY <1>1, <1>5, <3>1
      <3> QED BY <3>2 DEF Covers
    <2> QED BY <1>2, <2>1, <2>2
  <1> QED BY <1>4, <1>5, <1>7, <1>8, <1>9 DEF SavedInv

\* The box goes down, with its timers and timers.xml as they are.
LEMMA BootsSaved ==
    ASSUME SavedInv, Boots, UNCHANGED <<entry, file>>
    PROVE  SavedInv'
  <1>1. Members(todo') = {BootFrame} /\ BootFrame.op = "boot"
    BY SingletonMembers DEF Boots, BootFrame, Frame
  <1>2. GoesDown' /\ Orderly(todo')
    BY <1>1, OrderlyCalls DEF GoesDown
  <1> QED BY <1>1, <1>2 DEF SavedInv, SoundEntries, SoundFile, TargetsAlive,
          RemovesAlone, Covers

\* The box boots with empty lists.
LEMMA BootSaved ==
    ASSUME Typed, SavedInv, Boot
    PROVE  SavedInv'
  <1>1. /\ \A t \in Timers : entry'[t] = Blank
        /\ timer_list' = <<>> /\ processed_timers' = <<>>
        /\ dialog' = NoDialog
    BY DEF Boot
  <1>2. \A f \in Members(todo') : f.op = "load"
    <2>1. \/ todo' = <<>>
          \/ todo' = <<Frame("load", NoTimer, 1, <<>>)>>
      BY DEF Boot
    <2>2. Frame("load", NoTimer, 1, <<>>).op = "load"
      BY DEF Frame
    <2> QED BY <2>1, <2>2, SingletonMembers, MembersEmpty
  <1>3. Known' = {} /\ Alive' = {}
    <2>1. todo' \in Seq(Frames)
      BY DEF Typed, TypeOK
    <2>2. NoRearm(todo') /\ Resumes(todo')
      BY <1>2 DEF NoRearm, Resumes
    <2> QED BY <1>1, <2>1, <2>2, ResumesWithoutRearm, MembersEmpty DEF Known
  <1>4. SoundEntries'
    BY <1>1, BlankSound DEF SoundEntries
  <1>5. SoundFile'
    <2>1. UNCHANGED file \/ file' = Holding(<<>>)
      BY DEF Boot
    <2> QED BY <2>1 DEF SavedInv, SoundFile, Holding
  <1>6. Orderly(todo')
    BY <1>2, OrderlyCalls
  <1>7. TargetsAlive' /\ RemovesAlone'
    BY <1>1, <1>2 DEF TargetsAlive, Targets, RemovesAlone, NoDialog, Answered
  <1> QED BY <1>3, <1>4, <1>5, <1>6, <1>7 DEF SavedInv, Covers

\* The end of a call that changed no list.
LEMMA ReturnAlive ==
    ASSUME TypeOK, ListsInv, todo # <<>>, Top.op # "rearm", todo' = Rest,
           UNCHANGED <<timer_list, processed_timers>>
    PROVE  Alive = Known /\ Alive' = Known
  <1>1. Rest \in Seq(Frames) /\ NoRearm(Rest) /\ Resumes(Rest)
    BY RestWithoutRearm DEF Resumes
  <1>2. Alive = Known /\ Alive' = Known'
    BY <1>1, NotRearming, ResumesWithoutRearm DEF In
  <1> QED BY <1>2 DEF Known

LEMMA SavedFields ==
    ASSUME NEW t
    PROVE  /\ SavedForm(t).t = t /\ SavedForm(t).begin = entry[t].begin
           /\ SavedForm(t).end = entry[t].end
           /\ SavedForm(t).repeated = entry[t].repeated
           /\ SavedForm(t).justplay = entry[t].justplay
  BY DEF SavedForm

\* What remains of a list is kept.
LEMMA SelectionsOnly ==
    ASSUME NEW list, NEW keep, NEW s \in Selections(list, keep)
    PROVE  Members(s) \subseteq Members(list) \cap keep
  <1> DEFINE places == {i \in DOMAIN list : list[i] \in keep}
  <1>1. PICK n \in 0..Len(list) : \E f \in [1..n -> places] :
          s = [i \in DOMAIN f |-> list[f[i]]]
    BY DEF Selections
  <1>2. PICK f \in [1..n -> places] : s = [i \in DOMAIN f |-> list[f[i]]]
    BY <1>1
  <1>3. ASSUME NEW i \in DOMAIN s
        PROVE  s[i] \in Members(list) /\ s[i] \in keep
    <2>1. DOMAIN s = DOMAIN f /\ DOMAIN f = 1..n
      BY <1>2
    <2>2. f[i] \in places /\ s[i] = list[f[i]]
      BY <1>2, <1>3, <2>1
    <2> QED BY <2>2 DEF Members
  <1> QED BY <1>3 DEF Members

\* saveTimer writes every timer that is to be saved.
LEMMA WriteCovers ==
    ASSUME Typed, SoundEntries, Write
    PROVE  /\ SoundFile'
           /\ \A t \in Known : Covered(entry[t], t, file'.timers)
  <1> DEFINE list == timer_list \o processed_timers
             keep == {t \in Timers : ~entry[t].dontSave}
  <1>1. /\ timer_list \in Seq(Timers) /\ processed_timers \in Seq(Timers)
        /\ Known \subseteq Timers
    BY TypeParts DEF Typed, TypeOK
  <1>2. list \in Seq(Timers) /\ Members(list) = Known
    BY <1>1, ConcatenationMembers DEF Known
  <1>3. PICK kept \in Selections(list, keep) :
          file' = Holding([i \in DOMAIN kept |-> SavedForm(kept[i])])
    BY DEF Write
  <1>4. /\ DOMAIN file'.timers = DOMAIN kept
        /\ \A i \in DOMAIN kept : file'.timers[i] = SavedForm(kept[i])
    BY <1>3 DEF Holding
  <1>5. Members(list) \cap keep \subseteq Members(kept)
    BY <1>2, <1>3, SelectionsKeep
  <1>6. Members(kept) \subseteq keep
    BY <1>3, SelectionsOnly
  <1> HIDE DEF list
  <1>7. ASSUME NEW i \in DOMAIN kept, file'.timers[i].repeated = {}
        PROVE  file'.timers[i].begin <= file'.timers[i].end
    <2>1. kept[i] \in Timers /\ ~entry[kept[i]].dontSave
      BY <1>6 DEF Members
    <2>2. file'.timers[i] = SavedForm(kept[i])
      BY <1>4, <1>7
    <2>3. /\ file'.timers[i].begin = entry[kept[i]].begin
          /\ file'.timers[i].end = entry[kept[i]].end
          /\ file'.timers[i].repeated = entry[kept[i]].repeated
      BY <2>2, SavedFields
    <2> QED BY <1>7, <2>1, <2>3 DEF SoundEntries, Sound
  <1>8. SoundFile'
    BY <1>4, <1>7 DEF SoundFile
  <1>9. ASSUME NEW t \in Known, ~entry[t].dontSave
        PROVE  Covered(entry[t], t, file'.timers)
    <2>1. t \in Members(kept)
      BY <1>1, <1>2, <1>5, <1>9
    <2>2. PICK i \in DOMAIN kept : kept[i] = t
      BY <2>1 DEF Members
    <2>3. i \in DOMAIN file'.timers /\ file'.timers[i] = SavedForm(t)
      BY <1>4, <2>2
    <2>4. /\ file'.timers[i].t = t
          /\ file'.timers[i].end = entry[t].end
          /\ file'.timers[i].repeated = entry[t].repeated
          /\ file'.timers[i].justplay = entry[t].justplay
      BY <2>3, SavedFields
    <2> QED BY <2>3, <2>4 DEF Covered
  <1> QED BY <1>8, <1>9 DEF Covered

LEMMA FileSaved ==
    ASSUME Typed, ListsInv, SavedInv, Truncate \/ Write
    PROVE  SavedInv'
  <1>1. /\ TypeOK /\ todo # <<>> /\ Top.op \in {"save", "write"}
        /\ todo' = Rest /\ (Truncate => Top.op = "save")
        /\ UNCHANGED <<entry, timer_list, processed_timers, dialog>>
    BY DEF Typed, Truncate, Write, In
  <1>2. Members(todo) = {Top} \cup Members(Rest)
    BY <1>1, StackMembers
  <1>3. Alive = Known /\ Alive' = Known
    BY <1>1, ReturnAlive
  <1>4. SoundEntries' /\ SoundEntries
    BY <1>1 DEF SavedInv, SoundEntries
  <1>5. Orderly(todo') /\ (Truncate => Writes(todo'))
    BY <1>1, OrderlyRest DEF SavedInv
  <1>6. GoesDown' <=> GoesDown
    BY <1>1, <1>2 DEF GoesDown
  <1>7. TargetsAlive'
    <2>1. Targets(todo', dialog') \subseteq Targets(todo, dialog)
      BY <1>1, <1>2 DEF Targets
    <2> QED BY <1>3, <1>6, <2>1 DEF SavedInv, TargetsAlive
  <1>8. RemovesAlone'
    BY <1>1, <1>2 DEF SavedInv, RemovesAlone
  <1>9. CASE Truncate
    <2>1. SoundFile'
      BY <1>9 DEF Truncate, Truncated, SoundFile
    <2> QED BY <1>4, <1>5, <1>7, <1>8, <1>9, <2>1 DEF SavedInv, Covers
  <1>10. CASE Write
    <2>1. SoundFile' /\ \A t \in Known : Covered(entry[t], t, file'.timers)
      BY <1>4, <1>10, WriteCovers
    <2>2. Covers'
      BY <1>1, <1>3, <2>1 DEF Covers
    <2> QED BY <1>4, <1>5, <1>7, <1>8, <2>1, <2>2 DEF SavedInv
  <1> QED BY <1>9, <1>10

\* One entry is replaced.
LEMMA OneSound ==
    ASSUME TypeOK, SoundEntries, NEW t \in Timers, NEW x, Sound(x),
           entry' = [entry EXCEPT ![t] = x]
    PROVE  /\ SoundEntries'
           /\ \A u \in Timers : entry'[u] = IF u = t THEN x ELSE entry[u]
  <1>1. \A u \in Timers : entry'[u] = IF u = t THEN x ELSE entry[u]
    BY DEF TypeOK
  <1> QED BY <1>1 DEF SoundEntries

\* A new timer is put into a list; it is in timers.xml, or this is going to be
\* written.
LEMMA ArrivesSaved ==
    ASSUME Typed, ListsInv, BootIsLast, SavedInv, todo # <<>>,
           Top.op \in Arrivals, NEW t \in Timers \ Known, NEW e \in Entries,
           Sound(e), Renews(t, e), Known' = Known \cup {t},
           NEW k \in Seq(Frames), Resumes(k), Orderly(k),
           \A f \in Members(k) :
             f \in Members(Rest) \/ f.op \in {"save", "write", "load"},
           Members(Rest) \subseteq Members(k),
           Writes(k) \/ Covered(e, t, file.timers),
           UNCHANGED <<dialog, file>>
    PROVE  SavedInv'
  <1>1. TypeOK /\ SoundEntries
    BY DEF Typed, SavedInv
  <1>2. /\ Rest \in Seq(Frames) /\ NoRearm(Rest) /\ ~GoesDown
        /\ Members(todo) = {Top} \cup Members(Rest)
    BY <1>1, BelowArrival, StackMembers
  <1>3. NoRearm(k) /\ Alive = Known
    BY <1>2, NotRearming DEF NoRearm, Arrivals, In
  <1>4. Alive' = Known \cup {t}
    BY <1>3, ResumesWithoutRearm
  <1>5. PICK x \in Entries : Kept(x, e) /\ entry' = [entry EXCEPT ![t] = x]
    BY DEF Renews
  <1>6. Sound(x)
    BY <1>5, KeptSound
  <1>7. /\ SoundEntries'
        /\ \A u \in Timers : entry'[u] = IF u = t THEN x ELSE entry[u]
    BY <1>1, <1>5, <1>6, OneSound
  <1>8. Members(todo') = Members(k) \/ Members(todo') = {Calc} \cup Members(k)
    <2>1. Members(<<Calc>> \o k) = {Calc} \cup Members(k)
      BY CalcCall, MembersPush
    <2> QED BY <2>1 DEF Resumes
  <1>9. \A f \in Members(todo') :
          f \in Members(Rest) \/ f.op \in {"save", "write", "load", "calc"}
    BY <1>8, CalcCall
  <1>10. Orderly(todo')
    <2>1. Orderly(<<Calc>> \o k)
      BY CalcCall, OrderlyPush
    <2> QED BY <2>1 DEF Resumes
  <1>11. TargetsAlive'
    <2>1. Targets(todo', dialog') \subseteq Targets(todo, dialog)
      BY <1>2, <1>9 DEF Targets, Answered
    <2>2. Targets(todo, dialog) \subseteq Alive
      BY <1>2, SavedUp
    <2> QED BY <1>3, <1>4, <2>1, <2>2 DEF TargetsAlive
  <1>12. RemovesAlone'
    <2>1. \A f \in Members(todo') : f.op = "remove" => f \in Members(todo)
      BY <1>2, <1>9
    <2>2. \A f \in Members(todo') : f.op \in Answered => f \in Members(todo)
      BY <1>2, <1>9 DEF Answered
    <2> QED BY <2>1, <2>2 DEF SavedInv, RemovesAlone
  <1>13. Covers'
    <2>1. CASE Writes(k)
      BY <1>8, <2>1 DEF Covers, Writes
    <2>2. CASE Writes(todo)
      BY <1>2, <1>8, <2>2 DEF Covers, Writes, Arrivals
    <2>3. CASE /\ Covered(e, t, file.timers)
               /\ \A u \in Alive : Covered(entry[u], u, file.timers)
      <3>1. Covered(x, t, file.timers)
        BY <1>5, <2>3, KeptCovered
      <3>2. Known \subseteq Timers
        BY <1>1, TypeParts
      <3>3. \A u \in Alive' : Covered(entry'[u], u, file'.timers)
        BY <1>3, <1>4, <1>7, <2>3, <3>1, <3>2
      <3> QED BY <3>3 DEF Covers
    <2> QED BY <1>2, <2>1, <2>2, <2>3, SavedUp
  <1>14. SoundFile'
    BY DEF SavedInv, SoundFile
  <1> QED BY <1>7, <1>10, <1>11, <1>12, <1>13, <1>14 DEF SavedInv

LEMMA LoadTimerSaved ==
    ASSUME Typed, ListsInv, BootIsLast, SavedInv, LoadTimer
    PROVE  SavedInv'
  <1>1. /\ TypeOK /\ todo # <<>> /\ Top.op = "load" /\ Top.op \in Arrivals
        /\ UNCHANGED <<dialog, file>>
    BY LoadTimerArrives DEF Typed, Arrivals
  <1>2. CASE GoesAhead
    BY <1>2, GoesSaved
  <1>3. ASSUME NEW t \in Timers \ Known, NEW f \in Frames,
               NEW i \in DOMAIN file.timers, NEW s, s = file.timers[i],
               NEW e, e = NewEntry(s.begin, s.end, s.repeated, s.disabled,
                                   s.justplay),
               s \in SavedTimer, t = s.t, f.op = "load", Renews(t, e),
               Known' = Known \cup {t}, Resumes(<<f>> \o Rest)
        PROVE  SavedInv'
    <2> DEFINE k == <<f>> \o Rest
    <2>1. Rest \in Seq(Frames) /\ Orderly(Rest)
      BY <1>1, BelowArrival, OrderlyRest DEF SavedInv
    <2>2. /\ k \in Seq(Frames) /\ Members(k) = {f} \cup Members(Rest)
          /\ Orderly(k) /\ Resumes(k)
      BY <1>3, <2>1, MembersPush, PushType, OrderlyPush
    <2>3. s.begin \in Int /\ s.end \in Int
      BY <1>3 DEF SavedTimer
    <2>4. e \in Entries
      BY <1>3, NewEntryType DEF SavedTimer
    <2>5. /\ Sound(e) /\ e.repeated = s.repeated /\ e.justplay = s.justplay
          /\ s.begin <= s.end => e.end = s.end
      BY <1>3, <2>3, NewEntrySound, SMTT(30)
    <2>6. Covered(e, t, file.timers)
      BY <1>3, <2>5 DEF SavedInv, SoundFile, Covered
    <2> HIDE DEF k
    <2>7. /\ \A g \in Members(k) :
               g \in Members(Rest) \/ g.op \in {"save", "write", "load"}
          /\ Members(Rest) \subseteq Members(k)
      BY <1>3, <2>2
    <2> QED BY <1>1, <1>3, <2>2, <2>4, <2>5, <2>6, <2>7, ArrivesSaved
  <1> QED BY <1>2, <1>3, LoadTimerArrives

LEMMA AddRecordSaved ==
    ASSUME Typed, ListsInv, BootIsLast, SavedInv, "retry" \notin UserOps,
           AddRecord
    PROVE  SavedInv'
  <1> DEFINE t == Top.t
             k == Save \o Rest
  <1>1. /\ TypeOK /\ todo # <<>> /\ Top.op = "add" /\ Top.op \in Arrivals
        /\ t \in Timers \ Known /\ UNCHANGED <<dialog, file>>
        /\ entry[t] \in Entries
    BY AddRecordArrives, TypeParts DEF Typed, Arrivals
  <1>2. /\ Rest \in Seq(Frames) /\ NoRearm(Rest) /\ ~GoesDown /\ Orderly(Rest)
        /\ Members(todo) = {Top} \cup Members(Rest)
    BY <1>1, BelowArrival, OrderlyRest, StackMembers DEF SavedInv
  <1>3. CASE /\ Renews(t, entry[t]) /\ Known' = Known \cup {t} /\ Resumes(k)
    <2>1. /\ k \in Seq(Frames) /\ Orderly(k) /\ Writes(k)
          /\ Members(k) = Members(Save) \cup Members(Rest)
      BY <1>2, SavePushed, SaveOrderly
    <2>2. /\ \A g \in Members(k) :
               g \in Members(Rest) \/ g.op \in {"save", "write", "load"}
          /\ Members(Rest) \subseteq Members(k)
      BY <2>1, SaveMembers
    <2>3. Sound(entry[t])
      BY <1>1 DEF SavedInv, SoundEntries
    <2> HIDE DEF k, t
    <2> QED BY <1>1, <1>3, <2>1, <2>2, <2>3, ArrivesSaved
  <1>4. CASE /\ entry' = [entry EXCEPT ![t] = Blank] /\ todo' = Rest
             /\ UNCHANGED <<timer_list, processed_timers>>
    <2>1. /\ SoundEntries'
          /\ \A u \in Timers : entry'[u] = IF u = t THEN Blank ELSE entry[u]
      BY <1>1, <1>4, BlankSound, OneSound DEF SavedInv
    <2>2. Alive = Known /\ Alive' = Known /\ Known \subseteq Timers
      BY <1>1, <1>4, ReturnAlive, TypeParts
    <2>3. TargetsAlive'
      <3>1. Targets(todo', dialog') \subseteq Targets(todo, dialog)
        BY <1>1, <1>2, <1>4 DEF Targets
      <3> QED BY <1>2, <2>2, <3>1, SavedUp DEF TargetsAlive
    <2>4. RemovesAlone'
      BY <1>1, <1>2, <1>4 DEF SavedInv, RemovesAlone
    <2>5. Covers'
      <3>1. CASE Writes(todo)
        BY <1>1, <1>2, <1>4, <3>1 DEF Covers, Writes
      <3>2. CASE \A u \in Alive : Covered(entry[u], u, file.timers)
        BY <1>1, <2>1, <2>2, <3>2 DEF Covers
      <3> QED BY <1>2, <3>1, <3>2, SavedUp
    <2>6. SoundFile'
      BY <1>1 DEF SavedInv, SoundFile
    <2> QED BY <1>2, <1>4, <2>1, <2>3, <2>4, <2>5, <2>6 DEF SavedInv
  <1> QED BY <1>3, <1>4, AddRecordArrives

LEMMA RemoveProcessedSaved ==
    ASSUME Typed, ListsInv, BootIsLast, SavedInv, RemoveProcessed
    PROVE  SavedInv'
  <1> DEFINE t == Top.t
  <1>1. /\ TypeOK /\ todo # <<>> /\ Top.op = "remove" /\ t \in Timers
        /\ processed_timers \in Seq(Timers) /\ NoDuplicates(processed_timers)
        /\ UNCHANGED <<dialog, file>>
    BY TopOfKind DEF Typed, RemoveProcessed, In, TypeOK, ListsInv,
                     ListsConsistent
  <1>2. /\ Rest \in Seq(Frames) /\ NoRearm(Rest) /\ Orderly(Rest)
        /\ Members(todo) = {Top} \cup Members(Rest)
    BY <1>1, RestWithoutRearm, OrderlyRest, StackMembers DEF SavedInv
  <1>3. ~GoesDown /\ Alive = Known
    BY <1>1, StaysUp, NotRearming DEF Alone, In
  <1>4. CASE todo' = <<BootFrame>> /\ UNCHANGED entry
    BY <1>1, <1>4, BootsSaved DEF Boots
  <1>5. CASE /\ t \in Members(processed_timers)
             /\ processed_timers' = RemoveTimer(processed_timers, t)
             /\ entry' = [entry EXCEPT ![t] = Blank] /\ todo' = Rest
             /\ UNCHANGED timer_list
    <2>1. /\ SoundEntries'
          /\ \A u \in Timers : entry'[u] = IF u = t THEN Blank ELSE entry[u]
      BY <1>1, <1>5, BlankSound, OneSound DEF SavedInv
    <2>2. /\ Members(processed_timers') = Members(processed_timers) \ {t}
          /\ Known \subseteq Timers
      BY <1>1, <1>5, RemoveTimerMembers, TypeParts
    <2>3. Alive' \subseteq Known
      <3>1. Alive' = Known'
        BY <1>2, <1>5, ResumesWithoutRearm DEF Resumes
      <3> QED BY <1>5, <2>2, <3>1 DEF Known
    <2>4. dialog.kind = "none" /\ \A g \in Members(todo) : g.op \notin Answered
      BY <1>1, <1>2 DEF SavedInv, RemovesAlone
    <2>5. TargetsAlive' /\ RemovesAlone'
      BY <1>1, <1>2, <1>5, <2>4 DEF TargetsAlive, Targets, RemovesAlone
    <2>6. Covers'
      <3>1. CASE Writes(todo)
        BY <1>1, <1>2, <1>5, <3>1 DEF Covers, Writes
      <3>2. CASE \A u \in Alive : Covered(entry[u], u, file.timers)
        <4>1. t \notin Alive'
          <5>1. t \notin Members(timer_list)
            BY <1>5 DEF ListsInv, ListsConsistent
          <5>2. Alive' = Known'
            BY <1>2, <1>5, ResumesWithoutRearm DEF Resumes
          <5> QED BY <1>5, <2>2, <5>1, <5>2 DEF Known
        <4> QED BY <1>1, <1>3, <2>1, <2>2, <2>3, <3>2, <4>1 DEF Covers
      <3> QED BY <1>3, <3>1, <3>2, SavedUp
    <2>7. SoundFile'
      BY <1>1 DEF SavedInv, SoundFile
    <2> QED BY <1>2, <1>5, <2>1, <2>5, <2>6, <2>7 DEF SavedInv
  <1> QED BY <1>1, <1>4, <1>5 DEF RemoveProcessed

LEMMA HandlerSaved ==
    ASSUME Typed, ListsInv, BootIsLast, SavedInv, "start" \notin Faults,
           "retry" \notin UserOps, Handler
    PROVE  SavedInv'
  <1>1. ASSUME Fatal PROVE SavedInv'
    BY <1>1, BootsSaved DEF Fatal, Boots
  <1> QED BY <1>1, HandlerGoes, GoesSaved, FileSaved, BootSaved,
             LoadTimerSaved, AddRecordSaved, RemoveProcessedSaved

-----------------------------------------------------------------------------
(***************************************************************************)
(* What the user does.                                                     *)
(***************************************************************************)

LEMMA IdleSaved ==
    ASSUME Idle, SavedInv
    PROVE  /\ ~GoesDown /\ Alive = Known /\ SoundEntries /\ SoundFile
           /\ \A t \in Known : Covered(entry[t], t, file.timers)
           /\ dialog.kind # "none" /\ dialog.t \in Timers => dialog.t \in Known
  <1>1. Members(todo) = {}
    BY MembersEmpty DEF Idle
  <1>2. ~GoesDown /\ ~Writes(todo)
    BY <1>1 DEF GoesDown, Writes
  <1>3. Alive = Known
    BY NotRearming DEF In, Idle
  <1> QED BY <1>2, <1>3, TargetsMember DEF SavedInv, TargetsAlive, Covers

\* What a key leaves.
LEMMA KeySaved ==
    ASSUME TypeOK', Unbooted(todo'), Orderly(todo'), SoundEntries',
           SoundFile', Targets(todo', dialog') \subseteq Known', RemovesAlone',
           Writes(todo')
             \/ \A t \in Known' : Covered(entry'[t], t, file'.timers)
    PROVE  SavedInv'
  <1>1. Alive' = Known'
    <2>1. todo' \in Seq(Frames)
      BY DEF TypeOK
    <2>2. NoRearm(todo') /\ Resumes(todo')
      BY DEF NoRearm, Unbooted, Resumes
    <2> QED BY <2>1, <2>2, ResumesWithoutRearm
  <1> QED BY <1>1 DEF SavedInv, TargetsAlive, Covers

\* No call is about a screen, and none removes a timer.
Unasked(stack) == \A f \in Members(stack) : f.op \notin Answered \cup {"remove"}

LEMMA UnaskedScreen ==
    ASSUME Unasked(todo'), dialog'.kind = "none" \/ dialog'.t \in Known'
    PROVE  Targets(todo', dialog') \subseteq Known' /\ RemovesAlone'
  BY DEF Unasked, Targets, RemovesAlone

LEMMA UnaskedCalls == Unasked(<<>>) /\ Unasked(Save) /\ Unasked(<<Calc>>)
  <1>1. Members(<<Calc>>) = {Calc}
    BY CalcCall, SingletonMembers
  <1> QED BY <1>1, MembersEmpty, SaveMembers, CalcCall DEF Unasked, Answered

LEMMA OrderlyEmpty == Orderly(<<>>) /\ <<>> \in Seq(Frames)
  BY MembersEmpty, OrderlyCalls

\* A timer is enqueued again.
LEMMA KeyTimeChangeSaved ==
    ASSUME Typed, ListsInv, SavedInv, Idle, NEW t \in Known,
           NEW e \in Entries, e.state = entry[t].state, Sound(e),
           NEW k \in Seq(Frames), Unbooted(k), Orderly(k),
           Kept(e, entry[t]) \/ Writes(k), TimerTimeChanged(t, e, k),
           UNCHANGED file, dialog'.kind = "none" \/ dialog'.t \in Known,
           \A f \in Members(k) : f.op \notin Answered,
           Unasked(k) \/ dialog'.kind = "none"
    PROVE  SavedInv'
  <1>1. t \in Timers /\ TypeOK /\ TypeOK' /\ Known \subseteq Timers
    BY TypeParts DEF Typed
  <1>2. Known' = Known /\ Resumes(k)
    <2>1. Known' = Known \cup {t} /\ Resumes(k)
      BY <1>1, TypeParts, TimerTimeChangedLists DEF ListsInv
    <2> QED BY <2>1
  <1>3. PICK x \in Entries : Kept(x, e) /\ entry' = [entry EXCEPT ![t] = x]
    BY TimerTimeChangedRenews DEF Renews
  <1>4. Sound(x)
    BY <1>3, KeptSound
  <1>5. /\ SoundEntries' /\ SoundFile'
        /\ \A u \in Timers : entry'[u] = IF u = t THEN x ELSE entry[u]
    <2>1. SoundEntries /\ SoundFile
      BY DEF SavedInv
    <2> QED BY <1>1, <1>3, <1>4, <2>1, OneSound DEF SoundFile
  <1>6. /\ \/ Members(todo') = Members(k)
           \/ Members(todo') = {Calc} \cup Members(k)
        /\ Orderly(todo')
    <2>1. Members(<<Calc>> \o k) = {Calc} \cup Members(k)
      BY CalcCall, MembersPush
    <2>2. Orderly(<<Calc>> \o k)
      BY CalcCall, OrderlyPush
    <2> QED BY <1>2, <2>1, <2>2 DEF Resumes
  <1>7. Unbooted(todo')
    BY <1>6, CalcCall DEF Unbooted
  <1>8. Targets(todo', dialog') \subseteq Known'
    <2>1. \A f \in Members(todo') : f.op \notin Answered
      BY <1>6, CalcCall DEF Answered
    <2> QED BY <1>2, <2>1 DEF Targets
  <1>9. RemovesAlone'
    <2>1. \A f \in Members(todo') : f.op \notin Answered
      BY <1>6, CalcCall DEF Answered
    <2>2. CASE dialog'.kind = "none"
      BY <2>1, <2>2 DEF RemovesAlone
    <2>3. CASE Unasked(k)
      BY <1>6, <2>3, CalcCall DEF RemovesAlone, Unasked
    <2> QED BY <2>2, <2>3
  <1>10. \/ Writes(todo')
         \/ \A u \in Known' : Covered(entry'[u], u, file'.timers)
    <2>1. CASE Writes(k)
      BY <1>6, <2>1 DEF Writes
    <2>2. CASE Kept(e, entry[t])
      <3>1. Kept(x, entry[t]) /\ Sound(entry[t]) /\ entry[t] \in Entries
        BY <1>1, <1>3, <2>2, KeptTransitive, TypeParts
           DEF SavedInv, SoundEntries
      <3>2. \A u \in Known : Covered(entry[u], u, file.timers)
        BY IdleSaved
      <3>3. Covered(x, t, file.timers)
        BY <3>1, <3>2, KeptCovered
      <3> QED BY <1>1, <1>2, <1>5, <3>2, <3>3
    <2> QED BY <2>1, <2>2
  <1> QED BY <1>1, <1>5, <1>6, <1>7, <1>8, <1>9, <1>10, KeySaved

LEMMA EnteredSaved ==
    ASSUME Typed, ListsInv, SavedInv, InOrderTemplates, NEW t \in Timers,
           Record(t) \/ InstantRecord(t)
    PROVE  SavedInv'
  <1> DEFINE add == Frame("add", t, 0, <<>>)
  <1>1. /\ TypeOK /\ TypeOK' /\ Idle /\ t \notin Known /\ dialog = NoDialog
        /\ Known \subseteq Timers /\ now \in Int
        /\ UNCHANGED <<timer_list, processed_timers, dialog, file>>
    BY TypeParts DEF Typed, Record, InstantRecord, UserTurn, TypeOK
  <1>2. add \in Frames /\ add.op = "add"
    <2>1. 0 \in Int
      OBVIOUS
    <2> QED BY <2>1, FrameType DEF Frame
  <1>3. \E e : Sound(e) /\ entry' = [entry EXCEPT ![t] = e]
    <2>1. CASE Record(t)
      <3>1. PICK new \in Templates :
              entry' = [entry EXCEPT ![t] =
                NewEntry(new.begin, new.end, new.repeated, FALSE, new.justplay)]
        BY <2>1 DEF Record
      <3>2. new.begin \in Int /\ new.end \in Int
        BY TimerAssumption DEF TemplateType
      <3> QED BY <3>1, <3>2, NewEntrySound
    <2>2. CASE InstantRecord(t)
      <3>1. PICK end \in AutoEnds :
              entry' = [entry EXCEPT ![t] =
                [NewEntry(now, end, {}, FALSE, FALSE) EXCEPT
                   !.dontSave = TRUE,
                   !.autoincrease = (end = now + AutoIncrease)]]
        BY <2>2 DEF InstantRecord
      <3>2. [NewEntry(now, end, {}, FALSE, FALSE) EXCEPT
                   !.dontSave = TRUE,
                   !.autoincrease = (end = now + AutoIncrease)].dontSave
        BY DEF NewEntry, ResetState, TimeChanged
      <3> QED BY <3>1, <3>2 DEF Sound
    <2> QED BY <2>1, <2>2
  <1>4. PICK e : Sound(e) /\ entry' = [entry EXCEPT ![t] = e]
    BY <1>3
  <1>5. todo' = <<add>> \/ \E begin : Shorten(begin, add)
    BY DEF Record, InstantRecord
  <1> HIDE DEF add
  <1>6. /\ Unbooted(todo')
        /\ \A f \in Members(todo') : f.op \in {"add", "limit"}
    BY <1>2, <1>5, ShortenOnly, ShortenUnbooted
  <1>7. Orderly(todo') /\ Unasked(todo')
    BY <1>6, OrderlyCalls DEF Unasked, Answered
  <1>8. /\ SoundEntries' /\ SoundFile'
        /\ \A u \in Timers : entry'[u] = IF u = t THEN e ELSE entry[u]
    <2>1. SoundEntries /\ SoundFile
      BY DEF SavedInv
    <2> QED BY <1>1, <1>4, <2>1, OneSound DEF SoundFile
  <1>9. \A u \in Known' : Covered(entry'[u], u, file'.timers)
    BY <1>1, <1>8, IdleSaved DEF Known
  <1>10. dialog'.kind = "none"
    BY <1>1 DEF NoDialog
  <1> QED BY <1>1, <1>6, <1>7, <1>8, <1>9, <1>10, UnaskedScreen, KeySaved

LEMMA RemoveCallsSaved ==
    ASSUME NEW t \in Timers, NEW k, RemoveCalls(t, k)
    PROVE  Orderly(k) /\ Writes(k)
  <1> DEFINE remove == Frame("remove", t, 0, <<>>)
             extend == Frame("extend", NoTimer, 1, <<>>)
  <1>1. /\ remove \in Frames /\ remove.op = "remove"
        /\ extend \in Frames /\ extend.op = "extend"
    <2>1. 0 \in Int /\ 1 \in Nat \ {0}
      OBVIOUS
    <2> QED BY <2>1, FrameType DEF Frame
  <1>2. k = <<remove>> \o Save \/ k = <<extend>> \o (<<remove>> \o Save)
    BY DEF RemoveCalls
  <1> HIDE DEF remove, extend
  <1> DEFINE r == <<remove>> \o Save
  <1>3. /\ r \in Seq(Frames) /\ Orderly(r)
        /\ Members(r) = {remove} \cup Members(Save)
    BY <1>1, SaveAlone, OrderlyPush, PushType, MembersPush
  <1>4. Writes(r)
    BY <1>3, SaveAlone DEF Writes
  <1>5. k = r \/ k = <<extend>> \o r
    BY <1>2
  <1> HIDE DEF r
  <1>6. /\ Orderly(<<extend>> \o r)
        /\ Members(<<extend>> \o r) = {extend} \cup Members(r)
    BY <1>1, <1>3, OrderlyPush, MembersPush
  <1> QED BY <1>3, <1>4, <1>5, <1>6 DEF Writes

LEMMA RemoveEntrySaved ==
    ASSUME Typed, ListsInv, SavedInv, NEW t \in Timers, RemoveEntry(t)
    PROVE  SavedInv'
  <1> DEFINE e == Abort(Withdraw(entry[t]), now)
  <1>1. TypeOK /\ TypeOK' /\ UNCHANGED <<dialog, file>> /\ dialog = NoDialog
    BY DEF Typed, RemoveEntry, UserTurn
  <1>2. PICK k : /\ RemoveCalls(t, k)
                 /\ \/ TimerTimeChanged(t, e, k)
                    \/ /\ todo' = k /\ entry' = [entry EXCEPT ![t] = e]
                       /\ UNCHANGED <<timer_list, processed_timers>>
    BY <1>1, RemoveEntryCalls
  <1>3. /\ Idle /\ t \in Known /\ e \in Entries /\ e.state = entry[t].state
    BY <1>1, RemoveEntryCalls
  <1>4. Sound(e)
    <2>1. entry[t] \in Entries /\ now \in Int
      BY <1>1, TypeParts DEF TypeOK
    <2>2. e.autoincrease = FALSE /\ e.begin <= e.end
      BY <2>1 DEF Abort, Withdraw, Entries
    <2> QED BY <2>2 DEF Sound
  <1> HIDE DEF e
  <1>5. /\ k \in Seq(Frames) /\ Unbooted(k)
        /\ \A f \in Members(k) : f.op \notin Answered
    BY <1>2, RemoveCallsType DEF Unbooted, RemoveOps, Answered
  <1>6. Orderly(k) /\ Writes(k)
    BY <1>2, RemoveCallsSaved
  <1>7. dialog'.kind = "none"
    BY <1>1 DEF NoDialog
  <1>8. CASE TimerTimeChanged(t, e, k)
    BY <1>1, <1>3, <1>4, <1>5, <1>6, <1>7, <1>8, KeyTimeChangeSaved
  <1>9. CASE /\ todo' = k /\ entry' = [entry EXCEPT ![t] = e]
             /\ UNCHANGED <<timer_list, processed_timers>>
    <2>1. SoundEntries' /\ SoundFile'
      <3>1. SoundEntries /\ SoundFile
        BY DEF SavedInv
      <3> QED BY <1>1, <1>4, <1>9, <3>1, OneSound DEF SoundFile
    <2>2. Targets(todo', dialog') \subseteq Known' /\ RemovesAlone'
      BY <1>5, <1>7, <1>9 DEF Targets, RemovesAlone
    <2> QED BY <1>1, <1>5, <1>6, <1>9, <2>1, <2>2, KeySaved
  <1> QED BY <1>2, <1>8, <1>9

LEMMA TimeChangingSaved ==
    ASSUME Typed, ListsInv, SavedInv, NEW t \in Timers,
           SetEnd(t) \/ ToggleDisabledState(t)
    PROVE  SavedInv'
  <1>1. Idle /\ t \in Known /\ dialog = NoDialog /\ UNCHANGED file
    BY DEF SetEnd, ToggleDisabledState, UserTurn
  <1>2. PICK e \in Entries : /\ e.state = entry[t].state /\ Kept(e, entry[t])
                             /\ TimerTimeChanged(t, e, <<>>)
    BY SetEndKept, ToggleKept
  <1>3. Sound(e)
    <2>1. entry[t] \in Entries
      BY TypeParts DEF Typed
    <2> QED BY <1>2, <2>1, KeptSound DEF SavedInv, SoundEntries
  <1>4. dialog'.kind = "none" \/ dialog'.t \in Known
    <2>1. CASE UNCHANGED dialog \/ dialog' = NoDialog
      BY <1>1, <2>1 DEF NoDialog
    <2>2. ASSUME NEW kind, NEW u \in FirstInConflict(t) \cup {t},
                 dialog' = Open(kind, u)
          PROVE  dialog'.t \in Known
      BY <1>1, <2>2 DEF Open, FirstInConflict, Known
    <2>3. \/ UNCHANGED dialog \/ dialog' = NoDialog
          \/ \E u \in FirstInConflict(t) \cup {t} :
               dialog' = Open("conflict", u) \/ dialog' = Open("choice", u)
      BY DEF SetEnd, ToggleDisabledState
    <2> QED BY <2>1, <2>2, <2>3
  <1>5. /\ Unbooted(<<>>) /\ Orderly(<<>>) /\ <<>> \in Seq(Frames)
        /\ Unasked(<<>>) /\ \A f \in Members(<<>>) : f.op \notin Answered
    BY NoCalls, OrderlyEmpty, UnaskedCalls, MembersEmpty
  <1> DEFINE k == <<>>
  <1>6. /\ Unbooted(k) /\ Orderly(k) /\ k \in Seq(Frames) /\ Unasked(k)
        /\ (\A f \in Members(k) : f.op \notin Answered)
        /\ TimerTimeChanged(t, e, k)
    BY <1>2, <1>5
  <1> HIDE DEF k
  <1> QED BY <1>1, <1>2, <1>3, <1>4, <1>6, KeyTimeChangeSaved

\* keyGo saves at once.
LEMMA KeyGoSaved ==
    ASSUME Typed, SavedInv, InOrderTemplates, NEW t \in Timers, KeyGo(t),
           dialog'.t \in Known
    PROVE  SavedInv'
  <1>1. /\ TypeOK /\ TypeOK' /\ todo' = Save
        /\ UNCHANGED <<timer_list, processed_timers, file>>
        /\ SoundEntries /\ SoundFile
    BY DEF Typed, KeyGo, SavedInv
  <1>2. PICK new \in Templates :
          /\ entry'[t].begin = new.begin /\ entry'[t].end = new.end
          /\ entry'[t].repeated = new.repeated
          /\ entry'[t].dontSave = entry[t].dontSave
          /\ entry'[t].autoincrease = entry[t].autoincrease
    BY <1>1, KeyGoEntries
  <1>3. Sound(entry'[t])
    BY <1>1, <1>2 DEF Sound, SoundEntries, InOrderTemplates
  <1>4. SoundEntries' /\ SoundFile'
    <2>1. \A u \in Timers \ {t} : entry'[u] = entry[u]
      BY <1>1, KeyGoEntries
    <2> QED BY <1>1, <1>3, <2>1 DEF SoundEntries, SoundFile
  <1>5. Unbooted(todo') /\ Orderly(todo') /\ Writes(todo') /\ Unasked(todo')
    BY <1>1, SaveMembers, SaveAlone, UnaskedCalls DEF Unbooted
  <1>6. dialog'.t \in Known'
    BY <1>1 DEF Known
  <1> QED BY <1>1, <1>4, <1>5, <1>6, UnaskedScreen, KeySaved

\* Of a list of conflicts, x is known.
LEMMA ConflictKnown ==
    ASSUME Typed, ListsInv, SavedInv, NEW x \in Timers, OnConflict(x)
    PROVE  /\ Idle /\ x \in Known /\ dialog.kind # "none"
           /\ dialog.t \in Known /\ dialog'.t = dialog.t
  <1>1. TypeOK /\ Idle /\ dialog.kind \in {"conflict", "refused"}
    BY DEF Typed, OnConflict
  <1>2. dialog.t \in Timers
    BY <1>1, TypeParts
  <1>3. dialog.t \in Known
    BY <1>1, <1>2, IdleSaved
  <1> QED BY <1>1, <1>3 DEF OnConflict, Open, Known

LEMMA EditSaved ==
    ASSUME Typed, ListsInv, SavedInv, InOrderTemplates, NEW t \in Timers,
           EditTimer(t) \/ EditConflict(t)
    PROVE  SavedInv'
  <1>1. KeyGo(t)
    BY DEF EditTimer, EditConflict
  <1>2. dialog'.t \in Known
    <2>1. CASE EditTimer(t)
      BY <2>1 DEF EditTimer, Open
    <2>2. CASE EditConflict(t)
      BY <2>2, ConflictKnown DEF EditConflict
    <2> QED BY <2>1, <2>2
  <1> QED BY <1>1, <1>2, KeyGoSaved

\* The entries keep what is saved, and the lists stay.
LEMMA ListsStaySaved ==
    ASSUME Typed, Idle, SavedInv, AllKept,
           UNCHANGED <<timer_list, processed_timers, file>>,
           Unbooted(todo'), Orderly(todo'), RemovesAlone',
           Targets(todo', dialog') \subseteq Known
    PROVE  SavedInv'
  <1>1. /\ TypeOK /\ TypeOK' /\ Known' = Known /\ Known \subseteq Timers
    BY TypeParts DEF Typed, Known
  <1>2. /\ SoundEntries' /\ SoundFile'
        /\ \A t \in Timers : Covered(entry[t], t, file.timers)
                => Covered(entry'[t], t, file.timers)
    BY AllKeptSaved
  <1>3. \A t \in Known' : Covered(entry'[t], t, file'.timers)
    BY <1>1, <1>2, IdleSaved
  <1> QED BY <1>1, <1>2, <1>3, KeySaved

LEMMA ToggleConflictSaved ==
    ASSUME Typed, ListsInv, SavedInv, NEW x \in Timers, ToggleConflict(x)
    PROVE  SavedInv'
  <1>1. /\ TypeOK /\ entry[x] \in Entries
        /\ UNCHANGED <<timer_list, processed_timers, todo, file>>
        /\ entry' = [entry EXCEPT ![x].disabled = ~@] /\ OnConflict(x)
    BY TypeParts DEF Typed, ToggleConflict
  <1>2. Idle /\ dialog'.t \in Known /\ todo' = <<>>
    BY <1>1, ConflictKnown DEF Idle
  <1>3. AllKept
    <2> DEFINE Toggled(disabled) == [entry[x] EXCEPT !.disabled = disabled]
    <2>1. ASSUME NEW disabled \in BOOLEAN
          PROVE  Kept(Toggled(disabled), entry[x])
      BY <1>1, DisabledKept
    <2>2. (~entry[x].disabled) \in BOOLEAN
      OBVIOUS
    <2>3. /\ \A u \in Timers \ {x} : entry'[u] = entry[u]
          /\ entry'[x] = Toggled(~entry[x].disabled)
      BY <1>1 DEF TypeOK
    <2> HIDE DEF Toggled
    <2> QED BY <2>1, <2>2, <2>3, KeptReflexive DEF AllKept
  <1>4. Unbooted(todo') /\ Orderly(todo') /\ Unasked(todo')
    BY <1>2, NoCalls, OrderlyEmpty, UnaskedCalls
  <1>5. Targets(todo', dialog') \subseteq Known' /\ RemovesAlone'
    <2>1. dialog'.t \in Known'
      BY <1>1, <1>2 DEF Known
    <2> QED BY <1>4, <2>1, UnaskedScreen
  <1>6. Known' = Known
    BY <1>1 DEF Known
  <1> QED BY <1>1, <1>2, <1>3, <1>4, <1>5, <1>6, ListsStaySaved

LEMMA CleanupSaved ==
    ASSUME Typed, ListsInv, SavedInv, Cleanup
    PROVE  SavedInv'
  <1>1. /\ TypeOK /\ TypeOK' /\ Idle /\ todo' = <<>> /\ dialog = NoDialog
        /\ UNCHANGED <<timer_list, dialog, file>>
        /\ processed_timers \in Seq(Timers) /\ Known \subseteq Timers
    BY TypeParts DEF Typed, Cleanup, UserTurn, Idle, TypeOK
  <1> DEFINE keep == {t \in Timers : entry[t].disabled}
  <1>2. Members(processed_timers') \subseteq Members(processed_timers) \cap keep
    BY <1>1, SelectionsOnly DEF Cleanup
  <1>3. \A u \in Timers :
          entry'[u] = IF u \in Members(processed_timers) /\ ~entry[u].disabled
                      THEN Blank ELSE entry[u]
    BY DEF Cleanup
  <1>4. SoundEntries' /\ SoundFile'
    <2>1. SoundEntries /\ SoundFile
      BY DEF SavedInv
    <2> QED BY <1>1, <1>3, <2>1, BlankSound DEF SoundEntries, SoundFile
  <1>5. \A u \in Known' : Covered(entry'[u], u, file'.timers)
    <2>1. ASSUME NEW u \in Known'
          PROVE  u \in Known /\ entry'[u] = entry[u]
      <3>1. CASE u \in Members(processed_timers')
        BY <1>1, <1>2, <1>3, <3>1 DEF Known
      <3>2. CASE u \in Members(timer_list)
        <4>1. u \notin Members(processed_timers)
          BY <3>2 DEF ListsInv, ListsConsistent
        <4> QED BY <1>1, <1>3, <3>2, <4>1 DEF Known
      <3> QED BY <1>1, <3>1, <3>2 DEF Known
    <2> QED BY <1>1, <2>1, IdleSaved
  <1>6. Unbooted(todo') /\ Orderly(todo') /\ Unasked(todo')
    BY <1>1, NoCalls, OrderlyEmpty, UnaskedCalls
  <1>7. dialog'.kind = "none"
    BY <1>1 DEF NoDialog
  <1> QED BY <1>1, <1>4, <1>5, <1>6, <1>7, UnaskedScreen, KeySaved

LEMMA ShutdownSaved ==
    ASSUME SavedInv, Shutdown
    PROVE  SavedInv'
  <1>1. /\ todo' = Save \o <<BootFrame>>
        /\ UNCHANGED <<entry, file>>
    BY DEF Shutdown
  <1>2. BootFrame \in Frames /\ BootFrame.op = "boot"
    BY FrameType DEF BootFrame, Frame
  <1>3. /\ <<BootFrame>> \in Seq(Frames) /\ Members(<<BootFrame>>) = {BootFrame}
        /\ Orderly(<<BootFrame>>)
    BY <1>2, SingletonMembers, SeqFacts, OrderlyCalls
  <1>4. Members(todo') = Members(Save) \cup {BootFrame} /\ Orderly(todo')
    BY <1>1, <1>3, SavePushed, SaveOrderly
  <1>5. GoesDown' /\ RemovesAlone'
    BY <1>2, <1>4, SaveMembers DEF GoesDown, RemovesAlone
  <1> QED BY <1>1, <1>4, <1>5 DEF SavedInv, SoundEntries, SoundFile,
          TargetsAlive, Covers

LEMMA FinishEditSaved ==
    ASSUME Typed, SavedInv, FinishEdit
    PROVE  SavedInv'
  <1> DEFINE edited == Frame("edited", dialog.t, 0, <<>>)
  <1>1. /\ TypeOK /\ Idle /\ dialog.kind \in {"edited", "conflict"}
        /\ UNCHANGED <<entry, timer_list, processed_timers, file>>
        /\ dialog' = NoDialog
    BY DEF Typed, FinishEdit
  <1>2. dialog.t \in Timers /\ dialog.t \in Known
    BY <1>1, TypeParts, IdleSaved
  <1>3. edited \in Frames /\ edited.op = "edited" /\ edited.t = dialog.t
    <2>1. 0 \in Int
      OBVIOUS
    <2> QED BY <1>2, <2>1, FrameType DEF Frame
  <1>4. \E begin : Shorten(begin, edited)
    BY DEF FinishEdit
  <1> HIDE DEF edited
  <1>5. /\ Unbooted(todo')
        /\ \A f \in Members(todo') : f = edited \/ f.op = "limit"
    BY <1>3, <1>4, ShortenOnly, ShortenUnbooted
  <1>6. Orderly(todo') /\ RemovesAlone'
    BY <1>3, <1>5, OrderlyCalls DEF RemovesAlone
  <1>7. Targets(todo', dialog') \subseteq Known
    BY <1>1, <1>2, <1>3, <1>5 DEF Targets, NoDialog, Answered
  <1> QED BY <1>1, <1>5, <1>6, <1>7, SameAllKept, ListsStaySaved

LEMMA AbandonSaved ==
    ASSUME Typed, SavedInv, Abandon
    PROVE  SavedInv'
  <1>1. /\ TypeOK /\ Idle /\ todo' = <<>> /\ dialog' = NoDialog
        /\ dialog.t \in Timers /\ dialog.kind # "none"
        /\ UNCHANGED <<timer_list, processed_timers, file>>
    BY TypeParts DEF Typed, Abandon, Idle
  <1>2. UNCHANGED entry
    BY <1>1, IdleSaved DEF Abandon
  <1>3. Unbooted(todo') /\ Orderly(todo') /\ Unasked(todo')
    BY <1>1, NoCalls, OrderlyEmpty, UnaskedCalls
  <1>4. dialog'.kind = "none"
    BY <1>1 DEF NoDialog
  <1>5. Known' = Known
    BY <1>1 DEF Known
  <1> QED BY <1>1, <1>2, <1>3, <1>4, <1>5, UnaskedScreen, SameAllKept,
             ListsStaySaved

LEMMA RunningEventCallbackSaved ==
    ASSUME Typed, SavedInv, RunningEventCallback
    PROVE  SavedInv'
  <1>1. /\ Idle /\ dialog.t \in Timers /\ dialog.kind = "choice" /\ AllKept
        /\ UNCHANGED <<timer_list, processed_timers, file>>
        /\ dialog' = NoDialog
        /\ \A f \in Members(todo') :
             f.op \in {"activate", "retime"} /\ f.t = dialog.t
    BY RunningEventCallbackKept
  <1>2. dialog.t \in Known
    BY <1>1, IdleSaved
  <1>3. Unbooted(todo') /\ Orderly(todo') /\ RemovesAlone'
    BY <1>1, OrderlyCalls DEF Unbooted, RemovesAlone
  <1>4. Targets(todo', dialog') \subseteq Known
    BY <1>1, <1>2 DEF Targets, NoDialog
  <1> QED BY <1>1, <1>3, <1>4, ListsStaySaved

LEMMA TimeoutSaved ==
    ASSUME Typed, SavedInv, Timeout
    PROVE  SavedInv'
  <1>1. /\ Idle /\ todo' = <<Calc>>
        /\ UNCHANGED <<entry, timer_list, processed_timers, dialog, file>>
        /\ TypeOK
    BY DEF Timeout, Typed
  <1>2. Unbooted(todo') /\ Unasked(todo')
    BY <1>1, CalcCall, OneCall, UnaskedCalls
  <1>3. Orderly(todo')
    BY <1>1, CalcCall, SingletonMembers, OrderlyCalls
  <1>4. dialog'.kind = "none" \/ dialog'.t \in Known'
    <2>1. dialog.kind = "none" \/ dialog.t \in Timers
      BY <1>1, TypeParts DEF TypeOK
    <2> QED BY <1>1, <2>1, IdleSaved DEF Known
  <1>5. Known' = Known
    BY <1>1 DEF Known
  <1> QED BY <1>1, <1>2, <1>3, <1>4, <1>5, UnaskedScreen, SameAllKept,
             ListsStaySaved

\* Nothing but the clock, the eTimer or the budget changes.
LEMMA ClockSaved ==
    ASSUME SavedInv, UNCHANGED <<listVars, dialog, file>>
    PROVE  SavedInv'
  <1>1. UNCHANGED <<entry, timer_list, processed_timers, todo>>
    BY DEF listVars
  <1>2. Alive' = Alive
    BY <1>1 DEF Alive, Known, Pending, In, Top
  <1>3. (GoesDown' <=> GoesDown) /\ (RemovesAlone' <=> RemovesAlone)
    BY <1>1 DEF GoesDown, RemovesAlone
  <1> QED BY <1>1, <1>2, <1>3 DEF SavedInv, SoundEntries, SoundFile,
          TargetsAlive, Covers

LEMMA UserSaved ==
    ASSUME Typed, ListsInv, SavedInv, InOrderTemplates, User
    PROVE  SavedInv'
  <1>1. ASSUME NEW t \in Timers,
               \/ Record(t) \/ InstantRecord(t) \/ RemoveEntry(t) \/ SetEnd(t)
               \/ EditTimer(t) \/ ToggleDisabledState(t) \/ ToggleConflict(t)
               \/ EditConflict(t)
        PROVE  SavedInv'
    BY <1>1, EnteredSaved, RemoveEntrySaved, TimeChangingSaved, EditSaved,
       ToggleConflictSaved
  <1>2. ASSUME Cleanup \/ Shutdown \/ FinishEdit \/ Abandon
                 \/ RunningEventCallback
        PROVE  SavedInv'
    BY <1>2, CleanupSaved, ShutdownSaved, FinishEditSaved, AbandonSaved,
       RunningEventCallbackSaved
  <1> QED BY <1>1, <1>2, NoRetryRecord DEF User

LEMMA NextSaved ==
    ASSUME Typed, ListsInv, BootIsLast, SavedInv, InOrderTemplates,
           "start" \notin Faults, "retry" \notin UserOps, [Next]_vars
    PROVE  SavedInv'
  <1>1. ASSUME Tick \/ SetClock \/ UNCHANGED vars PROVE SavedInv'
    <2>1. UNCHANGED <<listVars, dialog, file>>
      BY <1>1 DEF Tick, SetClock, vars
    <2> QED BY <2>1, ClockSaved
  <1>2. ASSUME Crash PROVE SavedInv'
    BY <1>2, BootsSaved DEF Crash, Boots
  <1> QED BY <1>1, <1>2, HandlerSaved, UserSaved, TimeoutSaved DEF Next

\* The keys on a list of conflicts, too, leave no calls of their own but those
\* that save.
LEMMA ConflictClaimed ==
    ASSUME Typed, ListsInv, Claimed, SavedInv, NEW x \in Timers,
           ToggleConflict(x) \/ EditConflict(x)
    PROVE  BootIsLast' /\ Claimed'
  <1>1. /\ TypeOK /\ TypeOK' /\ OnConflict(x)
        /\ UNCHANGED <<timer_list, processed_timers>>
    BY DEF Typed, ToggleConflict, EditConflict, KeyGo
  <1>2. Idle /\ x \in Known
    BY <1>1, ConflictKnown
  <1>3. Unbooted(todo')
    <2>1. CASE ToggleConflict(x)
      BY <1>2, <2>1, NoCalls DEF ToggleConflict, Idle
    <2>2. CASE EditConflict(x)
      BY <1>1, <2>2, KeyGoEntries, SaveMembers DEF EditConflict, Unbooted
    <2> QED BY <2>1, <2>2
  <1>4. \A u \in Timers \ {x} : entry'[u] = entry[u]
    <2>1. CASE ToggleConflict(x)
      BY <1>1, <2>1 DEF ToggleConflict, TypeOK
    <2>2. CASE EditConflict(x)
      BY <1>1, <2>2, KeyGoEntries DEF EditConflict
    <2> QED BY <2>1, <2>2
  <1>5. \A u \in Timers : entry'[u].repeated # {} => u \in Known'
    BY <1>1, <1>2, <1>4, IdleClaims DEF Known
  <1> QED BY <1>1, <1>3, <1>5, KeyClaimed, SMTT(30)

LEMMA NextClaimed ==
    ASSUME Typed, ListsInv, BootIsLast, Claimed, SavedInv,
           "start" \notin Faults, "retry" \notin UserOps, [Next]_vars
    PROVE  BootIsLast' /\ Claimed'
  <1>1. ASSUME Claims PROVE BootIsLast' /\ Claimed'
    BY <1>1 DEF Claims
  <1>2. ASSUME Tick \/ SetClock \/ UNCHANGED vars PROVE Claims
    <2>1. UNCHANGED <<entry, timer_list, processed_timers, todo>>
      BY <1>2 DEF Tick, SetClock, vars, listVars
    <2> QED BY <2>1, ClockClaims
  <1>3. ASSUME Crash PROVE Claims
    BY <1>3, SameDaily, BootsClaims DEF Crash, Boots
  <1>4. ASSUME NEW t \in Timers,
               \/ Record(t) \/ InstantRecord(t) \/ RemoveEntry(t) \/ SetEnd(t)
               \/ EditTimer(t) \/ ToggleDisabledState(t) \/ ToggleConflict(t)
               \/ EditConflict(t)
        PROVE  BootIsLast' /\ Claimed'
    BY <1>1, <1>4, EnteredClaims, RemoveEntryClaims, TimeChangingClaims,
       EditTimerClaims, ConflictClaimed
  <1>5. ASSUME Cleanup \/ Shutdown \/ FinishEdit \/ Abandon
                 \/ RunningEventCallback
        PROVE  Claims
    BY <1>5, CleanupClaims, ShutdownClaims, FinishEditClaims, AbandonClaims,
       RunningEventCallbackClaims
  <1> QED BY <1>1, <1>2, <1>3, <1>4, <1>5, NoRetryRecord, HandlerClaims,
             TimeoutClaims DEF Next, User

LEMMA InitSaved == Init => SavedInv
  <1> SUFFICES ASSUME Init PROVE SavedInv
    OBVIOUS
  <1>1. /\ Members(todo) = {} /\ Known = {} /\ Idle /\ dialog.kind = "none"
        /\ \A t \in Timers : entry[t] = Blank
        /\ file.timers = <<>>
    BY MembersEmpty DEF Init, Known, Idle, NoDialog, Holding
  <1>2. Alive = {}
    BY <1>1, NotRearming DEF In, Idle
  <1>3. SoundEntries /\ SoundFile
    BY <1>1, BlankSound DEF SoundEntries, SoundFile
  <1>4. Orderly(todo)
    BY <1>1, OrderlyCalls
  <1> QED BY <1>1, <1>2, <1>3, <1>4 DEF SavedInv, TargetsAlive, Targets,
          RemovesAlone, Covers

\* For any number of timers, any clock, any crash and any conflict: while the
\* main loop waits, a restart would bring back every timer that is to be saved,
\* with its end, its days and its type, although no handler but record,
\* removeEntry, keyGo and shutdown saves (RecordTimer.py:537-625,
\* TimerEntry.py:355).  A recording that fails to start begins anew later,
\* perhaps after its end (RecordTimer.py:292-294), which loadTimer would make
\* another end of; that is left out, as is a new timer that is entered again
\* from the list of its conflicts.
THEOREM RestartBringsTimersBack ==
    ASSUME "start" \notin Faults, "retry" \notin UserOps, InOrderTemplates
    PROVE  Spec => []SavedCoversKnown
  <1>1. Init => BootIsLast /\ Claimed /\ SavedInv
    BY InitClaimed, InitSaved
  <1>2. /\ TypeOK /\ TypeOK' /\ ListsInv /\ BootIsLast /\ Claimed /\ SavedInv
        /\ [Next]_vars
        => (BootIsLast /\ Claimed /\ SavedInv)'
    BY NextSaved, NextClaimed DEF Typed
  <1>3. Spec => []TypeOK /\ []ListsInv
    BY TypeCorrect, ListsInvHolds
  <1>4. SavedInv => SavedCoversKnown
    <2> SUFFICES ASSUME SavedInv, Idle, NEW t \in Known
                 PROVE  \/ entry[t].dontSave
                        \/ \E i \in DOMAIN file.timers :
                             LET s == file.timers[i]
                             IN  /\ s.t = t /\ s.repeated = entry[t].repeated
                                 /\ s.justplay = entry[t].justplay
                                 /\ entry[t].repeated = {}
                                    => s.end = entry[t].end
      BY DEF SavedCoversKnown
    <2>1. Covered(entry[t], t, file.timers)
      BY IdleSaved
    <2> QED BY <2>1 DEF Covered
  <1> QED BY <1>1, <1>2, <1>3, <1>4, PTL DEF Spec

=============================================================================
