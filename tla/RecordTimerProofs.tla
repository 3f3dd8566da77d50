------------------------- MODULE RecordTimerProofs -------------------------
(***************************************************************************)
(* Theorems about RecordTimer, for all its constants.  Six parts are here, *)
(* parts 7 to 10 in RecordTimerOrderProofs:                                *)
(*                                                                         *)
(*   1. every variable keeps its type;                                     *)
(*   2. timer_list and processed_timers stay disjoint and without          *)
(*      duplicates.  ListsConsistent is not inductive: a timer that is not *)
(*      in a list yet may be held by a call that has not finished and must *)
(*      not be put into one twice.  ListsInv adds what is true of the call *)
(*      stack;                                                             *)
(*   3. there is one recording service for each recording that is prepared *)
(*      or runs, and none for anything else.  ServiceMatchesState is not   *)
(*      inductive: an entry is dropped, or replaced by one from            *)
(*      timers.xml, without a look at its service.  Served adds why        *)
(*      nothing is lost then: a timer with a service is in timer_list;     *)
(*   4. every timer follows TimerLifecycle, the refinement step by step.   *)
(*      StageInv adds what the calls on the stack and an open screen may   *)
(*      still do to a timer;                                               *)
(*   5. an activation that is refused is tried again later, not at once;   *)
(*   6. a timer that is disabled does not wait, so it takes no tuner.      *)
(*                                                                         *)
(* Parts 2 to 4 need that the user may not retry a timer that is in        *)
(* conflict (RetryRecord of the dialog), parts 3 and 4 also that the       *)
(* dialog may not turn a recording into a zap timer.  Parts 5 and 6 need   *)
(* neither, but each an assumption of its own.                             *)
(***************************************************************************)
EXTENDS RecordTimerProperties, TLAPS

-----------------------------------------------------------------------------
(***************************************************************************)
(*                          1. Types                                       *)
(***************************************************************************)

(***************************************************************************)
(* Lists of timers.                                                        *)
(***************************************************************************)

\* A sequence is a function on an interval that begins at 1.
LEMMA SeqFromFunction ==
    ASSUME NEW S, NEW n \in Nat, NEW f \in [1..n -> S]
    PROVE  f \in Seq(S)
  OBVIOUS

LEMMA SeqFacts ==
    ASSUME NEW S, NEW s \in Seq(S)
    PROVE  /\ Len(s) \in Nat
           /\ DOMAIN s = 1..Len(s)
           /\ s \in [1..Len(s) -> S]
           /\ \A i \in DOMAIN s : s[i] \in S
           /\ s # <<>> => /\ Len(s) \in Nat \ {0}
                          /\ Head(s) \in S
                          /\ Tail(s) \in Seq(S)
  OBVIOUS

LEMMA EmptySeqType == \A S : <<>> \in Seq(S)
  OBVIOUS

LEMMA SingletonType ==
    ASSUME NEW S, NEW x \in S
    PROVE  <<x>> \in Seq(S)
  OBVIOUS

LEMMA PairType ==
    ASSUME NEW S, NEW x \in S, NEW y \in S
    PROVE  <<x, y>> \in Seq(S)
  OBVIOUS

LEMMA PushType ==
    ASSUME NEW S, NEW x \in S, NEW s \in Seq(S)
    PROVE  <<x>> \o s \in Seq(S)
  OBVIOUS

LEMMA MembersType ==
    ASSUME NEW S, NEW list \in Seq(S)
    PROVE  Members(list) \subseteq S
  BY SeqFacts DEF Members

LEMMA InsertAfterType ==
    ASSUME NEW S, NEW list \in Seq(S), NEW p \in 0..Len(list), NEW t \in S
    PROVE  InsertAfter(list, p, t) \in Seq(S)
  <1>1. Len(list) + 1 \in Nat
    BY SeqFacts
  <1>2. \A i \in 1..Len(list) + 1 :
          (IF i <= p THEN list[i] ELSE IF i = p + 1 THEN t ELSE list[i - 1])
            \in S
    <2> TAKE i \in 1..Len(list) + 1
    <2>1. CASE i <= p
      BY <2>1, SeqFacts
    <2>2. CASE i = p + 1
      BY <2>2
    <2>3. CASE i > p + 1
      <3>1. i - 1 \in 1..Len(list)
        BY <2>3, SeqFacts
      <3>2. list[i - 1] \in S
        BY <3>1, SeqFacts
      <3> QED BY <2>3, <3>2, SeqFacts
    <2> QED BY <2>1, <2>2, <2>3, SeqFacts
  <1> QED BY <1>1, <1>2, SeqFromFunction DEF InsertAfter

LEMMA RemoveTimerType ==
    ASSUME NEW S, NEW list \in Seq(S), NEW t
    PROVE  RemoveTimer(list, t) \in Seq(S)
  <1>1. CASE t \notin Members(list)
    BY <1>1 DEF RemoveTimer
  <1>2. CASE t \in Members(list)
    <2> DEFINE at == CHOOSE i \in DOMAIN list :
                       list[i] = t /\ \A j \in 1..i - 1 : list[j] # t
    <2> HIDE DEF at
    <2>1. Len(list) - 1 \in Nat
      BY <1>2, SeqFacts DEF Members
    <2>2. \A i \in 1..Len(list) - 1 :
            (IF i < at THEN list[i] ELSE list[i + 1]) \in S
      BY SeqFacts
    <2>3. [i \in 1..Len(list) - 1 |-> IF i < at THEN list[i] ELSE list[i + 1]]
            \in Seq(S)
      BY <2>1, <2>2, SeqFromFunction
    <2> QED BY <1>2, <2>3 DEF RemoveTimer, at
  <1> QED BY <1>1, <1>2

LEMMA SelectionsType ==
    ASSUME NEW S, NEW list \in Seq(S), NEW keep,
           NEW s \in Selections(list, keep)
    PROVE  s \in Seq(S)
  <1> DEFINE places == {i \in DOMAIN list : list[i] \in keep}
  <1>1. PICK n \in 0..Len(list) : \E f \in [1..n -> places] :
          s = [i \in DOMAIN f |-> list[f[i]]]
    BY DEF Selections
  <1> PICK f \in [1..n -> places] : s = [i \in DOMAIN f |-> list[f[i]]]
    BY <1>1
  <1>2. n \in Nat /\ DOMAIN f = 1..n
    BY <1>1, SeqFacts
  <1>3. \A i \in 1..n : list[f[i]] \in S
    BY <1>1, SeqFacts
  <1> QED BY <1>1, <1>2, <1>3, SeqFromFunction

-----------------------------------------------------------------------------
(***************************************************************************)
(* Entries.                                                                *)
(***************************************************************************)

LEMMA TimeChangedType ==
    ASSUME NEW e \in Entries
    PROVE  TimeChanged(e) \in Entries
  <1>1. e.begin - PrepareTime \in Int
    BY EntryAssumption DEF Entries
  <1> QED BY <1>1 DEF TimeChanged, Entries

LEMMA ResetStateType ==
    ASSUME NEW e \in Entries
    PROVE  ResetState(e) \in Entries
  <1>1. StateWaiting \in StateWaiting..StateEnded
    BY DEF StateWaiting, StateEnded
  <1>2. [e EXCEPT !.state = StateWaiting, !.cancelled = FALSE] \in Entries
    BY <1>1 DEF Entries
  <1> QED BY <1>2, TimeChangedType DEF ResetState

LEMMA StateType ==
    ASSUME NEW e \in Entries
    PROVE  /\ [e EXCEPT !.state = StateWaiting] \in Entries
           /\ [e EXCEPT !.state = StateEnded] \in Entries
  <1>1. /\ StateWaiting \in StateWaiting..StateEnded
        /\ StateEnded \in StateWaiting..StateEnded
    BY DEF StateWaiting, StateEnded
  <1> QED BY <1>1 DEF Entries

LEMMA NewEntryType ==
    ASSUME NEW begin \in Int, NEW end \in Int,
           NEW repeated \in SUBSET (0..WeekLength - 1),
           NEW disabled \in BOOLEAN, NEW justplay \in BOOLEAN
    PROVE  NewEntry(begin, end, repeated, disabled, justplay) \in Entries
  <1> DEFINE raw ==
        [ begin |-> begin, end |-> IF end < begin THEN begin ELSE end,
          repeatedbegindate |-> begin, start_prepare |-> 0,
          state |-> StateWaiting, repeated |-> repeated, backoff |-> 0,
          disabled |-> disabled, cancelled |-> FALSE, autoincrease |-> FALSE,
          dontSave |-> FALSE, justplay |-> justplay, svc |-> FALSE ]
  <1>1. (IF end < begin THEN begin ELSE end) \in Int
    OBVIOUS
  <1>2. raw \in Entries
    BY <1>1 DEF Entries, StateWaiting, StateEnded
  <1> QED BY <1>2, ResetStateType DEF NewEntry

LEMMA BlankType == Blank \in Entries
  <1>1. 0 \in Int /\ {} \in SUBSET (0..WeekLength - 1) /\ FALSE \in BOOLEAN
    OBVIOUS
  <1> QED BY <1>1, NewEntryType DEF Blank

LEMMA AbortType ==
    ASSUME NEW e \in Entries, NEW at \in Int
    PROVE  Abort(e, at) \in Entries
  BY DEF Abort, Entries

LEMMA DoBackoffType ==
    ASSUME NEW e \in Entries
    PROVE  DoBackoff(e) \in Entries
  <1>1. (IF e.backoff = 0 THEN BackoffFirst
         ELSE IF 2 * e.backoff > BackoffMax THEN BackoffMax
         ELSE 2 * e.backoff) \in Nat
    BY EntryAssumption DEF Entries
  <1> QED BY <1>1 DEF DoBackoff, Entries

LEMMA GetNextActivationType ==
    ASSUME NEW e \in Entries
    PROVE  GetNextActivation(e) \in Int
  BY DEF GetNextActivation, Entries

LEMMA AdvanceType ==
    ASSUME NEW e \in Entries, e.state < StateEnded
    PROVE  Advance(e) \in Entries
  BY DEF Advance, Entries, StateWaiting, StateEnded

LEMMA DaysType ==
    ASSUME NEW k \in Nat
    PROVE  Days(k) \in Int
  BY EntryAssumption DEF Days

LEMMA ProcessRepeatedType ==
    ASSUME NEW e \in Entries, NEW at, NEW findRunningEvent,
           NEW x \in ProcessRepeated(e, at, findRunningEvent)
    PROVE  x \in Entries
  <1>1. CASE e.repeated = {}
    BY <1>1 DEF ProcessRepeated
  <1>2. CASE e.repeated # {}
    <2>1. PICK k \in 0..MaxDays :
            x = TimeChanged(
                  [e EXCEPT !.begin = e.begin + Days(k),
                            !.end = IF e.begin + Days(k) = e.end + Days(k)
                                    THEN e.end + Days(k) + 1
                                    ELSE e.end + Days(k)])
      BY <1>2 DEF ProcessRepeated
    <2>2. /\ e.begin + Days(k) \in Int
          /\ e.end + Days(k) \in Int
      BY DaysType, EntryAssumption DEF Entries
    <2>3. (IF e.begin + Days(k) = e.end + Days(k) THEN e.end + Days(k) + 1
           ELSE e.end + Days(k)) \in Int
      BY <2>2
    <2>4. [e EXCEPT !.begin = e.begin + Days(k),
                    !.end = IF e.begin + Days(k) = e.end + Days(k)
                            THEN e.end + Days(k) + 1
                            ELSE e.end + Days(k)] \in Entries
      BY <2>2, <2>3 DEF Entries
    <2> QED BY <2>1, <2>4, TimeChangedType
  <1> QED BY <1>1, <1>2

-----------------------------------------------------------------------------
(***************************************************************************)
(* TypeOK: a lemma for each helper that moves a timer between the lists,   *)
(* then one for each action.                                               *)
(***************************************************************************)

ListTypes ==
    /\ entry \in [Timers -> Entries]
    /\ timer_list \in Seq(Timers)
    /\ processed_timers \in Seq(Timers)
    /\ todo \in Seq(Frames)

LEMMA FrameType ==
    /\ Calc \in Frames
    /\ Save \in Seq(Frames)
    /\ BootFrame \in Frames
    /\ \A n \in Int : Frame("process", NoTimer, n, <<>>) \in Frames
    /\ \A n \in Nat \ {0} : /\ Frame("extend", NoTimer, n, <<>>) \in Frames
                            /\ Frame("load", NoTimer, n, <<>>) \in Frames
    /\ \A rest \in Seq(Timers) : Frame("rearm", NoTimer, 0, rest) \in Frames
    /\ \A n \in Int, rest \in Seq(Timers) \ {<<>>} :
         Frame("limit", NoTimer, n, rest) \in Frames
    /\ \A t \in Timers, n \in Int :
         \A op \in {"add", "edited", "remove", "activate", "retime"} :
           Frame(op, t, n, <<>>) \in Frames
  <1>1. Frame("save", NoTimer, 0, <<>>) \in Frames
    BY DEF Frame, Frames
  <1>2. Frame("write", NoTimer, 0, <<>>) \in Frames
    BY DEF Frame, Frames
  <1>3. Save \in Seq(Frames)
    BY <1>1, <1>2 DEF Save
  <1>4. Calc \in Frames /\ BootFrame \in Frames
    BY DEF Frame, Frames, Calc, BootFrame
  <1>5. \A n \in Int : Frame("process", NoTimer, n, <<>>) \in Frames
    BY DEF Frame, Frames
  <1>6. \A n \in Nat \ {0} : /\ Frame("extend", NoTimer, n, <<>>) \in Frames
                             /\ Frame("load", NoTimer, n, <<>>) \in Frames
    BY DEF Frame, Frames
  <1>7. \A rest \in Seq(Timers) : Frame("rearm", NoTimer, 0, rest) \in Frames
    BY DEF Frame, Frames
  <1>8. \A n \in Int, rest \in Seq(Timers) \ {<<>>} :
          Frame("limit", NoTimer, n, rest) \in Frames
    BY DEF Frame, Frames
  <1>9. \A t \in Timers, n \in Int :
          \A op \in {"add", "edited", "remove", "activate", "retime"} :
            Frame(op, t, n, <<>>) \in Frames
    BY DEF Frame, Frames
  <1> QED BY <1>3, <1>4, <1>5, <1>6, <1>7, <1>8, <1>9

LEMMA TopType ==
    ASSUME todo \in Seq(Frames), todo # <<>>
    PROVE  /\ Top \in Frames
           /\ Rest \in Seq(Frames)
  BY DEF Top, Rest

LEMMA TopOfKind ==
    ASSUME todo \in Seq(Frames), todo # <<>>
    PROVE  /\ Top.op \in {"add", "edited", "remove", "activate", "retime"}
                => Top.t \in Timers
           /\ Top.op \in {"extend", "load"}
                => /\ Top.n \in Nat \ {0}
                   /\ [Top EXCEPT !.n = Top.n + 1] \in Frames
           /\ Top.op = "rearm"
                => /\ Top.rest \in Seq(Timers)
                   /\ \A r \in Seq(Timers) : [Top EXCEPT !.rest = r] \in Frames
           /\ Top.op = "limit"
                => /\ Top.rest \in Seq(Timers) \ {<<>>}
                   /\ \A r \in Seq(Timers) \ {<<>>} :
                        [Top EXCEPT !.rest = r] \in Frames
           /\ Top.n \in Int
  <1>1. Top \in Frames
    BY TopType
  <1>2. Top.op \in {"add", "edited", "remove", "activate", "retime"}
          => Top.t \in Timers
    BY <1>1 DEF Frames
  <1>3. Top.op \in {"extend", "load"}
          => /\ Top.n \in Nat \ {0}
             /\ [Top EXCEPT !.n = Top.n + 1] \in Frames
    BY <1>1 DEF Frames
  <1>4. Top.op = "rearm"
          => /\ Top.rest \in Seq(Timers)
             /\ \A r \in Seq(Timers) : [Top EXCEPT !.rest = r] \in Frames
    BY <1>1 DEF Frames
  <1>5. Top.op = "limit"
          => /\ Top.rest \in Seq(Timers) \ {<<>>}
             /\ \A r \in Seq(Timers) \ {<<>>} :
                  [Top EXCEPT !.rest = r] \in Frames
    BY <1>1 DEF Frames
  <1>6. Top.n \in Int
    BY <1>1 DEF Frames
  <1> QED BY <1>2, <1>3, <1>4, <1>5, <1>6

LEMMA InsertPointsType ==
    ASSUME NEW list, NEW key
    PROVE  InsertPoints(list, key) \subseteq 0..Len(list)
  BY DEF InsertPoints

LEMMA EnqueueType ==
    ASSUME entry \in [Timers -> Entries],
           NEW t \in Timers, NEW e \in Entries, NEW active \in Seq(Timers),
           NEW k \in Seq(Frames), Enqueue(t, e, active, k)
    PROVE  /\ entry' \in [Timers -> Entries]
           /\ timer_list' \in Seq(Timers)
           /\ todo' \in Seq(Frames)
  <1>1. PICK p \in InsertPoints(active, GetNextActivation(e)) :
          timer_list' = InsertAfter(active, p, t)
    BY DEF Enqueue
  <1>2. timer_list' \in Seq(Timers)
    BY <1>1, InsertPointsType, InsertAfterType
  <1> QED BY <1>2 DEF Enqueue

LEMMA RetireType ==
    ASSUME entry \in [Timers -> Entries],
           NEW t \in Timers, NEW e \in Entries, NEW processed \in Seq(Timers),
           NEW k \in Seq(Frames), Retire(t, e, processed, k)
    PROVE  /\ entry' \in [Timers -> Entries]
           /\ processed_timers' \in Seq(Timers)
           /\ todo' \in Seq(Frames)
  <1>1. PICK p \in InsertPoints(processed, GetNextActivation(e)) :
          processed_timers' = InsertAfter(processed, p, t)
    BY DEF Retire
  <1>2. processed_timers' \in Seq(Timers)
    BY <1>1, InsertPointsType, InsertAfterType
  <1>3. [e EXCEPT !.state = StateEnded] \in Entries
    BY StateType
  <1> QED BY <1>2, <1>3 DEF Retire

LEMMA AddTimerEntryType ==
    ASSUME entry \in [Timers -> Entries],
           NEW t \in Timers, NEW e \in Entries, NEW active \in Seq(Timers),
           NEW processed \in Seq(Timers), NEW k \in Seq(Frames),
           NEW noRecalc \in BOOLEAN,
           AddTimerEntry(t, e, active, processed, k, noRecalc)
    PROVE  ListTypes'
  <1>1. PICK x \in ProcessRepeated(e, now, TRUE) :
          IF AlreadyPassed(x)
          THEN Retire(t, x, processed, k) /\ timer_list' = active
          ELSE /\ Enqueue(t, x, active, Recalc(k, noRecalc))
               /\ processed_timers' = processed
    BY DEF AddTimerEntry
  <1>2. x \in Entries
    BY ProcessRepeatedType
  <1>3. Recalc(k, noRecalc) \in Seq(Frames)
    BY FrameType, PushType DEF Recalc
  <1>4. CASE AlreadyPassed(x)
    BY <1>1, <1>2, <1>4, RetireType DEF ListTypes
  <1>5. CASE ~AlreadyPassed(x)
    BY <1>1, <1>2, <1>3, <1>5, EnqueueType DEF ListTypes
  <1> QED BY <1>4, <1>5

LEMMA TimerTimeChangedType ==
    ASSUME ListTypes,
           NEW t \in Timers, NEW e \in Entries, NEW k \in Seq(Frames),
           TimerTimeChanged(t, e, k)
    PROVE  ListTypes'
  <1> DEFINE changed == TimeChanged(e)
             restored == IF e.state = StateEnded
                         THEN [changed EXCEPT !.state = StateWaiting]
                         ELSE changed
             active == IF e.state = StateEnded THEN timer_list
                       ELSE RemoveTimer(timer_list, t)
             processed == IF e.state = StateEnded
                          THEN RemoveTimer(processed_timers, t)
                          ELSE processed_timers
  <1>1. AddTimerEntry(t, restored, active, processed, k, FALSE)
    BY DEF TimerTimeChanged
  <1>2. changed \in Entries
    BY TimeChangedType
  <1>3. restored \in Entries
    BY <1>2, StateType
  <1>4. active \in Seq(Timers) /\ processed \in Seq(Timers)
    BY RemoveTimerType DEF ListTypes
  <1> HIDE DEF restored, active, processed
  <1> QED BY <1>1, <1>3, <1>4, AddTimerEntryType DEF ListTypes

LEMMA RequeueType ==
    ASSUME ListTypes,
           NEW t \in Timers, NEW e \in Entries, NEW k \in Seq(Frames),
           Requeue(t, e, k)
    PROVE  ListTypes'
  <1> DEFINE active == RemoveTimer(timer_list, t)
  <1>0. active \in Seq(Timers)
    BY RemoveTimerType DEF ListTypes
  <1>1. CASE e.state < StateEnded
    <2>1. Enqueue(t, e, active, k) /\ UNCHANGED processed_timers
      BY <1>1 DEF Requeue
    <2> QED BY <1>0, <2>1, EnqueueType DEF ListTypes
  <1>2. CASE ~(e.state < StateEnded) /\ e.repeated # {}
    <2>1. PICK x \in ProcessRepeated(e, now, TRUE) :
            AddTimerEntry(t, [x EXCEPT !.state = StateWaiting], active,
                          processed_timers, k, FALSE)
      BY <1>2 DEF Requeue
    <2>2. x \in Entries
      BY ProcessRepeatedType
    <2>3. [x EXCEPT !.state = StateWaiting] \in Entries
      BY <2>2, StateType
    <2> QED BY <1>0, <2>1, <2>3, AddTimerEntryType DEF ListTypes
  <1>3. CASE ~(e.state < StateEnded) /\ e.repeated = {}
    <2>1. Retire(t, e, processed_timers, k) /\ timer_list' = active
      BY <1>3 DEF Requeue
    <2> QED BY <1>0, <2>1, RetireType DEF ListTypes
  <1> QED BY <1>1, <1>2, <1>3

BudgetType == left \in [{"fault", "jump", "crash", "user"} -> Nat]

LEMMA SpendType ==
    ASSUME BudgetType, NEW what \in {"fault", "jump", "crash", "user"},
           Spend(what)
    PROVE  BudgetType'
  <1>1. left[what] \in Nat /\ left[what] > 0
    BY DEF Spend, BudgetType
  <1>2. left[what] - 1 \in Nat
    BY <1>1
  <1>3. left' = [left EXCEPT ![what] = left[what] - 1]
    BY DEF Spend
  <1> QED BY <1>2, <1>3 DEF BudgetType

LEMMA EndsType ==
    ASSUME ListTypes, now \in Int
    PROVE  ConflictEnds \subseteq Int /\ AutoEnds \subseteq Int
  <1>1. \A u \in Members(timer_list) : entry[u].begin \in Int
    BY MembersType DEF ListTypes, Entries
  <1>2. ConflictEnds \subseteq Int
    BY <1>1, TimerAssumption DEF ConflictEnds
  <1> QED BY <1>2, TimerAssumption DEF AutoEnds

\* x is an entry that occurs on the days e does.
SameDays(x, e) ==
    x \in Entries /\ x.repeated = e.repeated /\ x.disabled = e.disabled

LEMMA TypeParts ==
    ASSUME TypeOK
    PROVE  /\ ListTypes /\ BudgetType
           /\ \A t \in Timers : entry[t] \in Entries
           /\ dialog.kind # "none" => dialog.t \in Timers
           /\ Members(timer_list) \subseteq Timers
           /\ Members(processed_timers) \subseteq Timers
           /\ Known \subseteq Timers
  <1>1. ListTypes /\ BudgetType
    BY DEF TypeOK, ListTypes, BudgetType
  <1>2. dialog.kind # "none" => dialog.t \in Timers
    BY DEF TypeOK, Dialogs
  <1>3. Members(timer_list) \subseteq Timers /\ Members(processed_timers) \subseteq Timers
    BY MembersType DEF TypeOK
  <1> QED BY <1>1, <1>2, <1>3 DEF Known, ListTypes

LEMMA StatesDiffer ==
    /\ StateWaiting # StatePrepared /\ StateWaiting # StateRunning
    /\ StateWaiting # StateEnded /\ StatePrepared # StateRunning
    /\ StatePrepared # StateEnded /\ StateRunning # StateEnded
  BY DEF StateWaiting, StatePrepared, StateRunning, StateEnded

\* A timer is prepared when it has waited, not otherwise.
Begins(x, e) ==
    x.state = StatePrepared => e.state \in {StateWaiting, StatePrepared}

\* What an activation that is not refused at its start leaves of an entry.
Continues(x, e) ==
    /\ SameDays(x, e)
    /\ x.state = e.state \/ x.state # StateWaiting
    /\ Begins(x, e)
    /\ "start" \notin Faults => x.begin = e.begin

LEMMA SkipContinues ==
    ASSUME TypeOK, NEW t \in Timers, NEW k, Skip(t, k)
    PROVE  \E x : Requeue(t, x, k) /\ Continues(x, entry[t])
  <1> DEFINE e == entry[t]
             ended == [e EXCEPT !.state = StateEnded]
  <1>1. e \in Entries
    BY TypeParts
  <1>2. Continues(ended, e)
    <2> HIDE DEF e
    <2>1. /\ ended \in Entries /\ ended.state # StateWaiting
          /\ ended.state # StatePrepared
          /\ ended.repeated = e.repeated /\ ended.disabled = e.disabled
          /\ ended.begin = e.begin
      BY <1>1, StateType, StatesDiffer DEF Entries
    <2> HIDE DEF ended
    <2> QED BY <2>1 DEF Continues, SameDays, Begins
  <1>3. Requeue(t, ended, k)
    BY DEF Skip
  <1> HIDE DEF ended
  <1> QED BY <1>2, <1>3

LEMMA PrepareContinues ==
    ASSUME TypeOK, NEW t \in Timers, NEW k, Prepare(t, k)
    PROVE  \E x : Requeue(t, x, k) /\ Continues(x, entry[t])
  <1> DEFINE e == entry[t]
             calm == [e EXCEPT !.backoff = 0]
             ready == Advance(calm)
             refused == DoBackoff(e)
             served == [ready EXCEPT !.svc = TRUE]
             none == [e EXCEPT !.svc = FALSE]
             later == [refused EXCEPT !.svc = FALSE,
                         !.start_prepare = now + refused.backoff]
  <1>1. e \in Entries /\ e.state = StateWaiting /\ now \in Int
    BY TypeParts DEF Prepare, TypeOK
  <1>2. /\ calm \in Entries /\ calm.state = StateWaiting
        /\ calm.repeated = e.repeated /\ calm.disabled = e.disabled
        /\ calm.begin = e.begin
    <2> HIDE DEF e
    <2> QED BY <1>1 DEF Entries
  <1>3. /\ ready \in Entries /\ ready.state # StateWaiting
        /\ ready.repeated = e.repeated /\ ready.disabled = e.disabled
        /\ ready.begin = e.begin
    <2> HIDE DEF e, calm
    <2>1. ready \in Entries
      BY <1>2, AdvanceType DEF StateWaiting, StateEnded
    <2> QED BY <1>2, <2>1 DEF Advance, Entries, StateWaiting
  <1>4. /\ served \in Entries /\ served.state # StateWaiting
        /\ served.repeated = e.repeated /\ served.disabled = e.disabled
        /\ served.begin = e.begin
    <2> HIDE DEF e, ready
    <2> QED BY <1>3 DEF Entries
  <1>5. /\ none \in Entries /\ none.state = e.state
        /\ none.repeated = e.repeated /\ none.disabled = e.disabled
        /\ none.begin = e.begin
    <2> HIDE DEF e
    <2> QED BY <1>1 DEF Entries
  <1>6. /\ refused \in Entries /\ refused.state = e.state
        /\ refused.repeated = e.repeated /\ refused.disabled = e.disabled
        /\ refused.begin = e.begin
    <2> HIDE DEF e
    <2> QED BY <1>1, DoBackoffType DEF DoBackoff, Entries
  <1>7. /\ later \in Entries /\ later.state = e.state
        /\ later.repeated = e.repeated /\ later.disabled = e.disabled
        /\ later.begin = e.begin
    <2>1. now + refused.backoff \in Int
      BY <1>1, <1>6 DEF Entries
    <2> HIDE DEF e, refused
    <2> QED BY <1>6, <2>1 DEF Entries
  <1>8. \/ Requeue(t, ready, k) \/ Requeue(t, served, k)
        \/ Requeue(t, none, k) \/ Requeue(t, later, k)
    BY DEF Prepare
  <1> HIDE DEF ready, served, none, later
  <1>9. /\ Continues(ready, e) /\ Continues(served, e)
        /\ Continues(none, e) /\ Continues(later, e)
    BY <1>1, <1>3, <1>4, <1>5, <1>7 DEF Continues, SameDays, Begins
  <1> QED BY <1>8, <1>9

LEMMA StartContinues ==
    ASSUME TypeOK, NEW t \in Timers, NEW k, Start(t, k)
    PROVE  \E x : Requeue(t, x, k) /\ Continues(x, entry[t])
  <1> DEFINE e == entry[t]
             running == Advance(e)
             refused == DoBackoff(e)
             later == [refused EXCEPT !.begin = now + refused.backoff]
  <1>1. e \in Entries /\ e.state = StatePrepared /\ now \in Int
    BY TypeParts DEF Start, TypeOK
  <1>2. /\ running \in Entries /\ running.state # StateWaiting
        /\ running.repeated = e.repeated /\ running.disabled = e.disabled
        /\ running.begin = e.begin
    <2> HIDE DEF e
    <2>1. running \in Entries
      BY <1>1, AdvanceType DEF StatePrepared, StateEnded
    <2> QED BY <1>1, <2>1 DEF Advance, Entries, StateWaiting, StatePrepared
  <1>3. /\ refused \in Entries /\ refused.state = e.state
        /\ refused.repeated = e.repeated /\ refused.disabled = e.disabled
    <2> HIDE DEF e
    <2> QED BY <1>1, DoBackoffType DEF DoBackoff, Entries
  <1>4. /\ later \in Entries /\ later.state = e.state
        /\ later.repeated = e.repeated /\ later.disabled = e.disabled
    <2>1. now + refused.backoff \in Int
      BY <1>1, <1>3 DEF Entries
    <2> HIDE DEF e, refused
    <2> QED BY <1>3, <2>1 DEF Entries
  <1>5. \/ Requeue(t, running, k)
        \/ Requeue(t, later, k) /\ "start" \in Faults
    BY DEF Start, Fault
  <1> HIDE DEF running, later
  <1>6. /\ Continues(running, e)
        /\ "start" \in Faults => Continues(later, e)
    BY <1>1, <1>2, <1>4 DEF Continues, SameDays, Begins
  <1> QED BY <1>5, <1>6

LEMMA StopContinues ==
    ASSUME TypeOK, NEW t \in Timers, NEW k, Stop(t, k)
    PROVE  \E x : Requeue(t, x, k) /\ Continues(x, entry[t])
  <1> DEFINE e == entry[t]
             stopped == Advance(e)
             freed == [stopped EXCEPT !.svc = FALSE]
  <1>1. e \in Entries /\ e.state = StateRunning /\ now \in Int /\ ListTypes
    BY TypeParts DEF Stop, TypeOK
  <1>2. /\ stopped \in Entries /\ stopped.state # StateWaiting
        /\ stopped.state # StatePrepared
        /\ stopped.repeated = e.repeated /\ stopped.disabled = e.disabled
        /\ stopped.begin = e.begin
    <2> HIDE DEF e
    <2>1. stopped \in Entries
      BY <1>1, AdvanceType DEF StateRunning, StateEnded
    <2> QED BY <1>1, <2>1
            DEF Advance, Entries, StateWaiting, StatePrepared, StateRunning
  <1>3. /\ freed \in Entries /\ freed.state # StateWaiting
        /\ freed.state # StatePrepared
        /\ freed.repeated = e.repeated /\ freed.disabled = e.disabled
        /\ freed.begin = e.begin
    <2> HIDE DEF e, stopped
    <2> QED BY <1>2 DEF Entries
  <1>4. \A end \in AutoEnds : Continues([e EXCEPT !.end = end], e)
    <2> SUFFICES ASSUME NEW end \in AutoEnds
                 PROVE  Continues([e EXCEPT !.end = end], e)
      OBVIOUS
    <2> DEFINE longer == [e EXCEPT !.end = end]
    <2>1. end \in Int
      BY <1>1, EndsType
    <2>2. /\ longer \in Entries /\ longer.state = e.state
          /\ longer.repeated = e.repeated /\ longer.disabled = e.disabled
          /\ longer.begin = e.begin
      <3> HIDE DEF e
      <3> QED BY <1>1, <2>1 DEF Entries
    <2> HIDE DEF longer
    <2>3. Continues(longer, e)
      BY <1>1, <2>2, StatesDiffer DEF Continues, SameDays, Begins
    <2> QED BY <2>3 DEF longer
  <1>5. \/ Requeue(t, stopped, k) \/ Requeue(t, freed, k)
        \/ \E end \in AutoEnds : Requeue(t, [e EXCEPT !.end = end], k)
    BY DEF Stop
  <1> HIDE DEF stopped, freed
  <1>6. Continues(stopped, e) /\ Continues(freed, e)
    BY <1>2, <1>3 DEF Continues, SameDays, Begins
  <1> QED BY <1>4, <1>5, <1>6

LEMMA ActivationContinues ==
    ASSUME TypeOK, NEW t \in Timers, NEW k, DoActivate(t, k)
    PROVE  \E x \in Entries : Requeue(t, x, k) /\ Continues(x, entry[t])
  <1>1. \E x : Requeue(t, x, k) /\ Continues(x, entry[t])
    BY SkipContinues, PrepareContinues, StartContinues, StopContinues
    DEF DoActivate
  <1> QED BY <1>1 DEF Continues, SameDays

\* Whatever doActivate does, it begins with a timer that has not ended and ends
\* by putting it, with its days, into the list it now belongs to.
LEMMA ActivationRequeues ==
    ASSUME TypeOK, NEW t \in Timers, NEW k, DoActivate(t, k)
    PROVE  /\ entry[t].state # StateEnded
           /\ \E x \in Entries : Requeue(t, x, k) /\ SameDays(x, entry[t])
  <1>1. entry[t].state # StateEnded
    BY StatesDiffer DEF DoActivate, Skip, ShouldSkip, Prepare, Start, Stop
  <1> QED BY <1>1, ActivationContinues DEF Continues

LEMMA ActivationType ==
    ASSUME TypeOK, NEW t \in Timers, NEW k \in Seq(Frames),
           DoActivate(t, k)
    PROVE  TypeOK'
  <1>1. ListTypes /\ BudgetType /\ recordings \in [Timers -> Int]
    BY DEF TypeOK, ListTypes, BudgetType
  <1>2. PICK x \in Entries : Requeue(t, x, k)
    BY ActivationRequeues
  <1>3. ListTypes'
    BY <1>1, <1>2, RequeueType
  <1>4. \/ UNCHANGED recordings
        \/ TakeService(t)
        \/ ReleaseService(t)
    BY DEF DoActivate, Skip, Prepare, Start, Stop
  <1>5. recordings' \in [Timers -> Int]
    BY <1>1, <1>4 DEF TakeService, ReleaseService
  <1>6. UNCHANGED left \/ Spend("fault")
    BY DEF DoActivate, Skip, Prepare, Start, Stop, Fault
  <1>7. BudgetType'
    BY <1>1, <1>6, SpendType DEF BudgetType
  <1>8. UNCHANGED <<clockVars, dialog, file>>
    BY DEF DoActivate
  <1> QED BY <1>3, <1>5, <1>7, <1>8 DEF TypeOK, ListTypes, BudgetType,
                                        clockVars

LEMMA HandlerStackType ==
    ASSUME TypeOK, NEW op, In(op)
    PROVE  /\ Top \in Frames /\ Rest \in Seq(Frames) /\ Top.op = op
           /\ todo # <<>> /\ Top.n \in Int
  BY TopType, TopOfKind DEF TypeOK, In

LEMMA CalcNextActivationType == TypeOK /\ CalcNextActivation => TypeOK'
  <1> SUFFICES ASSUME TypeOK, CalcNextActivation PROVE TypeOK'
    OBVIOUS
  <1>1. Rest \in Seq(Frames)
    BY HandlerStackType DEF CalcNextActivation
  <1>2. Frame("rearm", NoTimer, 0, processed_timers) \in Frames
    BY FrameType DEF TypeOK
  <1>3. Process \in Frames
    BY FrameType DEF TypeOK, Process
  <1>4. todo' \in Seq(Frames)
    BY <1>1, <1>2, <1>3, PushType DEF CalcNextActivation
  <1>5. processed_timers' \in Seq(Timers)
    <2>1. <<>> \in Seq(Timers)
      BY EmptySeqType
    <2>2. processed_timers' = <<>> \/ processed_timers' = processed_timers
      BY DEF CalcNextActivation
    <2> QED BY <2>1, <2>2 DEF TypeOK
  <1> QED BY <1>4, <1>5 DEF CalcNextActivation, TypeOK, clockVars

LEMMA ReEvaluateType == TypeOK /\ ReEvaluate => TypeOK'
  <1> SUFFICES ASSUME TypeOK, ReEvaluate PROVE TypeOK'
    OBVIOUS
  <1>1. /\ Rest \in Seq(Frames) /\ Top.op = "rearm" /\ todo # <<>>
        /\ Top.rest \in Seq(Timers)
        /\ \A r \in Seq(Timers) : [Top EXCEPT !.rest = r] \in Frames
    BY HandlerStackType, TopOfKind DEF ReEvaluate, TypeOK
  <1>2. CASE Top.rest = <<>>
    <2>1. Process \in Frames
      BY FrameType DEF TypeOK, Process
    <2>2. todo' \in Seq(Frames)
      BY <1>1, <1>2, <2>1, PushType DEF ReEvaluate
    <2> QED BY <1>2, <2>2 DEF ReEvaluate, TypeOK, clockVars
  <1>3. CASE Top.rest # <<>>
    <2> DEFINE x == Head(Top.rest)
               k == <<[Top EXCEPT !.rest = Tail(Top.rest)]>> \o Rest
    <2>1. x \in Timers /\ Tail(Top.rest) \in Seq(Timers)
      BY <1>1, <1>3, SeqFacts
    <2>2. k \in Seq(Frames)
      BY <1>1, <2>1, PushType
    <2>3. ResetState(entry[x]) \in Entries
      BY <2>1, ResetStateType DEF TypeOK
    <2>4. AddTimerEntry(x, ResetState(entry[x]), timer_list, processed_timers,
                        k, TRUE)
      BY <1>3 DEF ReEvaluate
    <2>5. ListTypes'
      <3> HIDE DEF x, k
      <3> QED BY <2>1, <2>2, <2>3, <2>4, AddTimerEntryType DEF TypeOK
    <2> QED BY <2>5 DEF ReEvaluate, TypeOK, ListTypes, clockVars
  <1> QED BY <1>2, <1>3

LEMMA ProcessActivationType == TypeOK /\ ProcessActivation => TypeOK'
  <1> SUFFICES ASSUME TypeOK, ProcessActivation PROVE TypeOK'
    OBVIOUS
  <1>1. Head(timer_list) \in Timers
    BY SeqFacts DEF ProcessActivation, HeadDue, TypeOK
  <1>2. todo \in Seq(Frames)
    BY DEF TypeOK
  <1> QED BY <1>1, <1>2, ActivationType DEF ProcessActivation

LEMMA SetNextActivationType == TypeOK /\ SetNextActivation => TypeOK'
  <1> SUFFICES ASSUME TypeOK, SetNextActivation PROVE TypeOK'
    OBVIOUS
  <1>1. NextWake \in Int
    <2>1. CASE timer_list = <<>>
      BY <2>1, TimerAssumption DEF NextWake, TypeOK
    <2>2. CASE timer_list # <<>>
      <3>1. NextActivation(Head(timer_list)) \in Int
        BY <2>2, SeqFacts, GetNextActivationType DEF NextActivation, TypeOK
      <3> QED BY <2>2, <3>1, TimerAssumption DEF NextWake, Least, TypeOK
    <2> QED BY <2>1, <2>2
  <1>2. wait' \in Nat
    BY <1>1 DEF SetNextActivation, Delay, TypeOK
  <1>3. todo' \in Seq(Frames)
    BY HandlerStackType DEF SetNextActivation
  <1> QED BY <1>2, <1>3 DEF SetNextActivation, TypeOK

LEMMA FatalType == TypeOK /\ Fatal => TypeOK'
  BY FrameType, PushType DEF Fatal, TypeOK, clockVars

LEMMA TruncateType == TypeOK /\ Truncate => TypeOK'
  <1> SUFFICES ASSUME TypeOK, Truncate PROVE TypeOK'
    OBVIOUS
  <1>1. todo' \in Seq(Frames)
    BY HandlerStackType DEF Truncate
  <1>2. Truncated \in [intact: BOOLEAN, timers: Seq(SavedTimer)]
    BY DEF Truncated
  <1> QED BY <1>1, <1>2 DEF Truncate, TypeOK, clockVars

LEMMA SavedFormType ==
    ASSUME TypeOK, NEW t \in Timers
    PROVE  SavedForm(t) \in SavedTimer
  <1>1. entry[t] \in Entries
    BY DEF TypeOK
  <1> QED BY <1>1 DEF SavedForm, SavedTimer, Entries

LEMMA WriteType == TypeOK /\ Write => TypeOK'
  <1> SUFFICES ASSUME TypeOK, Write PROVE TypeOK'
    OBVIOUS
  <1>1. todo' \in Seq(Frames)
    BY HandlerStackType DEF Write
  <1>2. PICK kept \in Selections(timer_list \o processed_timers,
                               {t \in Timers : ~entry[t].dontSave}) :
          file' = Holding([i \in DOMAIN kept |-> SavedForm(kept[i])])
    BY DEF Write
  <1>3. kept \in Seq(Timers)
    <2>1. timer_list \o processed_timers \in Seq(Timers)
      BY DEF TypeOK
    <2> QED BY <2>1, SelectionsType
  <1>4. [i \in DOMAIN kept |-> SavedForm(kept[i])] \in Seq(SavedTimer)
    <2>1. \A i \in 1..Len(kept) : SavedForm(kept[i]) \in SavedTimer
      BY <1>3, SeqFacts, SavedFormType
    <2> QED BY <1>3, <2>1, SeqFacts, SeqFromFunction
  <1>5. file' \in [intact: BOOLEAN, timers: Seq(SavedTimer)]
    BY <1>2, <1>4 DEF Holding
  <1> QED BY <1>1, <1>5 DEF Write, TypeOK, clockVars

LEMMA BootType == TypeOK /\ Boot => TypeOK'
  <1> SUFFICES ASSUME TypeOK, Boot PROVE TypeOK'
    OBVIOUS
  <1>1. entry' \in [Timers -> Entries]
    BY BlankType DEF Boot
  <1>2. Frame("load", NoTimer, 1, <<>>) \in Frames
    BY FrameType
  <1>3. todo' \in Seq(Frames)
    <2>1. todo' = <<Frame("load", NoTimer, 1, <<>>)>> \/ todo' = <<>>
      BY DEF Boot
    <2> QED BY <1>2, <2>1, SingletonType, EmptySeqType
  <1>4. file' \in [intact: BOOLEAN, timers: Seq(SavedTimer)]
    <2>1. Holding(<<>>) \in [intact: BOOLEAN, timers: Seq(SavedTimer)]
      BY EmptySeqType DEF Holding
    <2>2. file' = file \/ file' = Holding(<<>>)
      BY DEF Boot
    <2> QED BY <2>1, <2>2 DEF TypeOK
  <1>5. wait' \in Nat /\ dialog' \in Dialogs /\ recordings' \in [Timers -> Int]
    BY TimerAssumption DEF Boot, NoDialog, Dialogs
  <1> QED BY <1>1, <1>3, <1>4, <1>5 DEF Boot, TypeOK

\* The end of the actions that leave the clock, the services and the file.
LEMMA ScreenType ==
    ASSUME TypeOK, ListTypes', BudgetType', dialog' \in Dialogs,
           UNCHANGED <<clockVars, recordings, file>>
    PROVE  TypeOK'
  BY DEF TypeOK, ListTypes, BudgetType, clockVars

LEMMA ListsOnlyType ==
    ASSUME TypeOK, ListTypes',
           UNCHANGED <<clockVars, recordings, dialog, file, left>>
    PROVE  TypeOK'
  BY DEF TypeOK, ListTypes, clockVars

LEMMA DialogType ==
    /\ NoDialog \in Dialogs
    /\ \A kind \in {"edited", "conflict", "added", "refused", "choice"} :
         \A t \in Timers : Open(kind, t) \in Dialogs
  BY DEF NoDialog, Open, Dialogs

LEMMA UserTurnType ==
    ASSUME TypeOK, NEW op, UserTurn(op)
    PROVE  BudgetType'
  <1>1. BudgetType /\ Spend("user")
    BY DEF UserTurn, TypeOK, BudgetType
  <1> QED BY <1>1, SpendType

LEMMA FirstInConflictType ==
    ASSUME TypeOK, NEW t \in Timers
    PROVE  FirstInConflict(t) \subseteq Timers
  BY TypeParts DEF FirstInConflict

LEMMA ShortenableType ==
    ASSUME TypeOK, NEW list \in Shortenable
    PROVE  list \in Seq(Timers) /\ Members(list) \subseteq Members(timer_list)
  <1> DEFINE growing == {u \in Members(timer_list) : entry[u].autoincrease}
  <1>1. PICK n \in 0..Len(timer_list) : list \in [1..n -> growing]
    BY DEF Shortenable
  <1>2. n \in Nat
    <2>1. Len(timer_list) \in Nat
      BY SeqFacts DEF TypeOK
    <2> QED BY <2>1
  <1>3. growing \subseteq Timers /\ growing \subseteq Members(timer_list)
    BY TypeParts
  <1> HIDE DEF growing
  <1>4. list \in [1..n -> Timers]
    BY <1>1, <1>3
  <1>5. Members(list) \subseteq growing
    BY <1>1 DEF Members
  <1> QED BY <1>2, <1>3, <1>4, <1>5, SeqFromFunction

LEMMA ShortenType ==
    ASSUME TypeOK, NEW begin \in Int, NEW next \in Frames,
           Shorten(begin, next)
    PROVE  todo' \in Seq(Frames)
  <1>1. PICK list \in Shortenable :
          todo' = IF list = <<>> THEN <<next>>
                  ELSE <<Frame("limit", NoTimer, begin, list), next>>
    BY DEF Shorten
  <1>2. list \in Seq(Timers)
    BY ShortenableType
  <1>3. CASE list = <<>>
    BY <1>1, <1>3, SingletonType
  <1>4. CASE list # <<>>
    <2>1. Frame("limit", NoTimer, begin, list) \in Frames
      BY <1>2, <1>4, FrameType
    <2> QED BY <1>1, <1>4, <2>1, PairType
  <1> QED BY <1>3, <1>4

LEMMA LoadTimerType == TypeOK /\ LoadTimer => TypeOK'
  <1> SUFFICES ASSUME TypeOK, LoadTimer PROVE TypeOK'
    OBVIOUS
  <1> DEFINE next == <<[Top EXCEPT !.n = Top.n + 1]>> \o Rest
             s == file.timers[Top.n]
             e == NewEntry(s.begin, s.end, s.repeated, s.disabled, s.justplay)
  <1>1. /\ Rest \in Seq(Frames) /\ Top.n \in Nat \ {0}
        /\ [Top EXCEPT !.n = Top.n + 1] \in Frames
    BY HandlerStackType, TopOfKind DEF LoadTimer, TypeOK
  <1>2. next \in Seq(Frames)
    BY <1>1, PushType
  <1>3. ASSUME Top.n > Len(file.timers), todo' = Rest,
               UNCHANGED <<entry, timer_list, processed_timers>>
        PROVE  ListTypes'
    BY <1>1, <1>3 DEF TypeOK, ListTypes
  <1>4. ASSUME Top.n <= Len(file.timers),
               AddTimerEntry(s.t, TimeChanged(e), timer_list,
                             processed_timers, next, FALSE)
        PROVE  ListTypes'
    <2>1. s \in SavedTimer
      <3>1. file.timers \in Seq(SavedTimer)
        BY DEF TypeOK
      <3> QED BY <1>1, <1>4, <3>1, SeqFacts
    <2>2. s.t \in Timers
      BY <2>1 DEF SavedTimer
    <2>3. e \in Entries
      BY <2>1, NewEntryType DEF SavedTimer
    <2>4. TimeChanged(e) \in Entries
      BY <2>3, TimeChangedType
    <2> HIDE DEF s, e, next
    <2> QED BY <1>2, <1>4, <2>2, <2>4, AddTimerEntryType DEF TypeOK
  <1>5. ASSUME todo' = next,
               UNCHANGED <<entry, timer_list, processed_timers>>
        PROVE  ListTypes'
    BY <1>2, <1>5 DEF TypeOK, ListTypes
  <1>6. ListTypes'
    BY <1>3, <1>4, <1>5 DEF LoadTimer
  <1> QED BY <1>6, ListsOnlyType DEF LoadTimer

LEMMA RecordType ==
    ASSUME TypeOK, NEW t \in Timers, Record(t)
    PROVE  TypeOK'
  <1>1. PICK new \in Templates :
          /\ entry' = [entry EXCEPT ![t] =
               NewEntry(new.begin, new.end, new.repeated, FALSE, new.justplay)]
          /\ Shorten(new.begin, Frame("add", t, 0, <<>>))
    BY DEF Record
  <1>2. /\ new.begin \in Int /\ new.end \in Int /\ new.justplay \in BOOLEAN
        /\ new.repeated \in SUBSET (0..WeekLength - 1)
    BY <1>1, TimerAssumption DEF TemplateType
  <1>3. NewEntry(new.begin, new.end, new.repeated, FALSE, new.justplay)
          \in Entries
    BY <1>2, NewEntryType
  <1>4. todo' \in Seq(Frames)
    BY <1>1, <1>2, FrameType, ShortenType
  <1>5. ListTypes'
    BY <1>1, <1>3, <1>4 DEF Record, TypeOK, ListTypes
  <1> QED BY <1>5, UserTurnType, ScreenType DEF Record, TypeOK

LEMMA InstantRecordType ==
    ASSUME TypeOK, NEW t \in Timers, InstantRecord(t)
    PROVE  TypeOK'
  <1>1. PICK end \in AutoEnds :
          entry' = [entry EXCEPT ![t] =
            [NewEntry(now, end, {}, FALSE, FALSE) EXCEPT
               !.dontSave = TRUE,
               !.autoincrease = (end = now + AutoIncrease)]]
    BY DEF InstantRecord
  <1>2. end \in Int
    BY <1>1, TypeParts, EndsType DEF TypeOK
  <1>3. NewEntry(now, end, {}, FALSE, FALSE) \in Entries
    BY <1>2, NewEntryType DEF TypeOK
  <1>4. [NewEntry(now, end, {}, FALSE, FALSE) EXCEPT
           !.dontSave = TRUE,
           !.autoincrease = (end = now + AutoIncrease)] \in Entries
    BY <1>3 DEF Entries
  <1>5. todo' \in Seq(Frames)
    BY FrameType, SingletonType DEF InstantRecord
  <1>6. ListTypes'
    BY <1>1, <1>4, <1>5 DEF InstantRecord, TypeOK, ListTypes
  <1> QED BY <1>6, UserTurnType, ScreenType DEF InstantRecord, TypeOK

LEMMA DropType ==
    ASSUME TypeOK, todo # <<>>, NEW t \in Timers, Drop(t)
    PROVE  ListTypes'
  <1>1. entry' \in [Timers -> Entries]
    BY BlankType DEF Drop, TypeOK
  <1> QED BY <1>1, TopType DEF Drop, TypeOK, ListTypes

LEMMA AddRecordType == TypeOK /\ AddRecord => TypeOK'
  <1> SUFFICES ASSUME TypeOK, AddRecord PROVE TypeOK'
    OBVIOUS
  <1> DEFINE t == Top.t
  <1>1. Rest \in Seq(Frames) /\ t \in Timers /\ todo # <<>>
    BY HandlerStackType, TopOfKind DEF AddRecord, TypeOK
  <1>2. dialog \in Dialogs
    BY DEF TypeOK
  <1>3. ASSUME AddTimerEntry(t, TimeChanged(entry[t]), timer_list,
                             processed_timers, Save \o Rest, FALSE)
        PROVE  ListTypes'
    <2>1. Save \o Rest \in Seq(Frames)
      BY <1>1, FrameType
    <2>2. TimeChanged(entry[t]) \in Entries
      BY <1>1, TimeChangedType DEF TypeOK
    <2> HIDE DEF t
    <2> QED BY <1>1, <1>3, <2>1, <2>2, AddTimerEntryType DEF TypeOK
  <1>4. ASSUME Drop(t) PROVE ListTypes'
    BY <1>1, <1>4, DropType
  <1>5. ASSUME NEW u \in FirstInConflict(t),
               IF u # t THEN Drop(t)
               ELSE /\ todo' = Rest
                    /\ UNCHANGED <<entry, timer_list, processed_timers>>
        PROVE  ListTypes'
    BY <1>1, <1>4, <1>5 DEF TypeOK, ListTypes
  <1>6. ListTypes'
    BY <1>3, <1>4, <1>5 DEF AddRecord
  <1>7. dialog' \in Dialogs
    BY <1>1, <1>2, DialogType, FirstInConflictType DEF AddRecord
  <1> QED BY <1>6, <1>7, ScreenType DEF AddRecord, TypeOK, BudgetType

LEMMA RetryRecordType == TypeOK /\ RetryRecord => TypeOK'
  <1> SUFFICES ASSUME TypeOK, RetryRecord PROVE TypeOK'
    OBVIOUS
  <1>1. dialog.t \in Timers
    BY TypeParts DEF RetryRecord
  <1>2. entry[dialog.t].begin \in Int
    BY <1>1 DEF TypeOK, Entries
  <1>3. todo' \in Seq(Frames)
    BY <1>1, <1>2, FrameType, ShortenType DEF RetryRecord
  <1> QED BY <1>3, DialogType DEF RetryRecord, TypeOK, clockVars

LEMMA LimitRecordingType == TypeOK /\ LimitRecording => TypeOK'
  <1> SUFFICES ASSUME TypeOK, LimitRecording PROVE TypeOK'
    OBVIOUS
  <1> DEFINE x == Head(Top.rest)
             others == Tail(Top.rest)
             k == IF others = <<>> THEN Rest
                  ELSE <<[Top EXCEPT !.rest = others]>> \o Rest
  <1>1. /\ Rest \in Seq(Frames) /\ Top.n \in Int
        /\ Top.rest \in Seq(Timers) \ {<<>>}
        /\ \A r \in Seq(Timers) \ {<<>>} : [Top EXCEPT !.rest = r] \in Frames
    BY HandlerStackType, TopOfKind DEF LimitRecording, TypeOK
  <1>2. x \in Timers /\ others \in Seq(Timers)
    BY <1>1, SeqFacts
  <1>3. k \in Seq(Frames)
    BY <1>1, <1>2, PushType
  <1>4. PICK end \in {Top.n - Lead} \cup ConflictEnds :
          IF entry[x].autoincrease /\ end > now
          THEN TimerTimeChanged(x, [entry[x] EXCEPT !.end = end], k)
          ELSE /\ todo' = k
               /\ UNCHANGED <<entry, timer_list, processed_timers>>
    BY DEF LimitRecording
  <1>5. end \in Int
    <2>1. ConflictEnds \subseteq Int
      BY EndsType, TypeParts DEF TypeOK
    <2>2. Top.n - Lead \in Int
      BY <1>1, TimerAssumption
    <2> QED BY <2>1, <2>2
  <1>6. [entry[x] EXCEPT !.end = end] \in Entries
    <2>1. entry[x] \in Entries
      BY <1>2, <1>5, TypeParts
    <2> QED BY <1>2, <1>5, <2>1 DEF Entries
  <1>7. ListTypes'
    <2> HIDE DEF x, k
    <2>1. ASSUME TimerTimeChanged(x, [entry[x] EXCEPT !.end = end], k)
          PROVE  ListTypes'
      BY <1>2, <1>3, <1>6, <2>1, TypeParts, TimerTimeChangedType
    <2>2. ASSUME todo' = k, UNCHANGED <<entry, timer_list, processed_timers>>
          PROVE  ListTypes'
      BY <1>3, <2>2 DEF TypeOK, ListTypes
    <2> QED BY <1>4, <2>1, <2>2
  <1> QED BY <1>7, ListsOnlyType DEF LimitRecording

LEMMA AbortedType ==
    ASSUME TypeOK, NEW t \in Timers
    PROVE  Abort(Withdraw(entry[t]), now) \in Entries
  <1>1. entry[t] \in Entries /\ {} \in SUBSET (0..WeekLength - 1)
    BY TypeParts
  <1>2. Withdraw(entry[t]) \in Entries
    BY <1>1 DEF Withdraw, Entries
  <1> QED BY <1>2, AbortType DEF TypeOK

LEMMA RemoveEntryType ==
    ASSUME TypeOK, NEW t \in Timers, RemoveEntry(t)
    PROVE  TypeOK'
  <1> DEFINE aborted == Abort(Withdraw(entry[t]), now)
             k == (IF aborted.dontSave THEN <<>>
                   ELSE <<Frame("extend", NoTimer, 1, <<>>)>>)
                  \o <<Frame("remove", t, 0, <<>>)>> \o Save
  <1>1. aborted \in Entries
    BY AbortedType
  <1>2. k \in Seq(Frames)
    <2>1. (IF aborted.dontSave THEN <<>>
           ELSE <<Frame("extend", NoTimer, 1, <<>>)>>) \in Seq(Frames)
      <3>1. Frame("extend", NoTimer, 1, <<>>) \in Frames
        BY FrameType
      <3> HIDE DEF aborted
      <3> QED BY <3>1, EmptySeqType, SingletonType
    <2>2. <<Frame("remove", t, 0, <<>>)>> \in Seq(Frames)
      BY FrameType, SingletonType
    <2> QED BY <2>1, <2>2, FrameType
  <1>3. \/ TimerTimeChanged(t, aborted, k)
        \/ /\ entry' = [entry EXCEPT ![t] = aborted]
           /\ todo' = k
           /\ UNCHANGED <<timer_list, processed_timers>>
    BY DEF RemoveEntry
  <1>4. ListTypes'
    <2> HIDE DEF aborted, k
    <2>1. ASSUME TimerTimeChanged(t, aborted, k) PROVE ListTypes'
      BY <1>1, <1>2, <2>1, TypeParts, TimerTimeChangedType
    <2>2. ASSUME entry' = [entry EXCEPT ![t] = aborted], todo' = k,
                 UNCHANGED <<timer_list, processed_timers>>
          PROVE  ListTypes'
      BY <1>1, <1>2, <2>2 DEF TypeOK, ListTypes
    <2> QED BY <1>3, <2>1, <2>2
  <1> QED BY <1>4, UserTurnType, ScreenType DEF RemoveEntry, TypeOK

LEMMA ExtendRecordingsType == TypeOK /\ ExtendRecordings => TypeOK'
  <1> SUFFICES ASSUME TypeOK, ExtendRecordings PROVE TypeOK'
    OBVIOUS
  <1> DEFINE k == <<[Top EXCEPT !.n = Top.n + 1]>> \o Rest
             x == timer_list[Top.n]
  <1>1. /\ Rest \in Seq(Frames) /\ Top.n \in Nat \ {0}
        /\ [Top EXCEPT !.n = Top.n + 1] \in Frames
    BY HandlerStackType, TopOfKind DEF ExtendRecordings, TypeOK
  <1>2. k \in Seq(Frames)
    BY <1>1, PushType
  <1>3. \/ /\ todo' = Rest \/ todo' = k
           /\ UNCHANGED <<entry, timer_list, processed_timers>>
        \/ /\ Top.n <= Len(timer_list)
           /\ \E end \in AutoEnds :
                TimerTimeChanged(x, [entry[x] EXCEPT !.end = end], k)
    BY DEF ExtendRecordings
  <1>4. ASSUME NEW end \in AutoEnds, Top.n <= Len(timer_list),
               TimerTimeChanged(x, [entry[x] EXCEPT !.end = end], k)
        PROVE  ListTypes'
    <2>1. x \in Timers
      BY <1>1, <1>4, SeqFacts DEF TypeOK
    <2>2. end \in Int
      BY TypeParts, EndsType DEF TypeOK
    <2>3. [entry[x] EXCEPT !.end = end] \in Entries
      <3>1. entry[x] \in Entries
        BY <2>1, <2>2, TypeParts
      <3> QED BY <2>1, <2>2, <3>1 DEF Entries
    <2> HIDE DEF x, k
    <2> QED BY <1>2, <1>4, <2>1, <2>3, TypeParts, TimerTimeChangedType
  <1>5. ASSUME todo' = Rest \/ todo' = k,
               UNCHANGED <<entry, timer_list, processed_timers>>
        PROVE  ListTypes'
    BY <1>1, <1>2, <1>5 DEF TypeOK, ListTypes
  <1>6. ListTypes'
    BY <1>3, <1>4, <1>5
  <1> QED BY <1>6, ListsOnlyType DEF ExtendRecordings

LEMMA RemoveProcessedType == TypeOK /\ RemoveProcessed => TypeOK'
  <1> SUFFICES ASSUME TypeOK, RemoveProcessed PROVE TypeOK'
    OBVIOUS
  <1>1. Rest \in Seq(Frames) /\ <<BootFrame>> \in Seq(Frames)
    BY HandlerStackType, FrameType, SingletonType DEF RemoveProcessed
  <1>2. processed_timers' \in Seq(Timers)
    BY RemoveTimerType DEF RemoveProcessed, TypeOK
  <1>3. entry' \in [Timers -> Entries]
    BY BlankType DEF RemoveProcessed, TypeOK
  <1>4. ListTypes'
    BY <1>1, <1>2, <1>3 DEF RemoveProcessed, TypeOK, ListTypes
  <1> QED BY <1>4, ListsOnlyType DEF RemoveProcessed

LEMMA CleanupType == TypeOK /\ Cleanup => TypeOK'
  <1> SUFFICES ASSUME TypeOK, Cleanup PROVE TypeOK'
    OBVIOUS
  <1>1. processed_timers' \in Seq(Timers)
    BY SelectionsType DEF Cleanup, TypeOK
  <1>2. entry' \in [Timers -> Entries]
    BY BlankType DEF Cleanup, TypeOK
  <1>3. ListTypes'
    BY <1>1, <1>2 DEF Cleanup, TypeOK, ListTypes
  <1> QED BY <1>3, UserTurnType, ScreenType DEF Cleanup, TypeOK

LEMMA SetEndChange ==
    ASSUME TypeOK, NEW t \in Timers, SetEnd(t)
    PROVE  \E end \in Int, growing \in BOOLEAN :
             TimerTimeChanged(t, [entry[t] EXCEPT !.autoincrease = growing,
                                                  !.end = end], <<>>)
  <1>1. entry[t] \in Entries /\ now \in Int
    BY TypeParts DEF TypeOK
  <1>2. [entry[t] EXCEPT !.end = now]
          = [entry[t] EXCEPT !.autoincrease = entry[t].autoincrease,
                             !.end = now]
    BY <1>1 DEF Entries
  <1>3. entry[t].autoincrease \in BOOLEAN
    BY <1>1 DEF Entries
  <1>4. \A new \in Templates : new.end \in Int
    BY TimerAssumption DEF TemplateType
  <1> QED BY <1>1, <1>2, <1>3, <1>4 DEF SetEnd

LEMMA SetEndType ==
    ASSUME TypeOK, NEW t \in Timers, SetEnd(t)
    PROVE  TypeOK'
  <1>1. PICK end \in Int, growing \in BOOLEAN :
          TimerTimeChanged(t, [entry[t] EXCEPT !.autoincrease = growing,
                                               !.end = end], <<>>)
    BY SetEndChange
  <1>2. [entry[t] EXCEPT !.autoincrease = growing, !.end = end] \in Entries
    <2>1. entry[t] \in Entries
      BY TypeParts
    <2> QED BY <2>1 DEF Entries
  <1>3. ListTypes'
    BY <1>1, <1>2, EmptySeqType, TypeParts, TimerTimeChangedType
  <1> QED BY <1>3, UserTurnType, ScreenType DEF SetEnd, TypeOK

LEMMA ShutdownType == TypeOK /\ Shutdown => TypeOK'
  <1> SUFFICES ASSUME TypeOK, Shutdown PROVE TypeOK'
    OBVIOUS
  <1>1. todo' \in Seq(Frames)
    BY FrameType, SingletonType DEF Shutdown
  <1>2. ListTypes'
    BY <1>1 DEF Shutdown, TypeOK, ListTypes
  <1> QED BY <1>2, UserTurnType, ScreenType DEF Shutdown, TypeOK

LEMMA KeyGoType ==
    ASSUME TypeOK, NEW t \in Timers, KeyGo(t)
    PROVE  ListTypes'
  <1>1. PICK new \in Templates :
          entry' = [entry EXCEPT
            ![t].begin = new.begin, ![t].end = new.end,
            ![t].repeated = new.repeated, ![t].justplay = new.justplay,
            ![t].repeatedbegindate = IF new.repeated = {} THEN @
                                     ELSE new.begin]
    BY DEF KeyGo
  <1> DEFINE date == IF new.repeated = {} THEN entry[t].repeatedbegindate
                     ELSE new.begin
             e == [entry[t] EXCEPT
                     !.begin = new.begin, !.end = new.end,
                     !.repeated = new.repeated, !.justplay = new.justplay,
                     !.repeatedbegindate = date]
  <1>2. /\ new.begin \in Int /\ new.end \in Int /\ new.justplay \in BOOLEAN
        /\ new.repeated \in SUBSET (0..WeekLength - 1)
    BY <1>1, TimerAssumption DEF TemplateType
  <1>3. date \in Int
    <2>1. entry[t] \in Entries
      BY <1>2, TypeParts
    <2> QED BY <1>2, <2>1 DEF Entries
  <1>4. e \in Entries
    <2>1. entry[t] \in Entries
      BY TypeParts
    <2> HIDE DEF date
    <2> QED BY <1>2, <1>3, <2>1 DEF Entries
  <1>5. entry' = [entry EXCEPT ![t] = e]
    <2>1. entry[t] \in Entries
      BY TypeParts
    <2> QED BY <1>1, <2>1 DEF Entries, TypeOK
  <1>6. todo' \in Seq(Frames)
    BY FrameType DEF KeyGo
  <1> HIDE DEF e
  <1> QED BY <1>4, <1>5, <1>6 DEF KeyGo, TypeOK, ListTypes

LEMMA EditTimerType ==
    ASSUME TypeOK, NEW t \in Timers, EditTimer(t)
    PROVE  TypeOK'
  <1>1. dialog' \in Dialogs
    BY DialogType DEF EditTimer
  <1> QED BY <1>1, KeyGoType, UserTurnType, ScreenType DEF EditTimer, KeyGo

LEMMA FinishEditType == TypeOK /\ FinishEdit => TypeOK'
  <1> SUFFICES ASSUME TypeOK, FinishEdit PROVE TypeOK'
    OBVIOUS
  <1>1. dialog.t \in Timers
    BY TypeParts DEF FinishEdit
  <1>2. entry[dialog.t].begin \in Int
    BY <1>1 DEF TypeOK, Entries
  <1>3. todo' \in Seq(Frames)
    BY <1>1, <1>2, FrameType, ShortenType DEF FinishEdit
  <1> QED BY <1>3, DialogType DEF FinishEdit, TypeOK, clockVars

LEMMA CheckEditedType == TypeOK /\ CheckEdited => TypeOK'
  <1> SUFFICES ASSUME TypeOK, CheckEdited PROVE TypeOK'
    OBVIOUS
  <1>1. Rest \in Seq(Frames) /\ Top.t \in Timers /\ dialog \in Dialogs
    BY HandlerStackType, TopOfKind DEF CheckEdited, TypeOK
  <1>2. ASSUME TimerTimeChanged(Top.t, entry[Top.t], Rest) PROVE ListTypes'
    BY <1>1, <1>2, TypeParts, TimerTimeChangedType
  <1>3. ASSUME todo' = Rest, UNCHANGED <<entry, timer_list, processed_timers>>
        PROVE  ListTypes'
    BY <1>1, <1>3 DEF TypeOK, ListTypes
  <1>4. ListTypes'
    BY <1>2, <1>3 DEF CheckEdited
  <1>5. dialog' \in Dialogs
    BY <1>1, DialogType, FirstInConflictType DEF CheckEdited
  <1> QED BY <1>4, <1>5, ScreenType DEF CheckEdited, TypeOK, BudgetType

LEMMA AbandonType == TypeOK /\ Abandon => TypeOK'
  <1> SUFFICES ASSUME TypeOK, Abandon PROVE TypeOK'
    OBVIOUS
  <1>1. entry' \in [Timers -> Entries]
    BY BlankType DEF Abandon, TypeOK
  <1> QED BY <1>1, DialogType DEF Abandon, TypeOK, clockVars

LEMMA OnConflictType ==
    ASSUME TypeOK, NEW x, OnConflict(x)
    PROVE  BudgetType' /\ dialog' \in Dialogs
  <1>1. BudgetType /\ Spend("user")
    BY TypeParts DEF OnConflict
  <1>2. dialog.t \in Timers
    BY TypeParts DEF OnConflict
  <1> QED BY <1>1, <1>2, SpendType, DialogType DEF OnConflict

LEMMA ToggleConflictType ==
    ASSUME TypeOK, NEW x \in Timers, ToggleConflict(x)
    PROVE  TypeOK'
  <1>1. [entry[x] EXCEPT !.disabled = ~entry[x].disabled] \in Entries
    <2>1. entry[x] \in Entries
      BY TypeParts
    <2> QED BY <2>1 DEF Entries
  <1>2. entry' = [entry EXCEPT ![x] =
                    [entry[x] EXCEPT !.disabled = ~entry[x].disabled]]
    BY DEF ToggleConflict, TypeOK
  <1>3. ListTypes'
    BY <1>1, <1>2 DEF ToggleConflict, TypeOK, ListTypes
  <1> QED BY <1>3, OnConflictType, ScreenType DEF ToggleConflict

LEMMA EditConflictType ==
    ASSUME TypeOK, NEW x \in Timers, EditConflict(x)
    PROVE  TypeOK'
  BY KeyGoType, OnConflictType, ScreenType DEF EditConflict, KeyGo

LEMMA ToggleChange ==
    ASSUME TypeOK, NEW t \in Timers, ToggleDisabledState(t)
    PROVE  \E disabled \in BOOLEAN :
             TimerTimeChanged(t, [entry[t] EXCEPT !.disabled = disabled], <<>>)
  <1>1. /\ entry[t].disabled \in BOOLEAN
        /\ entry[t] = [entry[t] EXCEPT !.disabled = entry[t].disabled]
    <2>1. entry[t] \in Entries
      BY TypeParts
    <2> QED BY <2>1 DEF Entries
  <1> QED BY <1>1 DEF ToggleDisabledState

LEMMA ToggleDisabledStateType ==
    ASSUME TypeOK, NEW t \in Timers, ToggleDisabledState(t)
    PROVE  TypeOK'
  <1>1. PICK disabled \in BOOLEAN :
          TimerTimeChanged(t, [entry[t] EXCEPT !.disabled = disabled], <<>>)
    BY ToggleChange
  <1>2. [entry[t] EXCEPT !.disabled = disabled] \in Entries
    <2>1. entry[t] \in Entries
      BY TypeParts
    <2> QED BY <2>1 DEF Entries
  <1>3. ListTypes'
    BY <1>1, <1>2, EmptySeqType, TypeParts, TimerTimeChangedType
  <1>4. dialog' \in Dialogs
    <2>1. dialog \in Dialogs
      BY DEF TypeOK
    <2> QED BY <2>1, DialogType, FirstInConflictType DEF ToggleDisabledState
  <1> QED BY <1>3, <1>4, UserTurnType, ScreenType DEF ToggleDisabledState

LEMMA RunningEventCallbackType == TypeOK /\ RunningEventCallback => TypeOK'
  <1> SUFFICES ASSUME TypeOK, RunningEventCallback PROVE TypeOK'
    OBVIOUS
  <1> DEFINE t == dialog.t
             Choices == ProcessRepeated([entry[t] EXCEPT !.disabled = FALSE],
                                        now, FALSE)
  <1>1. t \in Timers
    BY TypeParts DEF RunningEventCallback
  <1>2. \A x \in Choices : x \in Entries
    <2>1. [entry[t] EXCEPT !.disabled = FALSE] \in Entries
      <3>1. entry[t] \in Entries
        BY <1>1, TypeParts
      <3> QED BY <1>1, <3>1 DEF Entries
    <2> QED BY <2>1, ProcessRepeatedType
  <1>3. /\ Frame("activate", t, 0, <<>>) \in Frames
        /\ \A n \in {0, 1} : Frame("retime", t, n, <<>>) \in Frames
    BY <1>1, FrameType
  <1>4. \/ \E n \in {0, 1}, x \in Choices :
             /\ entry' = [entry EXCEPT ![t] = x]
             /\ todo' = << Frame("activate", t, 0, <<>>),
                           Frame("retime", t, n, <<>>) >>
        \/ todo' = << Frame("retime", t, 1, <<>>) >> /\ UNCHANGED entry
        \/ UNCHANGED <<entry, todo>>
    BY DEF RunningEventCallback
  <1>5. entry' \in [Timers -> Entries]
    <2> HIDE DEF Choices
    <2> QED BY <1>2, <1>4 DEF TypeOK
  <1>6. todo' \in Seq(Frames)
    <2>1. \A n \in {0, 1} :
            /\ << Frame("activate", t, 0, <<>>),
                  Frame("retime", t, n, <<>>) >> \in Seq(Frames)
            /\ << Frame("retime", t, n, <<>>) >> \in Seq(Frames)
      BY <1>3, PairType, SingletonType
    <2> HIDE DEF t, Choices
    <2> QED BY <1>4, <2>1 DEF TypeOK
  <1> QED BY <1>5, <1>6, DialogType DEF RunningEventCallback, TypeOK, clockVars

LEMMA ActivateChosenType == TypeOK /\ ActivateChosen => TypeOK'
  <1> SUFFICES ASSUME TypeOK, ActivateChosen PROVE TypeOK'
    OBVIOUS
  <1>1. Rest \in Seq(Frames) /\ Top.t \in Timers
    BY HandlerStackType, TopOfKind DEF ActivateChosen, TypeOK
  <1> QED BY <1>1, ActivationType DEF ActivateChosen

LEMMA RetimeChosenType == TypeOK /\ RetimeChosen => TypeOK'
  <1> SUFFICES ASSUME TypeOK, RetimeChosen PROVE TypeOK'
    OBVIOUS
  <1> DEFINE e == entry[Top.t]
             x == IF Top.n = 1 THEN [e EXCEPT !.disabled = TRUE] ELSE e
  <1>1. Rest \in Seq(Frames) /\ Top.t \in Timers
    BY HandlerStackType, TopOfKind DEF RetimeChosen, TypeOK
  <1>2. x \in Entries
    <2>1. entry[Top.t] \in Entries
      BY <1>1, TypeParts
    <2> QED BY <1>1, <2>1 DEF Entries
  <1>3. TimerTimeChanged(Top.t, x, Rest)
    BY DEF RetimeChosen
  <1> HIDE DEF x
  <1>4. ListTypes'
    BY <1>1, <1>2, <1>3, TypeParts, TimerTimeChangedType
  <1> QED BY <1>4, ListsOnlyType DEF RetimeChosen

LEMMA TickType == TypeOK /\ Tick => TypeOK'
  <1> SUFFICES ASSUME TypeOK, Tick PROVE TypeOK'
    OBVIOUS
  <1>1. wait' \in Nat \cup {Off}
    BY DEF Tick, TypeOK, Off
  <1>2. now' \in Int
    BY DEF Tick, TypeOK
  <1> QED BY <1>1, <1>2 DEF Tick, TypeOK, listVars

LEMMA SetClockType == TypeOK /\ SetClock => TypeOK'
  <1> SUFFICES ASSUME TypeOK, SetClock PROVE TypeOK'
    OBVIOUS
  <1>1. BudgetType'
    BY TypeParts, SpendType DEF SetClock
  <1>2. now' \in Int
    BY TimerAssumption DEF SetClock
  <1> QED BY <1>1, <1>2 DEF SetClock, TypeOK, listVars, BudgetType

LEMMA TimeoutType == TypeOK /\ Timeout => TypeOK'
  BY FrameType, SingletonType DEF Timeout, TypeOK

LEMMA CrashType == TypeOK /\ Crash => TypeOK'
  <1> SUFFICES ASSUME TypeOK, Crash PROVE TypeOK'
    OBVIOUS
  <1>1. BudgetType'
    BY TypeParts, SpendType DEF Crash
  <1>2. todo' \in Seq(Frames)
    BY FrameType, SingletonType DEF Crash
  <1> QED BY <1>1, <1>2 DEF Crash, TypeOK, clockVars, BudgetType

LEMMA InitType == Init => TypeOK
  <1> SUFFICES ASSUME Init PROVE TypeOK
    OBVIOUS
  <1>1. entry \in [Timers -> Entries]
    BY BlankType DEF Init
  <1>2. Holding(<<>>) \in [intact: BOOLEAN, timers: Seq(SavedTimer)]
    BY EmptySeqType DEF Holding
  <1>3. /\ timer_list \in Seq(Timers) /\ processed_timers \in Seq(Timers)
        /\ todo \in Seq(Frames)
    BY EmptySeqType DEF Init
  <1> QED BY <1>1, <1>2, <1>3, DialogType, TimerAssumption DEF Init, TypeOK

LEMMA HandlerType == TypeOK /\ Handler => TypeOK'
  BY CalcNextActivationType, ReEvaluateType, ProcessActivationType,
     SetNextActivationType, FatalType, TruncateType, WriteType, BootType,
     LoadTimerType, AddRecordType, LimitRecordingType, ExtendRecordingsType,
     RemoveProcessedType, CheckEditedType, ActivateChosenType,
     RetimeChosenType
  DEF Handler

LEMMA UserType == TypeOK /\ User => TypeOK'
  BY RecordType, InstantRecordType, RemoveEntryType, SetEndType,
     EditTimerType, ToggleDisabledStateType, ToggleConflictType,
     EditConflictType, CleanupType, ShutdownType, FinishEditType,
     AbandonType, RetryRecordType, RunningEventCallbackType
  DEF User

\* Every variable keeps its type, whatever the user does, fails or is set, for
\* any number of timers and any length of the days, delays and leads
\* (timer.py, RecordTimer.py).  In particular the eTimer is never given a
\* negative delay, the stages of a timer never leave StateWaiting..StateEnded
\* although doActivate only ever adds 1, and no entry of either list is
\* anything but a timer.
THEOREM TypeCorrect == Spec => []TypeOK
  <1>1. Init => TypeOK
    BY InitType
  <1>2. TypeOK /\ [Next]_vars => TypeOK'
    <2> SUFFICES ASSUME TypeOK, [Next]_vars PROVE TypeOK'
      OBVIOUS
    <2>1. CASE Next
      BY <2>1, HandlerType, UserType, TickType, SetClockType, TimeoutType,
         CrashType
      DEF Next
    <2>2. CASE UNCHANGED vars
      BY <2>2 DEF vars, clockVars, listVars, TypeOK
    <2> QED BY <2>1, <2>2
  <1> QED BY <1>1, <1>2, PTL DEF Spec

-----------------------------------------------------------------------------
(***************************************************************************)
(*                                 2. Lists                                *)
(***************************************************************************)

\* The timers the call f looks at, or works on.
About(f) ==
    Members(f.rest) \cup
      (IF f.op \in {"edited", "remove", "activate", "retime"}
       THEN {f.t} ELSE {})

\* The timers the call f will put into the lists for the first time.
ArrivesBy(f, timers) ==
    IF f.op = "add" THEN {f.t}
    ELSE IF f.op = "load"
    THEN {timers[i].t : i \in {j \in DOMAIN timers : j >= f.n}}
    ELSE {}

Considered(stack) == UNION {About(f) : f \in Members(stack)}

Arriving(stack, timers) == UNION {ArrivesBy(f, timers) : f \in Members(stack)}

Arrivals == {"add", "load"}

NoRearm(stack) == \A f \in Members(stack) : f.op # "rearm"

\* The loop over the processed timers is never interrupted, one call at a time
\* brings in new timers, and no call saves while timers are loaded.
StackInOrder(stack) ==
    /\ stack # <<>> => NoRearm(Tail(stack))
    /\ \A i, j \in DOMAIN stack :
         stack[i].op \in Arrivals /\ stack[j].op \in Arrivals => i = j
    /\ \A f, g \in Members(stack) :
         f.op = "load" => g.op \notin {"save", "write"}

DistinctTimers(timers) ==
    \A i, j \in DOMAIN timers : timers[i].t = timers[j].t => i = j

NoRetry == dialog.kind \notin {"added", "refused"}

ListsInv ==
    /\ ListsConsistent
    /\ StackInOrder(todo)
    /\ Arriving(todo, file.timers) \cap (Known \cup Considered(todo)) = {}
    /\ In("rearm") => /\ NoDuplicates(Top.rest)
                      /\ Members(Top.rest) \cap Known = {}
    /\ DistinctTimers(file.timers)
    /\ NoRetry

-----------------------------------------------------------------------------
(***************************************************************************)
(* Lists without duplicates.                                               *)
(***************************************************************************)

LEMMA MembersEmpty == Members(<<>>) = {} /\ NoDuplicates(<<>>)
  BY DEF Members, NoDuplicates

LEMMA MembersPush ==
    ASSUME NEW S, NEW x \in S, NEW s \in Seq(S)
    PROVE  /\ Members(<<x>> \o s) = {x} \cup Members(s)
           /\ Head(<<x>> \o s) = x /\ Tail(<<x>> \o s) = s
           /\ <<x>> \o s # <<>>
  <1> DEFINE new == <<x>> \o s
  <1>1. /\ Len(s) \in Nat /\ DOMAIN s = 1..Len(s)
        /\ DOMAIN new = 1..Len(s) + 1 /\ new[1] = x
        /\ \A i \in 1..Len(s) : new[i + 1] = s[i]
    OBVIOUS
  <1>2. \A i \in DOMAIN new : i = 1 \/ (i - 1 \in 1..Len(s) /\ new[i] = s[i - 1])
    BY <1>1
  <1>3. Head(new) = x /\ Tail(new) = s /\ new # <<>>
    OBVIOUS
  <1> HIDE DEF new
  <1>4. Members(new) \subseteq {x} \cup Members(s)
    BY <1>1, <1>2 DEF Members
  <1>5. \A i \in 1..Len(s) : i + 1 \in DOMAIN new /\ s[i] = new[i + 1]
    BY <1>1
  <1>6. 1 \in DOMAIN new
    BY <1>1
  <1>7. {x} \cup Members(s) \subseteq Members(new)
    BY <1>1, <1>5, <1>6 DEF Members
  <1> QED BY <1>3, <1>4, <1>7 DEF new

LEMMA MembersTail ==
    ASSUME NEW S, NEW s \in Seq(S), s # <<>>
    PROVE  /\ Members(s) = {Head(s)} \cup Members(Tail(s))
           /\ Tail(s) \in Seq(S) /\ Head(s) \in S
           /\ s = <<Head(s)>> \o Tail(s)
  <1>1. Tail(s) \in Seq(S) /\ Head(s) \in S
    OBVIOUS
  <1>2. s = <<Head(s)>> \o Tail(s)
    OBVIOUS
  <1>3. PICK h \in S, r \in Seq(S) : h = Head(s) /\ r = Tail(s)
    BY <1>1
  <1>4. Members(<<h>> \o r) = {h} \cup Members(r)
    BY MembersPush
  <1> QED BY <1>1, <1>2, <1>3, <1>4

LEMMA NoDuplicatesTail ==
    ASSUME NEW S, NEW s \in Seq(S), s # <<>>, NoDuplicates(s)
    PROVE  /\ NoDuplicates(Tail(s))
           /\ Head(s) \notin Members(Tail(s))
  <1>1. /\ Len(s) \in Nat \ {0} /\ DOMAIN s = 1..Len(s)
        /\ DOMAIN Tail(s) = 1..Len(s) - 1
        /\ \A i \in 1..Len(s) - 1 : Tail(s)[i] = s[i + 1]
        /\ Head(s) = s[1]
    OBVIOUS
  <1>2. \A i \in 1..Len(s) - 1 : i + 1 \in DOMAIN s /\ i + 1 # 1
    BY <1>1
  <1>3. 1 \in DOMAIN s
    BY <1>1
  <1>4. Head(s) \notin Members(Tail(s))
    BY <1>1, <1>2, <1>3 DEF Members, NoDuplicates
  <1>5. NoDuplicates(Tail(s))
    BY <1>1, <1>2 DEF NoDuplicates
  <1> QED BY <1>4, <1>5

LEMMA InsertAfterMembers ==
    ASSUME NEW S, NEW list \in Seq(S), NEW p \in 0..Len(list), NEW t
    PROVE  /\ Members(InsertAfter(list, p, t)) = Members(list) \cup {t}
           /\ NoDuplicates(list) /\ t \notin Members(list)
                => NoDuplicates(InsertAfter(list, p, t))
  <1> DEFINE new == InsertAfter(list, p, t)
  <1>1. /\ Len(list) \in Nat /\ DOMAIN list = 1..Len(list)
        /\ DOMAIN new = 1..Len(list) + 1
        /\ p \in Nat /\ p <= Len(list)
        /\ \A i \in 1..Len(list) + 1 :
             new[i] = IF i <= p THEN list[i]
                      ELSE IF i = p + 1 THEN t ELSE list[i - 1]
    BY SeqFacts DEF InsertAfter
  <1> HIDE DEF new
  <1>2. \A i \in DOMAIN new :
          \/ i \in DOMAIN list /\ i <= p /\ new[i] = list[i]
          \/ i = p + 1 /\ new[i] = t
          \/ i - 1 \in DOMAIN list /\ i > p + 1 /\ new[i] = list[i - 1]
    BY <1>1
  <1>3. \A i \in DOMAIN list :
          \/ i \in DOMAIN new /\ new[i] = list[i]
          \/ i + 1 \in DOMAIN new /\ new[i + 1] = list[i]
    BY <1>1
  <1>4. p + 1 \in DOMAIN new /\ new[p + 1] = t
    BY <1>1
  <1>5. Members(new) = Members(list) \cup {t}
    <2>1. Members(new) \subseteq Members(list) \cup {t}
      BY <1>2 DEF Members
    <2>2. Members(list) \cup {t} \subseteq Members(new)
      BY <1>3, <1>4 DEF Members
    <2> QED BY <2>1, <2>2
  <1>6. ASSUME NoDuplicates(list), t \notin Members(list)
        PROVE  NoDuplicates(new)
    <2> SUFFICES ASSUME NEW i \in DOMAIN new, NEW j \in DOMAIN new,
                        new[i] = new[j]
                 PROVE  i = j
      BY DEF NoDuplicates
    <2>1. \A m \in DOMAIN list : list[m] # t
      BY <1>6 DEF Members
    <2>2. \A m, n \in DOMAIN list : list[m] = list[n] => m = n
      BY <1>6 DEF NoDuplicates
    <2>3. i \in Int /\ j \in Int
      BY <1>1
    <2> QED BY <1>1, <1>2, <2>1, <2>2, <2>3
  <1> QED BY <1>5, <1>6 DEF new

LEMMA RemoveTimerMembers ==
    ASSUME NEW S, NEW list \in Seq(S), NEW t, NoDuplicates(list)
    PROVE  /\ Members(RemoveTimer(list, t)) = Members(list) \ {t}
           /\ NoDuplicates(RemoveTimer(list, t))
  <1>1. CASE t \notin Members(list)
    BY <1>1 DEF RemoveTimer
  <1>2. CASE t \in Members(list)
    <2> DEFINE at == CHOOSE i \in DOMAIN list :
                       list[i] = t /\ \A j \in 1..i - 1 : list[j] # t
               new == [i \in 1..Len(list) - 1 |->
                         IF i < at THEN list[i] ELSE list[i + 1]]
    <2>1. Len(list) \in Nat /\ DOMAIN list = 1..Len(list)
      BY SeqFacts
    <2>2. \A i, j \in DOMAIN list : list[i] = list[j] => i = j
      BY DEF NoDuplicates
    <2>3. at \in DOMAIN list /\ list[at] = t
      <3>1. PICK i \in DOMAIN list : list[i] = t
        BY <1>2 DEF Members
      <3>2. \A j \in 1..i - 1 : j \in DOMAIN list /\ j # i
        BY <2>1, <3>1
      <3>3. \A j \in 1..i - 1 : list[j] # t
        BY <2>2, <3>1, <3>2
      <3> QED BY <3>1, <3>3
    <2>4. RemoveTimer(list, t) = new
      BY <1>2 DEF RemoveTimer
    <2> HIDE DEF at
    <2>5. \A i \in DOMAIN new :
            \/ i \in DOMAIN list /\ i < at /\ new[i] = list[i]
            \/ i + 1 \in DOMAIN list /\ i >= at /\ new[i] = list[i + 1]
      BY <2>1, <2>3
    <2>6. \A i \in DOMAIN list : i # at =>
            \/ i \in DOMAIN new /\ new[i] = list[i]
            \/ i - 1 \in DOMAIN new /\ new[i - 1] = list[i]
      BY <2>1, <2>3
    <2>7. \A i \in DOMAIN new : i \in Int
      OBVIOUS
    <2> HIDE DEF new
    <2>8. Members(new) = Members(list) \ {t}
      <3>1. Members(new) \subseteq Members(list)
        BY <2>5 DEF Members
      <3>2. \A i \in DOMAIN new : new[i] # t
        BY <2>1, <2>2, <2>3, <2>5, <2>7
      <3>3. \A i \in DOMAIN list : list[i] # t => i # at
        BY <2>3
      <3>4. Members(list) \ {t} \subseteq Members(new)
        BY <2>6, <3>3 DEF Members
      <3> QED BY <3>1, <3>2, <3>4 DEF Members
    <2>9. NoDuplicates(new)
      <3> SUFFICES ASSUME NEW i \in DOMAIN new, NEW j \in DOMAIN new,
                          new[i] = new[j]
                   PROVE  i = j
        BY DEF NoDuplicates
      <3> QED BY <2>1, <2>2, <2>3, <2>5, <2>7
    <2> QED BY <2>4, <2>8, <2>9
  <1> QED BY <1>1, <1>2

LEMMA SelectionsMembers ==
    ASSUME NEW S, NEW list \in Seq(S), NEW keep, NoDuplicates(list),
           NEW s \in Selections(list, keep)
    PROVE  /\ NoDuplicates(s)
           /\ Members(s) \subseteq Members(list) \cap keep
  <1> DEFINE places == {i \in DOMAIN list : list[i] \in keep}
  <1>1. PICK n \in 0..Len(list) : \E f \in [1..n -> places] :
          /\ \A i, j \in DOMAIN f : i < j => f[i] < f[j]
          /\ s = [i \in DOMAIN f |-> list[f[i]]]
    BY DEF Selections
  <1> PICK f \in [1..n -> places] :
          /\ \A i, j \in DOMAIN f : i < j => f[i] < f[j]
          /\ s = [i \in DOMAIN f |-> list[f[i]]]
    BY <1>1
  <1>2. /\ n \in Nat /\ DOMAIN f = 1..n /\ DOMAIN s = 1..n
        /\ DOMAIN list = 1..Len(list) /\ Len(list) \in Nat
    BY <1>1, SeqFacts
  <1>3. \A i \in 1..n : /\ f[i] \in DOMAIN list /\ list[f[i]] \in keep
                        /\ s[i] = list[f[i]]
    BY <1>1, <1>2
  <1>4. \A i, j \in 1..n : f[i] = f[j] => i = j
    <2> SUFFICES ASSUME NEW i \in 1..n, NEW j \in 1..n, i # j
                 PROVE  f[i] # f[j]
      OBVIOUS
    <2>1. i < j \/ j < i
      BY <1>2
    <2>2. f[i] \in Int /\ f[j] \in Int
      BY <1>2, <1>3
    <2> QED BY <1>1, <1>2, <2>1, <2>2
  <1>5. NoDuplicates(s)
    BY <1>2, <1>3, <1>4 DEF NoDuplicates
  <1>6. Members(s) \subseteq Members(list) \cap keep
    BY <1>2, <1>3 DEF Members
  <1> QED BY <1>5, <1>6

LEMMA ConcatenationMembers ==
    ASSUME NEW S, NEW s \in Seq(S), NEW u \in Seq(S)
    PROVE  /\ Members(s \o u) = Members(s) \cup Members(u)
           /\ NoDuplicates(s) /\ NoDuplicates(u)
              /\ Members(s) \cap Members(u) = {} => NoDuplicates(s \o u)
  <1> DEFINE new == s \o u
  <1>1. /\ Len(s) \in Nat /\ Len(u) \in Nat
        /\ DOMAIN s = 1..Len(s) /\ DOMAIN u = 1..Len(u)
        /\ DOMAIN new = 1..Len(s) + Len(u)
        /\ \A i \in 1..Len(s) + Len(u) :
             new[i] = IF i <= Len(s) THEN s[i] ELSE u[i - Len(s)]
    OBVIOUS
  <1> HIDE DEF new
  <1>2. \A i \in DOMAIN new :
          \/ i \in DOMAIN s /\ new[i] = s[i]
          \/ i - Len(s) \in DOMAIN u /\ i > Len(s) /\ new[i] = u[i - Len(s)]
    BY <1>1
  <1>3. /\ \A i \in DOMAIN s : i \in DOMAIN new /\ new[i] = s[i]
        /\ \A i \in DOMAIN u : /\ Len(s) + i \in DOMAIN new
                               /\ new[Len(s) + i] = u[i]
    BY <1>1
  <1>4. Members(new) = Members(s) \cup Members(u)
    <2>1. Members(new) \subseteq Members(s) \cup Members(u)
      BY <1>2 DEF Members
    <2>2. Members(s) \cup Members(u) \subseteq Members(new)
      BY <1>3 DEF Members
    <2> QED BY <2>1, <2>2
  <1>5. ASSUME NoDuplicates(s), NoDuplicates(u),
               Members(s) \cap Members(u) = {}
        PROVE  NoDuplicates(new)
    <2> SUFFICES ASSUME NEW i \in DOMAIN new, NEW j \in DOMAIN new,
                        new[i] = new[j]
                 PROVE  i = j
      BY DEF NoDuplicates
    <2>1. \A m \in DOMAIN s, n \in DOMAIN u : s[m] # u[n]
      BY <1>5 DEF Members
    <2>2. /\ \A m, n \in DOMAIN s : s[m] = s[n] => m = n
          /\ \A m, n \in DOMAIN u : u[m] = u[n] => m = n
      BY <1>5 DEF NoDuplicates
    <2>3. i \in Int /\ j \in Int
      BY <1>1
    <2> QED BY <1>1, <1>2, <2>1, <2>2, <2>3
  <1> QED BY <1>4, <1>5 DEF new

-----------------------------------------------------------------------------
(***************************************************************************)
(* The helpers that move a timer between the lists.                        *)
(***************************************************************************)

\* Two lists as ListsConsistent wants them, with the entries ent.
Split(ent, active, processed) ==
    /\ NoDuplicates(active) /\ NoDuplicates(processed)
    /\ \A u \in Members(active) : ent[u].state # StateEnded
    /\ \A u \in Members(processed) : ent[u].state = StateEnded

LEMMA SplitLists == ListsConsistent <=> Split(entry, timer_list, processed_timers)
  BY DEF ListsConsistent, Split

LEMMA BlankState == Blank.state # StateEnded
  BY DEF Blank, NewEntry, ResetState, TimeChanged, StateWaiting, StateEnded

LEMMA ProcessRepeatedState ==
    ASSUME NEW e \in Entries, NEW at, NEW findRunningEvent,
           NEW x \in ProcessRepeated(e, at, findRunningEvent)
    PROVE  x.state = e.state
  BY DEF ProcessRepeated, TimeChanged, Entries

\* What the stack may be after a call: the one given, or a nested
\* calcNextActivation on top of it.
Resumes(k) == todo' = k \/ todo' = <<Calc>> \o k

LEMMA EnqueueLists ==
    ASSUME entry \in [Timers -> Entries], NEW t \in Timers, NEW e, NEW k,
           NEW active \in Seq(Timers), NEW processed \in Seq(Timers),
           Split(entry, active, processed),
           t \notin Members(active), t \notin Members(processed),
           e.state # StateEnded,
           Enqueue(t, e, active, k), processed_timers' = processed
    PROVE  /\ ListsConsistent'
           /\ Known' = Members(active) \cup Members(processed) \cup {t}
           /\ todo' = k
  <1>1. PICK p \in InsertPoints(active, GetNextActivation(e)) :
          timer_list' = InsertAfter(active, p, t)
    BY DEF Enqueue
  <1>2. p \in 0..Len(active)
    BY InsertPointsType
  <1>3. /\ Members(timer_list') = Members(active) \cup {t}
        /\ NoDuplicates(timer_list')
    BY <1>1, <1>2, InsertAfterMembers DEF Split
  <1>4. /\ entry'[t].state # StateEnded
        /\ \A u \in Timers : u # t => entry'[u] = entry[u]
    BY DEF Enqueue
  <1>5. /\ Members(active) \subseteq Timers
        /\ Members(processed) \subseteq Timers
    BY MembersType
  <1>6. Split(entry', timer_list', processed_timers')
    BY <1>3, <1>4, <1>5 DEF Split
  <1>7. ListsConsistent'
    BY <1>6 DEF Split, ListsConsistent
  <1>8. Known' = Members(active) \cup Members(processed) \cup {t}
    BY <1>3 DEF Known
  <1> QED BY <1>7, <1>8 DEF Enqueue

LEMMA RetireLists ==
    ASSUME entry \in [Timers -> Entries], NEW t \in Timers,
           NEW e \in Entries, NEW k,
           NEW active \in Seq(Timers), NEW processed \in Seq(Timers),
           Split(entry, active, processed),
           t \notin Members(active), t \notin Members(processed),
           Retire(t, e, processed, k), timer_list' = active
    PROVE  /\ ListsConsistent'
           /\ Known' = Members(active) \cup Members(processed) \cup {t}
           /\ todo' = k
  <1>1. PICK p \in InsertPoints(processed, GetNextActivation(e)) :
          processed_timers' = InsertAfter(processed, p, t)
    BY DEF Retire
  <1>2. p \in 0..Len(processed)
    BY InsertPointsType
  <1>3. /\ Members(processed_timers') = Members(processed) \cup {t}
        /\ NoDuplicates(processed_timers')
    BY <1>1, <1>2, InsertAfterMembers DEF Split
  <1>4. /\ entry'[t].state = StateEnded
        /\ \A u \in Timers : u # t => entry'[u] = entry[u]
    BY DEF Retire, Entries
  <1>5. /\ Members(active) \subseteq Timers
        /\ Members(processed) \subseteq Timers
    BY MembersType
  <1>6. Split(entry', timer_list', processed_timers')
    BY <1>3, <1>4, <1>5 DEF Split
  <1>7. ListsConsistent'
    BY <1>6 DEF Split, ListsConsistent
  <1>8. Known' = Members(active) \cup Members(processed) \cup {t}
    BY <1>3 DEF Known
  <1> QED BY <1>7, <1>8 DEF Retire

LEMMA AddTimerEntryLists ==
    ASSUME entry \in [Timers -> Entries], NEW t \in Timers,
           NEW e \in Entries, NEW k, NEW noRecalc \in BOOLEAN,
           NEW active \in Seq(Timers), NEW processed \in Seq(Timers),
           Split(entry, active, processed),
           t \notin Members(active), t \notin Members(processed),
           AddTimerEntry(t, e, active, processed, k, noRecalc)
    PROVE  /\ ListsConsistent'
           /\ Known' = Members(active) \cup Members(processed) \cup {t}
           /\ todo' = k \/ (todo' = <<Calc>> \o k /\ ~noRecalc)
  <1>1. PICK x \in ProcessRepeated(e, now, TRUE) :
          IF AlreadyPassed(x)
          THEN Retire(t, x, processed, k) /\ timer_list' = active
          ELSE /\ Enqueue(t, x, active, Recalc(k, noRecalc))
               /\ processed_timers' = processed
    BY DEF AddTimerEntry
  <1>2. x \in Entries
    BY ProcessRepeatedType
  <1>3. CASE AlreadyPassed(x)
    BY <1>1, <1>2, <1>3, RetireLists
  <1>4. CASE ~AlreadyPassed(x)
    <2>1. x.state # StateEnded
      BY <1>4 DEF AlreadyPassed
    <2>2. /\ ListsConsistent'
          /\ Known' = Members(active) \cup Members(processed) \cup {t}
          /\ todo' = Recalc(k, noRecalc)
      BY <1>1, <1>4, <2>1, EnqueueLists
    <2> QED BY <2>2 DEF Recalc
  <1> QED BY <1>3, <1>4

LEMMA TimerTimeChangedLists ==
    ASSUME ListTypes, ListsConsistent, NEW t \in Timers,
           NEW e \in Entries, e.state = entry[t].state, NEW k,
           TimerTimeChanged(t, e, k)
    PROVE  /\ ListsConsistent'
           /\ Known' = Known \cup {t}
           /\ Resumes(k)
  <1> DEFINE changed == TimeChanged(e)
             restored == IF e.state = StateEnded
                         THEN [changed EXCEPT !.state = StateWaiting]
                         ELSE changed
             active == IF e.state = StateEnded THEN timer_list
                       ELSE RemoveTimer(timer_list, t)
             processed == IF e.state = StateEnded
                          THEN RemoveTimer(processed_timers, t)
                          ELSE processed_timers
  <1>1. AddTimerEntry(t, restored, active, processed, k, FALSE)
    BY DEF TimerTimeChanged
  <1>2. restored \in Entries
    <2>1. changed \in Entries
      BY TimeChangedType
    <2> QED BY <2>1, StateType
  <1>3. active \in Seq(Timers) /\ processed \in Seq(Timers)
    BY RemoveTimerType DEF ListTypes
  <1>4. /\ Members(RemoveTimer(timer_list, t)) = Members(timer_list) \ {t}
        /\ NoDuplicates(RemoveTimer(timer_list, t))
        /\ Members(RemoveTimer(processed_timers, t))
             = Members(processed_timers) \ {t}
        /\ NoDuplicates(RemoveTimer(processed_timers, t))
    BY RemoveTimerMembers DEF ListTypes, ListsConsistent
  <1>5. /\ Split(entry, active, processed)
        /\ t \notin Members(active) /\ t \notin Members(processed)
        /\ Members(active) \cup Members(processed) \cup {t} = Known \cup {t}
    <2>1. CASE e.state = StateEnded
      BY <1>4, <2>1 DEF ListsConsistent, Split, Known
    <2>2. CASE e.state # StateEnded
      BY <1>4, <2>2 DEF ListsConsistent, Split, Known
    <2> QED BY <2>1, <2>2
  <1> HIDE DEF restored, active, processed
  <1>6. /\ ListsConsistent'
        /\ Known' = Members(active) \cup Members(processed) \cup {t}
        /\ todo' = k \/ (todo' = <<Calc>> \o k /\ ~FALSE)
    BY <1>1, <1>2, <1>3, <1>5, AddTimerEntryLists DEF ListTypes
  <1> QED BY <1>5, <1>6 DEF Resumes

LEMMA RequeueLists ==
    ASSUME ListTypes, ListsConsistent, NEW t \in Timers,
           entry[t].state # StateEnded, NEW e \in Entries, NEW k,
           Requeue(t, e, k)
    PROVE  /\ ListsConsistent'
           /\ Known' = Known \cup {t}
           /\ Resumes(k)
  <1> DEFINE active == RemoveTimer(timer_list, t)
  <1>1. active \in Seq(Timers)
    BY RemoveTimerType DEF ListTypes
  <1>2. Members(active) = Members(timer_list) \ {t} /\ NoDuplicates(active)
    BY RemoveTimerMembers DEF ListTypes, ListsConsistent
  <1>3. /\ Split(entry, active, processed_timers)
        /\ t \notin Members(active) /\ t \notin Members(processed_timers)
        /\ Members(active) \cup Members(processed_timers) \cup {t}
             = Known \cup {t}
    BY <1>2 DEF ListsConsistent, Split, Known
  <1>4. \/ /\ e.state < StateEnded
           /\ Enqueue(t, e, active, k) /\ UNCHANGED processed_timers
        \/ \E x \in ProcessRepeated(e, now, TRUE) :
             AddTimerEntry(t, [x EXCEPT !.state = StateWaiting], active,
                           processed_timers, k, FALSE)
        \/ Retire(t, e, processed_timers, k) /\ timer_list' = active
    BY DEF Requeue
  <1> HIDE DEF active
  <1>5. ASSUME e.state < StateEnded,
               Enqueue(t, e, active, k) /\ UNCHANGED processed_timers
        PROVE  /\ ListsConsistent' /\ Known' = Known \cup {t} /\ Resumes(k)
    <2>1. e.state # StateEnded
      BY <1>5 DEF StateEnded
    <2>2. /\ ListsConsistent'
          /\ Known' = Members(active) \cup Members(processed_timers) \cup {t}
          /\ todo' = k
      BY <1>1, <1>3, <1>5, <2>1, EnqueueLists DEF ListTypes
    <2> QED BY <1>3, <2>2 DEF Resumes
  <1>6. ASSUME NEW x \in ProcessRepeated(e, now, TRUE),
               AddTimerEntry(t, [x EXCEPT !.state = StateWaiting], active,
                             processed_timers, k, FALSE)
        PROVE  /\ ListsConsistent' /\ Known' = Known \cup {t} /\ Resumes(k)
    <2>1. x \in Entries
      BY ProcessRepeatedType
    <2>2. [x EXCEPT !.state = StateWaiting] \in Entries
      BY <2>1, StateType
    <2>3. /\ ListsConsistent'
          /\ Known' = Members(active) \cup Members(processed_timers) \cup {t}
          /\ todo' = k \/ (todo' = <<Calc>> \o k /\ ~FALSE)
      BY <1>1, <1>3, <1>6, <2>2, AddTimerEntryLists DEF ListTypes
    <2> QED BY <1>3, <2>3 DEF Resumes
  <1>7. ASSUME Retire(t, e, processed_timers, k) /\ timer_list' = active
        PROVE  /\ ListsConsistent' /\ Known' = Known \cup {t} /\ Resumes(k)
    <2>1. /\ ListsConsistent'
          /\ Known' = Members(active) \cup Members(processed_timers) \cup {t}
          /\ todo' = k
      BY <1>1, <1>3, <1>7, RetireLists DEF ListTypes
    <2> QED BY <1>3, <2>1 DEF Resumes
  <1> QED BY <1>4, <1>5, <1>6, <1>7

-----------------------------------------------------------------------------
(***************************************************************************)
(* The call stack.                                                         *)
(***************************************************************************)

\* A stack the program may go on with, when the timers in known are, or may be,
\* in the lists.
Fits(stack, known, timers) ==
    /\ NoRearm(stack) /\ StackInOrder(stack)
    /\ Arriving(stack, timers) \cap (known \cup Considered(stack)) = {}

Plain(f) == f.op \notin {"rearm", "add", "load"}

LEMMA FitsFewer ==
    ASSUME NEW stack, NEW known, NEW fewer, NEW timers, fewer \subseteq known,
           Fits(stack, known, timers)
    PROVE  Fits(stack, fewer, timers)
  BY DEF Fits

\* No call of the stack brings in a timer.
LEMMA FitsPlain ==
    ASSUME NEW stack \in Seq(Frames), \A f \in Members(stack) : Plain(f),
           NEW known, NEW timers
    PROVE  Fits(stack, known, timers)
  <1>1. NoRearm(stack)
    BY DEF NoRearm, Plain
  <1>2. Arriving(stack, timers) = {}
    BY DEF Arriving, ArrivesBy, Plain
  <1>3. stack # <<>> => NoRearm(Tail(stack))
    BY <1>1, MembersTail DEF NoRearm
  <1>4. \A i, j \in DOMAIN stack :
          stack[i].op \in Arrivals /\ stack[j].op \in Arrivals => i = j
    BY DEF Members, Plain, Arrivals
  <1>5. StackInOrder(stack)
    BY <1>3, <1>4 DEF StackInOrder, Plain
  <1> QED BY <1>1, <1>2, <1>5 DEF Fits

\* At most one call brings in timers: of a call and those below it, not both.
LEMMA OneArrival ==
    ASSUME NEW f \in Frames, NEW stack \in Seq(Frames)
    PROVE  (\A i, j \in DOMAIN (<<f>> \o stack) :
              /\ (<<f>> \o stack)[i].op \in Arrivals
              /\ (<<f>> \o stack)[j].op \in Arrivals
              => i = j)
           <=> /\ \A i, j \in DOMAIN stack :
                    stack[i].op \in Arrivals /\ stack[j].op \in Arrivals
                      => i = j
               /\ f.op \in Arrivals
                    => \A g \in Members(stack) : g.op \notin Arrivals
  <1> DEFINE new == <<f>> \o stack
  <1>1. /\ Len(stack) \in Nat /\ DOMAIN stack = 1..Len(stack)
        /\ DOMAIN new = 1..Len(stack) + 1 /\ new[1] = f
        /\ \A i \in 1..Len(stack) : new[i + 1] = stack[i]
    OBVIOUS
  <1>2. /\ 1 \in DOMAIN new
        /\ \A i \in DOMAIN stack : i + 1 \in DOMAIN new /\ i + 1 # 1
        /\ \A i \in DOMAIN new : i = 1 \/ (/\ i - 1 \in DOMAIN stack
                                           /\ new[i] = stack[i - 1])
        /\ \A i, j \in DOMAIN new : i - 1 = j - 1 => i = j
        /\ \A i, j \in DOMAIN stack : i + 1 = j + 1 => i = j
    BY <1>1
  <1> HIDE DEF new
  <1>3. ASSUME \A i, j \in DOMAIN new :
                 new[i].op \in Arrivals /\ new[j].op \in Arrivals => i = j
        PROVE  /\ \A i, j \in DOMAIN stack :
                    stack[i].op \in Arrivals /\ stack[j].op \in Arrivals
                      => i = j
               /\ f.op \in Arrivals
                    => \A g \in Members(stack) : g.op \notin Arrivals
    BY <1>1, <1>2, <1>3 DEF Members
  <1>4. ASSUME \A i, j \in DOMAIN stack :
                 stack[i].op \in Arrivals /\ stack[j].op \in Arrivals => i = j,
               f.op \in Arrivals
                 => \A g \in Members(stack) : g.op \notin Arrivals
        PROVE  \A i, j \in DOMAIN new :
                 new[i].op \in Arrivals /\ new[j].op \in Arrivals => i = j
    BY <1>1, <1>2, <1>4 DEF Members
  <1> QED BY <1>3, <1>4 DEF new

LEMMA FitsPush ==
    ASSUME NEW f \in Frames, NEW stack \in Seq(Frames), NEW known, NEW timers,
           Fits(stack, known, timers),
           Plain(f), f.op \notin {"save", "write"},
           About(f) \cap Arriving(stack, timers) = {}
    PROVE  /\ Fits(<<f>> \o stack, known, timers)
           /\ Considered(<<f>> \o stack) = About(f) \cup Considered(stack)
           /\ Arriving(<<f>> \o stack, timers) = Arriving(stack, timers)
  <1> DEFINE new == <<f>> \o stack
  <1>1. Members(new) = {f} \cup Members(stack) /\ Tail(new) = stack
    BY MembersPush
  <1>2. \A i, j \in DOMAIN new :
          new[i].op \in Arrivals /\ new[j].op \in Arrivals => i = j
    BY OneArrival DEF Fits, StackInOrder, Plain, Arrivals
  <1> HIDE DEF new
  <1>3. Considered(new) = About(f) \cup Considered(stack)
    BY <1>1 DEF Considered
  <1>4. ArrivesBy(f, timers) = {}
    BY DEF ArrivesBy, Plain
  <1>5. Arriving(new, timers) = Arriving(stack, timers)
    BY <1>1, <1>4 DEF Arriving
  <1>6. NoRearm(new)
    BY <1>1 DEF NoRearm, Fits, Plain
  <1>7. StackInOrder(new)
    BY <1>1, <1>2 DEF StackInOrder, Fits, Plain
  <1>8. Fits(new, known, timers)
    BY <1>3, <1>5, <1>6, <1>7 DEF Fits
  <1> QED BY <1>3, <1>5, <1>8 DEF new

LEMMA FitsCalc ==
    ASSUME NEW stack \in Seq(Frames), NEW known, NEW timers,
           Fits(stack, known, timers)
    PROVE  Fits(<<Calc>> \o stack, known, timers)
  <1>1. Calc \in Frames /\ Plain(Calc) /\ Calc.op \notin {"save", "write"}
    BY FrameType DEF Calc, Frame, Plain
  <1>2. About(Calc) = {}
    BY MembersEmpty DEF About, Calc, Frame
  <1> QED BY <1>1, <1>2, FitsPush

\* The call that brings in the timers is the only one.
LEMMA FitsArrival ==
    ASSUME NEW f \in Frames, f.op \in Arrivals, NEW known, NEW timers,
           ArrivesBy(f, timers) \cap known = {}
    PROVE  /\ Fits(<<f>>, known, timers)
           /\ Arriving(<<f>>, timers) = ArrivesBy(f, timers)
  <1>1. /\ <<f>> \in Seq(Frames) /\ DOMAIN <<f>> = {1}
        /\ <<f>>[1] = f /\ Tail(<<f>>) = <<>>
    OBVIOUS
  <1>2. Members(<<f>>) = {f}
    BY <1>1 DEF Members
  <1>3. About(f) = {}
    <2>1. f.rest = <<>>
      BY DEF Frames, Arrivals
    <2> QED BY <2>1, MembersEmpty DEF About, Arrivals
  <1>4. Considered(<<f>>) = {} /\ Arriving(<<f>>, timers) = ArrivesBy(f, timers)
    BY <1>2, <1>3 DEF Considered, Arriving
  <1>5. NoRearm(<<f>>)
    BY <1>2 DEF NoRearm, Arrivals
  <1>6. NoRearm(Tail(<<f>>))
    BY <1>1, MembersEmpty DEF NoRearm
  <1>7. \A g, h \in Members(<<f>>) : g.op = "load" => h.op \notin {"save", "write"}
    BY <1>2
  <1>8. StackInOrder(<<f>>)
    BY <1>1, <1>6, <1>7 DEF StackInOrder
  <1> QED BY <1>4, <1>5, <1>8 DEF Fits

LEMMA RearmOnTop ==
    ASSUME NEW f \in Frames, f.op = "rearm", NEW stack \in Seq(Frames),
           NEW timers, NoRearm(stack), StackInOrder(stack)
    PROVE  /\ StackInOrder(<<f>> \o stack)
           /\ Considered(<<f>> \o stack) = Members(f.rest) \cup Considered(stack)
           /\ Arriving(<<f>> \o stack, timers) = Arriving(stack, timers)
           /\ Head(<<f>> \o stack) = f
  <1> DEFINE new == <<f>> \o stack
  <1>1. /\ Members(new) = {f} \cup Members(stack)
        /\ Tail(new) = stack /\ Head(new) = f
    BY MembersPush
  <1>2. \A i, j \in DOMAIN new :
          new[i].op \in Arrivals /\ new[j].op \in Arrivals => i = j
    BY OneArrival DEF StackInOrder, Arrivals
  <1> HIDE DEF new
  <1>3. About(f) = Members(f.rest) /\ ArrivesBy(f, timers) = {}
    BY DEF About, ArrivesBy
  <1>4. /\ Considered(new) = Members(f.rest) \cup Considered(stack)
        /\ Arriving(new, timers) = Arriving(stack, timers)
    BY <1>1, <1>3 DEF Considered, Arriving
  <1>5. StackInOrder(new)
    BY <1>1, <1>2 DEF StackInOrder
  <1> QED BY <1>1, <1>4, <1>5 DEF new

\* What a call leaves below it.
LEMMA RestFits ==
    ASSUME TypeOK, ListsInv, todo # <<>>
    PROVE  /\ Rest \in Seq(Frames) /\ Top \in Frames
           /\ Considered(todo) = About(Top) \cup Considered(Rest)
           /\ Arriving(todo, file.timers)
                = ArrivesBy(Top, file.timers) \cup Arriving(Rest, file.timers)
           /\ Fits(Rest, Known \cup Considered(todo), file.timers)
           /\ Top.op \in Arrivals => \A g \in Members(Rest) : Plain(g)
           /\ Top.op \in {"save", "write"} =>
                \A g \in Members(Rest) : g.op # "load"
  <1>1. todo \in Seq(Frames)
    BY DEF TypeOK
  <1>2. PICK f \in Frames, stack \in Seq(Frames) :
          f = Top /\ stack = Rest /\ todo = <<f>> \o stack
    BY <1>1, MembersTail DEF Top, Rest
  <1>3. Members(todo) = {f} \cup Members(stack)
    BY <1>2, MembersPush
  <1>4. /\ NoRearm(stack)
        /\ \A i, j \in DOMAIN stack :
             stack[i].op \in Arrivals /\ stack[j].op \in Arrivals => i = j
        /\ f.op \in Arrivals => \A g \in Members(stack) : g.op \notin Arrivals
    BY <1>2, OneArrival DEF ListsInv, StackInOrder, Rest
  <1>5. stack # <<>> => NoRearm(Tail(stack))
    BY <1>4, MembersTail DEF NoRearm
  <1>6. StackInOrder(stack)
    BY <1>3, <1>4, <1>5 DEF ListsInv, StackInOrder
  <1>7. Considered(todo) = About(f) \cup Considered(stack)
    BY <1>3 DEF Considered
  <1>8. Arriving(todo, file.timers)
          = ArrivesBy(f, file.timers) \cup Arriving(stack, file.timers)
    BY <1>3 DEF Arriving
  <1>9. Fits(stack, Known \cup Considered(todo), file.timers)
    BY <1>4, <1>6, <1>7, <1>8 DEF Fits, ListsInv
  <1>10. f.op \in Arrivals => \A g \in Members(stack) : Plain(g)
    BY <1>4 DEF Plain, NoRearm, Arrivals
  <1>11. f.op \in {"save", "write"} => \A g \in Members(stack) : g.op # "load"
    BY <1>3 DEF ListsInv, StackInOrder
  <1> QED BY <1>2, <1>7, <1>8, <1>9, <1>10, <1>11

\* A call that goes on as f.
LEMMA ReplaceFits ==
    ASSUME TypeOK, ListsInv, todo # <<>>, Top.op # "rearm",
           NEW f \in Frames, f.op = Top.op, About(f) \subseteq About(Top),
           ArrivesBy(f, file.timers) \subseteq ArrivesBy(Top, file.timers),
           NEW known,
           known \cap (ArrivesBy(f, file.timers)
                         \cup Arriving(Rest, file.timers)) = {}
    PROVE  Fits(<<f>> \o Rest, known, file.timers)
  <1> DEFINE new == <<f>> \o Rest
  <1>1. /\ Rest \in Seq(Frames) /\ Top \in Frames
        /\ Considered(todo) = About(Top) \cup Considered(Rest)
        /\ Arriving(todo, file.timers)
             = ArrivesBy(Top, file.timers) \cup Arriving(Rest, file.timers)
        /\ NoRearm(Rest) /\ StackInOrder(Rest)
    BY RestFits DEF Fits
  <1>2. Members(new) = {f} \cup Members(Rest) /\ Tail(new) = Rest
    BY <1>1, MembersPush
  <1>3. todo = <<Top>> \o Rest
    BY MembersTail DEF TypeOK, Top, Rest
  <1>4. Members(todo) = {Top} \cup Members(Rest)
    BY <1>1, <1>3, MembersPush
  <1>5. /\ f.op \in Arrivals => \A g \in Members(Rest) : g.op \notin Arrivals
        /\ \A i, j \in DOMAIN Rest :
             Rest[i].op \in Arrivals /\ Rest[j].op \in Arrivals => i = j
    BY <1>1, <1>3, OneArrival DEF ListsInv, StackInOrder
  <1>6. \A i, j \in DOMAIN new :
          new[i].op \in Arrivals /\ new[j].op \in Arrivals => i = j
    BY <1>1, <1>5, OneArrival
  <1> HIDE DEF new
  <1>7. StackInOrder(new)
    BY <1>1, <1>2, <1>4, <1>6 DEF ListsInv, StackInOrder
  <1>8. NoRearm(new)
    BY <1>1, <1>2 DEF NoRearm
  <1>9. /\ Considered(new) = About(f) \cup Considered(Rest)
        /\ Arriving(new, file.timers)
             = ArrivesBy(f, file.timers) \cup Arriving(Rest, file.timers)
    BY <1>2 DEF Considered, Arriving
  <1>10. Arriving(new, file.timers) \cap (known \cup Considered(new)) = {}
    BY <1>1, <1>9 DEF ListsInv
  <1>11. Fits(new, known, file.timers)
    BY <1>7, <1>8, <1>10 DEF Fits
  <1> QED BY <1>11 DEF new

LEMMA ResumesFits ==
    ASSUME NEW k \in Seq(Frames), NEW known, NEW timers,
           Resumes(k), Fits(k, known, timers)
    PROVE  Fits(todo', known, timers)
  BY FitsCalc DEF Resumes

-----------------------------------------------------------------------------
(***************************************************************************)
(* What most actions come down to.                                         *)
(***************************************************************************)

LEMMA ListsFromFits ==
    ASSUME TypeOK', ListsInv, ListsConsistent', UNCHANGED file, NoRetry',
           Fits(todo', Known', file.timers)
    PROVE  ListsInv'
  <1>1. ~In("rearm")'
    <2>1. todo' \in Seq(Frames)
      BY DEF TypeOK
    <2>2. todo' # <<>> => Head(todo') \in Members(todo')
      BY <2>1, MembersTail
    <2> QED BY <2>2 DEF In, Top, Fits, NoRearm
  <1> QED BY <1>1 DEF ListsInv, Fits

\* The lists, and the stages of the timers in them, stay.
LEMMA ListsStay ==
    ASSUME TypeOK', ListsInv, UNCHANGED <<timer_list, processed_timers, file>>,
           \A u \in Known : entry'[u].state = entry[u].state,
           NoRetry', Fits(todo', Known, file.timers)
    PROVE  ListsInv'
  <1>1. Known' = Known
    BY DEF Known
  <1>2. ListsConsistent'
    BY DEF ListsInv, ListsConsistent, Known
  <1> QED BY <1>1, <1>2, ListsFromFits

\* t is taken out and enqueued again.
LEMMA ListsAfterTimeChange ==
    ASSUME TypeOK, TypeOK', ListsInv, NEW t \in Timers, NEW e \in Entries,
           e.state = entry[t].state, NEW k \in Seq(Frames),
           TimerTimeChanged(t, e, k), UNCHANGED file, NoRetry',
           Fits(k, Known \cup {t}, file.timers)
    PROVE  ListsInv'
  <1>1. ListsConsistent' /\ Known' = Known \cup {t} /\ Resumes(k)
    BY TypeParts, TimerTimeChangedLists DEF ListsInv
  <1>2. Fits(todo', Known', file.timers)
    BY <1>1, ResumesFits
  <1> QED BY <1>1, <1>2, ListsFromFits

LEMMA ListsAfterActivation ==
    ASSUME TypeOK, TypeOK', ListsInv, NEW t \in Timers, NEW k \in Seq(Frames),
           DoActivate(t, k), Fits(k, Known \cup {t}, file.timers)
    PROVE  ListsInv'
  <1>1. PICK e \in Entries : Requeue(t, e, k) /\ entry[t].state # StateEnded
    BY ActivationRequeues
  <1>2. ListsConsistent' /\ Known' = Known \cup {t} /\ Resumes(k)
    BY <1>1, TypeParts, RequeueLists DEF ListsInv
  <1>3. Fits(todo', Known', file.timers)
    BY <1>2, ResumesFits
  <1>4. UNCHANGED file /\ NoRetry'
    BY DEF DoActivate, NoRetry, ListsInv
  <1> QED BY <1>2, <1>3, <1>4, ListsFromFits

-----------------------------------------------------------------------------
(***************************************************************************)
(* The handlers.                                                           *)
(***************************************************************************)

Typed == TypeOK /\ TypeOK'

LEMMA CalcNextActivationLists ==
    ASSUME Typed, ListsInv, CalcNextActivation
    PROVE  ListsInv'
  <1>1. /\ TypeOK /\ TypeOK' /\ todo # <<>>
        /\ UNCHANGED <<entry, timer_list, file, dialog>>
    BY DEF Typed, CalcNextActivation, In
  <1>2. /\ Rest \in Seq(Frames)
        /\ Fits(Rest, Known \cup Considered(todo), file.timers)
        /\ Considered(Rest) \subseteq Considered(todo)
        /\ Arriving(Rest, file.timers) \subseteq Arriving(todo, file.timers)
    BY <1>1, RestFits
  <1>3. NoRetry'
    BY <1>1 DEF ListsInv, NoRetry
  <1>4. CASE lastActivation > now
    <2> DEFINE f == Frame("rearm", NoTimer, 0, processed_timers)
    <2>1. f \in Frames /\ f.op = "rearm" /\ f.rest = processed_timers
      BY <1>1, FrameType DEF TypeOK, Frame
    <2>2. todo' = <<f>> \o Rest /\ processed_timers' = <<>>
      BY <1>4 DEF CalcNextActivation
    <2> HIDE DEF f
    <2>3. /\ StackInOrder(todo') /\ Head(todo') = f
          /\ Considered(todo')
               = Members(processed_timers) \cup Considered(Rest)
          /\ Arriving(todo', file.timers) = Arriving(Rest, file.timers)
      BY <1>2, <2>1, <2>2, RearmOnTop DEF Fits
    <2>4. Known' = Members(timer_list)
      BY <1>1, <2>2, MembersEmpty DEF Known
    <2>5. ListsConsistent'
      BY <1>1, <2>2, MembersEmpty DEF ListsInv, ListsConsistent
    <2>6. Arriving(todo', file.timers) \cap (Known' \cup Considered(todo')) = {}
      BY <1>2, <2>3, <2>4 DEF ListsInv, Known
    <2>7. /\ NoDuplicates(f.rest)
          /\ Members(f.rest) \cap Members(timer_list) = {}
      BY <2>1 DEF ListsInv, ListsConsistent
    <2>8. Top' = f
      BY <2>3 DEF Top
    <2> QED BY <1>1, <1>3, <2>3, <2>4, <2>5, <2>6, <2>7, <2>8 DEF ListsInv
  <1>5. CASE ~(lastActivation > now)
    <2>1. todo' = <<Process>> \o Rest /\ UNCHANGED processed_timers
      BY <1>5 DEF CalcNextActivation
    <2>2. /\ Process \in Frames /\ Plain(Process)
          /\ Process.op \notin {"save", "write"} /\ About(Process) = {}
      BY <1>1, FrameType, MembersEmpty DEF TypeOK, Process, Frame, Plain, About
    <2>3. Fits(todo', Known \cup Considered(todo), file.timers)
      BY <1>2, <2>1, <2>2, FitsPush
    <2>4. Fits(todo', Known, file.timers)
      BY <2>3, FitsFewer
    <2> QED BY <1>1, <1>3, <2>1, <2>4, ListsStay
  <1> QED BY <1>4, <1>5

LEMMA ReEvaluateLists ==
    ASSUME Typed, ListsInv, ReEvaluate
    PROVE  ListsInv'
  <1>1. /\ TypeOK /\ TypeOK' /\ todo # <<>> /\ In("rearm") /\ Top.op = "rearm"
        /\ UNCHANGED <<file, dialog>>
    BY DEF Typed, ReEvaluate, In
  <1>2. /\ Rest \in Seq(Frames)
        /\ Fits(Rest, Known \cup Considered(todo), file.timers)
        /\ Considered(todo) = About(Top) \cup Considered(Rest)
        /\ Arriving(Rest, file.timers) \subseteq Arriving(todo, file.timers)
    BY <1>1, RestFits
  <1>3. NoRetry'
    BY <1>1 DEF ListsInv, NoRetry
  <1>4. /\ Top.rest \in Seq(Timers)
        /\ \A r \in Seq(Timers) : [Top EXCEPT !.rest = r] \in Frames
    BY <1>1, TopOfKind DEF TypeOK
  <1>5. CASE Top.rest = <<>>
    <2>1. /\ todo' = <<Process>> \o Rest
          /\ UNCHANGED <<entry, timer_list, processed_timers>>
      BY <1>5 DEF ReEvaluate
    <2>2. /\ Process \in Frames /\ Plain(Process)
          /\ Process.op \notin {"save", "write"} /\ About(Process) = {}
      BY <1>1, FrameType, MembersEmpty DEF TypeOK, Process, Frame, Plain, About
    <2>3. Fits(todo', Known \cup Considered(todo), file.timers)
      BY <1>2, <2>1, <2>2, FitsPush
    <2>4. Fits(todo', Known, file.timers)
      BY <2>3, FitsFewer
    <2> QED BY <1>1, <1>3, <2>1, <2>4, ListsStay
  <1>6. CASE Top.rest # <<>>
    <2> DEFINE x == Head(Top.rest)
               f == [Top EXCEPT !.rest = Tail(Top.rest)]
               k == <<f>> \o Rest
    <2>1. /\ x \in Timers /\ Tail(Top.rest) \in Seq(Timers)
          /\ Members(Top.rest) = {x} \cup Members(Tail(Top.rest))
      BY <1>4, <1>6, MembersTail
    <2>2. /\ NoDuplicates(Tail(Top.rest)) /\ x \notin Members(Tail(Top.rest))
          /\ Members(Top.rest) \cap Known = {}
      BY <1>1, <1>4, <1>6, NoDuplicatesTail DEF ListsInv
    <2>3. ResetState(entry[x]) \in Entries
      BY <1>1, <2>1, TypeParts, ResetStateType
    <2>4. AddTimerEntry(x, ResetState(entry[x]), timer_list, processed_timers,
                        k, TRUE)
      BY <1>6 DEF ReEvaluate
    <2>5. f \in Frames /\ f.op = "rearm" /\ f.rest = Tail(Top.rest)
      <3>1. Top \in Frames
        BY <1>1, TopType DEF TypeOK
      <3> QED BY <1>1, <1>4, <2>1, <3>1 DEF Frames
    <2>6. /\ Split(entry, timer_list, processed_timers)
          /\ x \notin Members(timer_list) /\ x \notin Members(processed_timers)
      BY <2>1, <2>2, SplitLists DEF ListsInv, Known
    <2> HIDE DEF x, f, k
    <2>7. /\ ListsConsistent'
          /\ Known' = Members(timer_list) \cup Members(processed_timers) \cup {x}
          /\ todo' = k
      BY <1>1, <2>1, <2>3, <2>4, <2>6, AddTimerEntryLists DEF TypeOK
    <2>8. /\ StackInOrder(todo') /\ Head(todo') = f
          /\ Considered(todo') = Members(f.rest) \cup Considered(Rest)
          /\ Arriving(todo', file.timers) = Arriving(Rest, file.timers)
      BY <1>2, <2>5, <2>7, RearmOnTop DEF Fits, k
    <2>9. About(Top) = Members(Top.rest)
      BY <1>1 DEF About
    <2>10. Arriving(todo', file.timers) \cap (Known' \cup Considered(todo')) = {}
      BY <1>2, <2>1, <2>5, <2>7, <2>8, <2>9 DEF ListsInv, Known
    <2>11. /\ NoDuplicates(f.rest) /\ Members(f.rest) \cap Known' = {}
      BY <2>1, <2>2, <2>5, <2>7 DEF Known
    <2>12. Top' = f
      BY <2>8 DEF Top
    <2> QED BY <1>1, <1>3, <2>7, <2>8, <2>10, <2>11, <2>12 DEF ListsInv
  <1> QED BY <1>5, <1>6

LEMMA ProcessActivationLists ==
    ASSUME Typed, ListsInv, ProcessActivation
    PROVE  ListsInv'
  <1> DEFINE t == Head(timer_list)
  <1>1. /\ TypeOK /\ TypeOK' /\ todo \in Seq(Frames) /\ todo # <<>>
        /\ Top.op = "process" /\ DoActivate(t, todo)
        /\ timer_list # <<>> /\ timer_list \in Seq(Timers)
    BY DEF Typed, TypeOK, ProcessActivation, In, HeadDue
  <1>2. t \in Timers /\ t \in Known
    <2>1. Members(timer_list) = {t} \cup Members(Tail(timer_list))
      BY <1>1, MembersTail
    <2>2. Members(timer_list) \subseteq Timers
      BY <1>1, MembersType
    <2> QED BY <2>1, <2>2 DEF Known
  <1>3. NoRearm(todo)
    <2>1. Members(todo) = {Top} \cup Members(Rest)
      BY <1>1, MembersTail DEF Top, Rest
    <2>2. NoRearm(Rest)
      BY <1>1 DEF ListsInv, StackInOrder, Rest
    <2> QED BY <1>1, <2>1, <2>2 DEF NoRearm
  <1>4. Fits(todo, Known \cup {t}, file.timers)
    BY <1>2, <1>3 DEF Fits, ListsInv
  <1> HIDE DEF t
  <1> QED BY <1>1, <1>2, <1>4, ListsAfterActivation

\* The end of a call that changed no list.
LEMMA ReturnLists ==
    ASSUME TypeOK, TypeOK', ListsInv, todo # <<>>, todo' = Rest,
           UNCHANGED <<entry, timer_list, processed_timers, file, dialog>>
    PROVE  ListsInv'
  <1>1. Fits(Rest, Known \cup Considered(todo), file.timers)
    BY RestFits
  <1>2. Fits(Rest, Known, file.timers)
    BY <1>1, FitsFewer
  <1>3. NoRetry'
    BY DEF ListsInv, NoRetry
  <1> QED BY <1>2, <1>3, ListsStay

LEMMA SetNextActivationLists ==
    ASSUME Typed, ListsInv, SetNextActivation
    PROVE  ListsInv'
  BY ReturnLists DEF Typed, SetNextActivation, In

\* The box goes down: nothing but the boot is left to do.
LEMMA BootOnlyLists ==
    ASSUME TypeOK', ListsInv, todo' = <<BootFrame>>,
           UNCHANGED <<entry, timer_list, processed_timers, file, dialog>>
    PROVE  ListsInv'
  <1>1. <<BootFrame>> \in Seq(Frames)
    BY FrameType, SingletonType
  <1>2. \A f \in Members(<<BootFrame>>) : Plain(f)
    BY DEF Members, BootFrame, Frame, Plain
  <1>3. Fits(<<BootFrame>>, Known, file.timers)
    BY <1>1, <1>2, FitsPlain
  <1>4. NoRetry'
    BY DEF ListsInv, NoRetry
  <1> QED BY <1>3, <1>4, ListsStay

LEMMA FatalLists ==
    ASSUME Typed, ListsInv, Fatal
    PROVE  ListsInv'
  BY BootOnlyLists DEF Typed, Fatal

\* timers.xml changes only while nothing is loaded from it.
LEMMA FileLists ==
    ASSUME TypeOK, TypeOK', ListsInv, In("save") \/ In("write"), todo' = Rest,
           DistinctTimers(file'.timers),
           UNCHANGED <<entry, timer_list, processed_timers, dialog>>
    PROVE  ListsInv'
  <1>1. todo # <<>> /\ Top.op \in {"save", "write"}
    BY DEF In
  <1>2. /\ Fits(Rest, Known \cup Considered(todo), file.timers)
        /\ \A g \in Members(Rest) : g.op # "load"
    BY <1>1, RestFits
  <1>3. Arriving(Rest, file'.timers) = Arriving(Rest, file.timers)
    BY <1>2 DEF Arriving, ArrivesBy
  <1>4. Fits(todo', Known, file'.timers)
    BY <1>2, <1>3 DEF Fits
  <1>5. ~In("rearm")'
    <2>1. todo' \in Seq(Frames)
      BY DEF TypeOK
    <2>2. todo' # <<>> => Head(todo') \in Members(todo')
      BY <2>1, MembersTail
    <2> QED BY <1>4, <2>2 DEF In, Top, Fits, NoRearm
  <1>6. Known' = Known /\ ListsConsistent' /\ NoRetry'
    BY DEF Known, ListsInv, ListsConsistent, NoRetry
  <1> QED BY <1>4, <1>5, <1>6 DEF ListsInv, Fits

LEMMA TruncateLists ==
    ASSUME Typed, ListsInv, Truncate
    PROVE  ListsInv'
  <1>1. DistinctTimers(file'.timers)
    BY DEF Truncate, Truncated, DistinctTimers
  <1> QED BY <1>1, FileLists DEF Typed, Truncate

LEMMA WriteLists ==
    ASSUME Typed, ListsInv, Write
    PROVE  ListsInv'
  <1> DEFINE all == timer_list \o processed_timers
  <1>1. TypeOK /\ timer_list \in Seq(Timers) /\ processed_timers \in Seq(Timers)
    BY DEF Typed, TypeOK
  <1>2. PICK kept \in Selections(all, {t \in Timers : ~entry[t].dontSave}) :
          file' = Holding([i \in DOMAIN kept |-> SavedForm(kept[i])])
    BY DEF Write
  <1>3. all \in Seq(Timers) /\ NoDuplicates(all)
    <2>1. Members(timer_list) \cap Members(processed_timers) = {}
      BY DEF ListsInv, ListsConsistent
    <2> QED BY <1>1, <2>1, ConcatenationMembers DEF ListsInv, ListsConsistent
  <1> HIDE DEF all
  <1>4. NoDuplicates(kept)
    BY <1>2, <1>3, SelectionsMembers
  <1>5. file'.timers = [i \in DOMAIN kept |-> SavedForm(kept[i])]
    BY <1>2 DEF Holding
  <1>6. \A i \in DOMAIN kept : file'.timers[i].t = kept[i]
    BY <1>5 DEF SavedForm
  <1>7. DistinctTimers(file'.timers)
    BY <1>4, <1>5, <1>6 DEF DistinctTimers, NoDuplicates
  <1> QED BY <1>7, FileLists DEF Typed, Write

LEMMA BootLists ==
    ASSUME Typed, ListsInv, Boot
    PROVE  ListsInv'
  <1>1. /\ TypeOK' /\ timer_list' = <<>> /\ processed_timers' = <<>>
        /\ dialog' = NoDialog
    BY DEF Typed, Boot
  <1>2. Known' = {} /\ ListsConsistent' /\ NoRetry'
    BY <1>1, MembersEmpty DEF Known, ListsConsistent, NoRetry, NoDialog
  <1>3. CASE file.intact
    <2> DEFINE f == Frame("load", NoTimer, 1, <<>>)
    <2>1. UNCHANGED file /\ todo' = <<f>>
      BY <1>3 DEF Boot
    <2>2. f \in Frames /\ f.op \in Arrivals
      <3>1. f \in Frames
        BY FrameType
      <3> QED BY <3>1 DEF Frame, Arrivals
    <2> HIDE DEF f
    <2>3. Fits(todo', Known', file.timers)
      BY <1>2, <2>1, <2>2, FitsArrival
    <2> QED BY <1>1, <1>2, <2>1, <2>3, ListsFromFits
  <1>4. CASE ~file.intact
    <2>1. file'.timers = <<>> /\ todo' = <<>>
      BY <1>4 DEF Boot, Holding
    <2>2. Fits(todo', Known', file'.timers)
      <3>1. <<>> \in Seq(Frames) /\ \A f \in Members(<<>>) : Plain(f)
        BY MembersEmpty, EmptySeqType
      <3>2. Fits(<<>>, Known', file'.timers)
        BY <3>1, FitsPlain
      <3> QED BY <2>1, <3>2
    <2>3. DistinctTimers(file'.timers) /\ ~In("rearm")'
      BY <2>1 DEF DistinctTimers, In
    <2> QED BY <1>2, <2>2, <2>3 DEF ListsInv, Fits
  <1> QED BY <1>3, <1>4

LEMMA LoadTimerLists ==
    ASSUME Typed, ListsInv, LoadTimer
    PROVE  ListsInv'
  <1> DEFINE f == [Top EXCEPT !.n = Top.n + 1]
             next == <<f>> \o Rest
             s == file.timers[Top.n]
             e == NewEntry(s.begin, s.end, s.repeated, s.disabled, s.justplay)
  <1>1. /\ TypeOK /\ TypeOK' /\ todo # <<>> /\ Top.op = "load"
        /\ UNCHANGED <<file, dialog>>
    BY DEF Typed, LoadTimer, In
  <1>2. /\ Top \in Frames /\ Top.n \in Nat \ {0} /\ f \in Frames
        /\ file.timers \in Seq(SavedTimer)
    BY <1>1, TopOfKind, TopType DEF TypeOK
  <1>3. f.op = "load" /\ f.n = Top.n + 1 /\ f.rest = Top.rest
    BY <1>1, <1>2 DEF Frames
  <1>4. /\ Rest \in Seq(Frames)
        /\ \A g \in Members(Rest) : Plain(g)
        /\ Arriving(todo, file.timers)
             = ArrivesBy(Top, file.timers) \cup Arriving(Rest, file.timers)
    BY <1>1, RestFits DEF Arrivals
  <1>5. Arriving(Rest, file.timers) = {}
    BY <1>4 DEF Arriving, ArrivesBy, Plain
  <1>6. ArrivesBy(f, file.timers) \subseteq ArrivesBy(Top, file.timers)
    <2>1. \A i \in DOMAIN file.timers : i >= Top.n + 1 => i >= Top.n
      <3>1. DOMAIN file.timers = 1..Len(file.timers) /\ Len(file.timers) \in Nat
        BY <1>2, SeqFacts
      <3> QED BY <1>2, <3>1
    <2> QED BY <1>1, <1>3, <2>1 DEF ArrivesBy
  <1>7. About(f) = About(Top)
    BY <1>1, <1>3 DEF About
  <1>8. NoRetry'
    BY <1>1 DEF ListsInv, NoRetry
  <1>9. /\ next \in Seq(Frames)
        /\ \A known : known \cap ArrivesBy(f, file.timers) = {}
             => Fits(next, known, file.timers)
    <2>1. next \in Seq(Frames)
      BY <1>2, <1>4, PushType
    <2> HIDE DEF f
    <2> QED BY <1>1, <1>2, <1>3, <1>5, <1>6, <1>7, <2>1, ReplaceFits
  <1>10. Arriving(todo, file.timers) \cap Known = {}
    BY DEF ListsInv
  <1> HIDE DEF f, next
  <1>11. ASSUME todo' = Rest \/ todo' = next,
                UNCHANGED <<entry, timer_list, processed_timers>>
         PROVE  ListsInv'
    <2>1. Fits(next, Known, file.timers)
      BY <1>4, <1>6, <1>9, <1>10
    <2> QED BY <1>1, <1>8, <1>11, <2>1, ListsStay, ReturnLists
  <1>12. ASSUME Top.n <= Len(file.timers),
                AddTimerEntry(s.t, TimeChanged(e), timer_list,
                              processed_timers, next, FALSE)
         PROVE  ListsInv'
    <2>1. s \in SavedTimer /\ Top.n \in DOMAIN file.timers
      BY <1>2, <1>12, SeqFacts
    <2>2. s.t \in Timers
      BY <2>1 DEF SavedTimer
    <2>3. TimeChanged(e) \in Entries
      <3>1. e \in Entries
        BY <2>1, NewEntryType DEF SavedTimer
      <3> QED BY <3>1, TimeChangedType
    <2>4. s.t \in ArrivesBy(Top, file.timers)
      <3>1. Top.n >= Top.n
        BY <1>2
      <3> QED BY <1>1, <2>1, <3>1 DEF ArrivesBy
    <2>5. s.t \notin Known
      BY <1>4, <1>10, <2>4
    <2>6. s.t \notin ArrivesBy(f, file.timers)
      <3>1. \A i \in DOMAIN file.timers : i >= Top.n + 1 => i # Top.n
        <4>1. /\ DOMAIN file.timers = 1..Len(file.timers)
              /\ Len(file.timers) \in Nat
          BY <1>2, SeqFacts
        <4> QED BY <1>2, <4>1
      <3>2. \A i \in DOMAIN file.timers :
              i >= Top.n + 1 => file.timers[i].t # s.t
        BY <2>1, <3>1 DEF ListsInv, DistinctTimers
      <3> QED BY <1>3, <3>2 DEF ArrivesBy
    <2>7. /\ Split(entry, timer_list, processed_timers)
          /\ s.t \notin Members(timer_list)
          /\ s.t \notin Members(processed_timers)
      BY <2>5, SplitLists DEF ListsInv, Known
    <2> HIDE DEF s, e
    <2>8. /\ ListsConsistent'
          /\ Known' = Members(timer_list) \cup Members(processed_timers)
                        \cup {s.t}
          /\ todo' = next \/ (todo' = <<Calc>> \o next /\ ~FALSE)
      BY <1>1, <1>12, <2>2, <2>3, <2>7, AddTimerEntryLists DEF TypeOK
    <2>9. Known' \cap ArrivesBy(f, file.timers) = {}
      BY <1>4, <1>6, <1>10, <2>6, <2>8 DEF Known
    <2>10. Fits(next, Known', file.timers)
      BY <1>9, <2>9
    <2>11. Fits(todo', Known', file.timers)
      BY <1>9, <2>8, <2>10, ResumesFits DEF Resumes
    <2> QED BY <1>1, <1>8, <2>8, <2>11, ListsFromFits
  <1>13. \/ /\ todo' = Rest \/ todo' = next
            /\ UNCHANGED <<entry, timer_list, processed_timers>>
         \/ /\ Top.n <= Len(file.timers)
            /\ AddTimerEntry(s.t, TimeChanged(e), timer_list,
                             processed_timers, next, FALSE)
    BY DEF LoadTimer, next, f
  <1> QED BY <1>11, <1>12, <1>13

LEMMA AddRecordLists ==
    ASSUME "retry" \notin UserOps, Typed, ListsInv, AddRecord
    PROVE  ListsInv'
  <1> DEFINE t == Top.t
             k == Save \o Rest
  <1>1. /\ TypeOK /\ TypeOK' /\ todo # <<>> /\ Top.op = "add"
        /\ UNCHANGED <<file, dialog>>
    BY DEF Typed, AddRecord, In
  <1>2. t \in Timers
    BY <1>1, TopOfKind DEF TypeOK
  <1>3. /\ Rest \in Seq(Frames) /\ \A g \in Members(Rest) : Plain(g)
        /\ t \in Arriving(todo, file.timers)
    <2>1. ArrivesBy(Top, file.timers) = {t}
      BY <1>1 DEF ArrivesBy
    <2> QED BY <1>1, <2>1, RestFits DEF Arrivals
  <1>4. t \notin Known
    BY <1>3 DEF ListsInv
  <1>5. k \in Seq(Frames) /\ \A g \in Members(k) : Plain(g)
    <2>1. Save \in Seq(Frames)
      BY FrameType
    <2>2. \A g \in Members(Save) : Plain(g)
      BY DEF Members, Save, Frame, Plain
    <2>3. Members(k) = Members(Save) \cup Members(Rest)
      BY <1>3, <2>1, ConcatenationMembers
    <2> QED BY <1>3, <2>1, <2>2, <2>3
  <1>6. NoRetry'
    BY <1>1 DEF ListsInv, NoRetry
  <1>7. ASSUME AddTimerEntry(t, TimeChanged(entry[t]), timer_list,
                             processed_timers, k, FALSE)
        PROVE  ListsInv'
    <2>1. TimeChanged(entry[t]) \in Entries
      BY <1>1, <1>2, TypeParts, TimeChangedType
    <2>2. /\ Split(entry, timer_list, processed_timers)
          /\ t \notin Members(timer_list)
          /\ t \notin Members(processed_timers)
      BY <1>4, SplitLists DEF ListsInv, Known
    <2> HIDE DEF t, k
    <2>3. /\ ListsConsistent'
          /\ todo' = k \/ (todo' = <<Calc>> \o k /\ ~FALSE)
      BY <1>1, <1>2, <1>7, <2>1, <2>2, AddTimerEntryLists DEF TypeOK
    <2>4. Fits(k, Known', file.timers)
      BY <1>5, FitsPlain
    <2>5. Fits(todo', Known', file.timers)
      BY <1>5, <2>3, <2>4, ResumesFits DEF Resumes
    <2> QED BY <1>1, <1>6, <2>3, <2>5, ListsFromFits
  <1>8. ASSUME Drop(t) PROVE ListsInv'
    <2>1. \A u \in Known : entry'[u].state = entry[u].state
      BY <1>1, <1>4, <1>8, TypeParts DEF Drop, TypeOK
    <2>2. Fits(todo', Known, file.timers)
      BY <1>3, <1>8, FitsPlain DEF Drop
    <2> QED BY <1>1, <1>6, <1>8, <2>1, <2>2, ListsStay DEF Drop
  <1> QED BY <1>7, <1>8 DEF AddRecord

LEMMA LimitRecordingLists ==
    ASSUME Typed, ListsInv, LimitRecording
    PROVE  ListsInv'
  <1> DEFINE x == Head(Top.rest)
             others == Tail(Top.rest)
             f == [Top EXCEPT !.rest = others]
             k == IF others = <<>> THEN Rest ELSE <<f>> \o Rest
  <1>1. /\ TypeOK /\ TypeOK' /\ todo # <<>> /\ Top.op = "limit"
        /\ UNCHANGED <<file, dialog>>
    BY DEF Typed, LimitRecording, In
  <1>2. /\ Top.rest \in Seq(Timers) \ {<<>>} /\ Top.n \in Int
        /\ \A r \in Seq(Timers) \ {<<>>} : [Top EXCEPT !.rest = r] \in Frames
    BY <1>1, TopOfKind DEF TypeOK
  <1>3. /\ x \in Timers /\ others \in Seq(Timers)
        /\ Members(Top.rest) = {x} \cup Members(others)
    BY <1>2, MembersTail
  <1>4. /\ Rest \in Seq(Frames) /\ Top \in Frames
        /\ Considered(todo) = About(Top) \cup Considered(Rest)
        /\ Arriving(Rest, file.timers) \subseteq Arriving(todo, file.timers)
        /\ Fits(Rest, Known \cup Considered(todo), file.timers)
    BY <1>1, RestFits
  <1>5. About(Top) = Members(Top.rest)
    BY <1>1 DEF About
  <1>6. x \in Considered(todo)
    BY <1>3, <1>4, <1>5
  <1>7. k \in Seq(Frames) /\ Fits(k, Known \cup {x}, file.timers)
    <2>1. CASE others = <<>>
      BY <1>4, <1>6, <2>1, FitsFewer
    <2>2. CASE others # <<>>
      <3>1. f \in Frames
        BY <1>2, <1>3, <2>2
      <3>2. f.op = "limit" /\ f.rest = others
        BY <1>1, <1>4 DEF Frames
      <3> HIDE DEF f, others, x
      <3>3. About(f) \subseteq About(Top)
        BY <1>3, <1>5, <3>2 DEF About
      <3>4. ArrivesBy(f, file.timers) = {}
        BY <3>2 DEF ArrivesBy
      <3>5. (Known \cup {x}) \cap (ArrivesBy(f, file.timers)
                                     \cup Arriving(Rest, file.timers)) = {}
        BY <1>4, <1>6, <3>4 DEF ListsInv
      <3>6. Fits(<<f>> \o Rest, Known \cup {x}, file.timers)
        BY <1>1, <3>1, <3>2, <3>3, <3>4, <3>5, ReplaceFits
      <3> QED BY <1>4, <2>2, <3>1, <3>6, PushType
    <2> QED BY <2>1, <2>2
  <1>8. PICK end \in {Top.n - Lead} \cup ConflictEnds :
          IF entry[x].autoincrease /\ end > now
          THEN TimerTimeChanged(x, [entry[x] EXCEPT !.end = end], k)
          ELSE /\ todo' = k
               /\ UNCHANGED <<entry, timer_list, processed_timers>>
    BY DEF LimitRecording
  <1>9. /\ [entry[x] EXCEPT !.end = end] \in Entries
        /\ [entry[x] EXCEPT !.end = end].state = entry[x].state
    <2>1. ConflictEnds \subseteq Int
      BY <1>1, EndsType, TypeParts DEF TypeOK
    <2>2. Top.n - Lead \in Int
      BY <1>2, TimerAssumption
    <2>3. end \in Int /\ entry[x] \in Entries
      BY <1>1, <1>3, <2>1, <2>2, TypeParts
    <2> QED BY <2>3 DEF Entries
  <1>10. NoRetry'
    BY <1>1 DEF ListsInv, NoRetry
  <1> HIDE DEF x, k
  <1>11. ASSUME TimerTimeChanged(x, [entry[x] EXCEPT !.end = end], k)
         PROVE  ListsInv'
    BY <1>1, <1>3, <1>7, <1>9, <1>10, <1>11, ListsAfterTimeChange
  <1>12. ASSUME todo' = k, UNCHANGED <<entry, timer_list, processed_timers>>
         PROVE  ListsInv'
    <2>1. Fits(k, Known, file.timers)
      BY <1>7, FitsFewer
    <2> QED BY <1>1, <1>10, <1>12, <2>1, ListsStay
  <1> QED BY <1>8, <1>11, <1>12

LEMMA ExtendRecordingsLists ==
    ASSUME Typed, ListsInv, ExtendRecordings
    PROVE  ListsInv'
  <1> DEFINE f == [Top EXCEPT !.n = Top.n + 1]
             k == <<f>> \o Rest
             x == timer_list[Top.n]
  <1>1. /\ TypeOK /\ TypeOK' /\ todo # <<>> /\ Top.op = "extend"
        /\ UNCHANGED <<file, dialog>>
    BY DEF Typed, ExtendRecordings, In
  <1>2. Top \in Frames /\ Top.n \in Nat \ {0} /\ f \in Frames
    BY <1>1, TopOfKind, TopType DEF TypeOK
  <1>3. f.op = "extend" /\ f.rest = Top.rest
    BY <1>1, <1>2 DEF Frames
  <1>4. /\ Rest \in Seq(Frames)
        /\ Arriving(Rest, file.timers) \subseteq Arriving(todo, file.timers)
        /\ Fits(Rest, Known \cup Considered(todo), file.timers)
    BY <1>1, RestFits
  <1>5. k \in Seq(Frames) /\ Fits(k, Known, file.timers)
    <2>1. About(f) = About(Top) /\ ArrivesBy(f, file.timers) = {}
      BY <1>1, <1>3 DEF About, ArrivesBy
    <2>2. Known \cap (ArrivesBy(f, file.timers)
                        \cup Arriving(Rest, file.timers)) = {}
      BY <1>4, <2>1 DEF ListsInv
    <2> HIDE DEF f
    <2> QED BY <1>1, <1>2, <1>3, <1>4, <2>1, <2>2, PushType, ReplaceFits
  <1>6. NoRetry'
    BY <1>1 DEF ListsInv, NoRetry
  <1>7. \/ /\ todo' = Rest \/ todo' = k
           /\ UNCHANGED <<entry, timer_list, processed_timers>>
        \/ /\ Top.n <= Len(timer_list)
           /\ \E end \in AutoEnds :
                TimerTimeChanged(x, [entry[x] EXCEPT !.end = end], k)
    BY DEF ExtendRecordings
  <1> HIDE DEF k
  <1>8. ASSUME NEW end \in AutoEnds, Top.n <= Len(timer_list),
               TimerTimeChanged(x, [entry[x] EXCEPT !.end = end], k)
        PROVE  ListsInv'
    <2>1. Top.n \in DOMAIN timer_list /\ x \in Timers
      <3>1. timer_list \in Seq(Timers)
        BY <1>1 DEF TypeOK
      <3> QED BY <1>2, <1>8, <3>1, SeqFacts
    <2>2. x \in Known
      BY <2>1 DEF Known, Members
    <2>3. /\ [entry[x] EXCEPT !.end = end] \in Entries
          /\ [entry[x] EXCEPT !.end = end].state = entry[x].state
      <3>1. end \in Int
        BY <1>1, TypeParts, EndsType DEF TypeOK
      <3>2. entry[x] \in Entries
        BY <1>1, <2>1, TypeParts
      <3> QED BY <3>1, <3>2 DEF Entries
    <2>4. Fits(k, Known \cup {x}, file.timers)
      BY <1>5, <2>2, FitsFewer
    <2> HIDE DEF x
    <2> QED BY <1>1, <1>5, <1>6, <1>8, <2>1, <2>3, <2>4, ListsAfterTimeChange
  <1>9. ASSUME todo' = Rest \/ todo' = k,
               UNCHANGED <<entry, timer_list, processed_timers>>
        PROVE  ListsInv'
    BY <1>1, <1>5, <1>6, <1>9, ReturnLists, ListsStay
  <1> QED BY <1>7, <1>8, <1>9

\* A call on t that enqueues it again and then goes on with the call below.
LEMMA TimeChangeOfTop ==
    ASSUME TypeOK, TypeOK', ListsInv, todo # <<>>,
           Top.op \in {"edited", "retime"},
           NEW e \in Entries, e.state = entry[Top.t].state,
           TimerTimeChanged(Top.t, e, Rest), UNCHANGED <<file, dialog>>
    PROVE  ListsInv'
  <1>1. /\ Rest \in Seq(Frames)
        /\ Considered(todo) = About(Top) \cup Considered(Rest)
        /\ Fits(Rest, Known \cup Considered(todo), file.timers)
    BY RestFits
  <1>2. Top.t \in Timers
    BY TopOfKind DEF TypeOK
  <1>3. Top.t \in About(Top)
    BY DEF About
  <1>4. Fits(Rest, Known \cup {Top.t}, file.timers)
    BY <1>1, <1>3, FitsFewer
  <1>5. NoRetry'
    BY DEF ListsInv, NoRetry
  <1> QED BY <1>1, <1>2, <1>4, <1>5, ListsAfterTimeChange

LEMMA RemoveProcessedLists ==
    ASSUME Typed, ListsInv, RemoveProcessed
    PROVE  ListsInv'
  <1>0. CASE Top.t \notin Members(processed_timers)
    BY <1>0, BootOnlyLists DEF Typed, RemoveProcessed
  <1> SUFFICES ASSUME Top.t \in Members(processed_timers) PROVE ListsInv'
    BY <1>0
  <1>1. /\ TypeOK /\ TypeOK' /\ todo # <<>> /\ Top.op = "remove"
        /\ UNCHANGED <<timer_list, file, dialog>> /\ todo' = Rest
    BY DEF Typed, RemoveProcessed, In
  <1>2. /\ Rest \in Seq(Frames)
        /\ Fits(Rest, Known \cup Considered(todo), file.timers)
    BY <1>1, RestFits
  <1>3. Top.t \in Timers
    BY <1>1, TopOfKind DEF TypeOK
  <1>4. /\ processed_timers' = RemoveTimer(processed_timers, Top.t)
        /\ entry' = [entry EXCEPT ![Top.t] = Blank]
        /\ processed_timers \in Seq(Timers) /\ entry \in [Timers -> Entries]
    BY <1>1 DEF RemoveProcessed, TypeOK
  <1>5. /\ Members(processed_timers') = Members(processed_timers) \ {Top.t}
        /\ NoDuplicates(processed_timers')
    BY <1>4, RemoveTimerMembers DEF ListsInv, ListsConsistent
  <1>6. Members(timer_list) \subseteq Timers /\ Members(processed_timers) \subseteq Timers
    BY <1>1, TypeParts
  <1>7. /\ \A u \in Timers : u # Top.t => entry'[u] = entry[u]
        /\ entry'[Top.t].state # StateEnded
    BY <1>3, <1>4, BlankState
  <1>8. ListsConsistent'
    BY <1>1, <1>5, <1>6, <1>7 DEF ListsInv, ListsConsistent
  <1>9. Known' \subseteq Known
    BY <1>1, <1>5 DEF Known
  <1>10. Fits(todo', Known', file.timers)
    BY <1>1, <1>2, <1>9, FitsFewer
  <1>11. NoRetry'
    BY <1>1 DEF ListsInv, NoRetry
  <1> QED BY <1>1, <1>8, <1>10, <1>11, ListsFromFits

LEMMA CheckEditedLists ==
    ASSUME Typed, ListsInv, CheckEdited
    PROVE  ListsInv'
  <1>1. /\ TypeOK /\ TypeOK' /\ todo # <<>> /\ Top.op = "edited"
        /\ UNCHANGED file
    BY DEF Typed, CheckEdited, In
  <1>2. ASSUME TimerTimeChanged(Top.t, entry[Top.t], Rest), UNCHANGED dialog
        PROVE  ListsInv'
    <2>1. entry[Top.t] \in Entries
      BY <1>1, TopOfKind, TypeParts DEF TypeOK
    <2> QED BY <1>1, <1>2, <2>1, TimeChangeOfTop
  <1>3. ASSUME NEW u, dialog' = Open("conflict", u), todo' = Rest,
               UNCHANGED <<entry, timer_list, processed_timers>>
        PROVE  ListsInv'
    <2>1. Fits(Rest, Known \cup Considered(todo), file.timers)
      BY <1>1, RestFits
    <2>2. Fits(Rest, Known, file.timers)
      BY <2>1, FitsFewer
    <2>3. NoRetry'
      BY <1>3 DEF NoRetry, Open
    <2> QED BY <1>1, <1>3, <2>2, <2>3, ListsStay
  <1> QED BY <1>2, <1>3 DEF CheckEdited

LEMMA ActivateChosenLists ==
    ASSUME Typed, ListsInv, ActivateChosen
    PROVE  ListsInv'
  <1>1. /\ TypeOK /\ TypeOK' /\ todo # <<>> /\ Top.op = "activate"
        /\ DoActivate(Top.t, Rest)
    BY DEF Typed, ActivateChosen, In
  <1>2. Top.t \in Timers
    BY <1>1, TopOfKind DEF TypeOK
  <1>3. /\ Rest \in Seq(Frames)
        /\ Considered(todo) = About(Top) \cup Considered(Rest)
        /\ Fits(Rest, Known \cup Considered(todo), file.timers)
    BY <1>1, RestFits
  <1>4. Top.t \in About(Top)
    BY <1>1 DEF About
  <1>5. Fits(Rest, Known \cup {Top.t}, file.timers)
    BY <1>3, <1>4, FitsFewer
  <1> QED BY <1>1, <1>2, <1>3, <1>5, ListsAfterActivation

LEMMA RetimeChosenLists ==
    ASSUME Typed, ListsInv, RetimeChosen
    PROVE  ListsInv'
  <1> DEFINE e == IF Top.n = 1 THEN [entry[Top.t] EXCEPT !.disabled = TRUE]
                  ELSE entry[Top.t]
  <1>1. /\ TypeOK /\ TypeOK' /\ todo # <<>> /\ Top.op = "retime"
        /\ UNCHANGED <<file, dialog>>
    BY DEF Typed, RetimeChosen, In
  <1>2. entry[Top.t] \in Entries
    BY <1>1, TopOfKind, TypeParts DEF TypeOK
  <1>3. e \in Entries /\ e.state = entry[Top.t].state
    BY <1>2 DEF Entries
  <1>4. TimerTimeChanged(Top.t, e, Rest)
    BY DEF RetimeChosen
  <1> HIDE DEF e
  <1> QED BY <1>1, <1>3, <1>4, TimeChangeOfTop

-----------------------------------------------------------------------------
(***************************************************************************)
(* What the user does.                                                     *)
(***************************************************************************)

LEMMA SingletonMembers ==
    ASSUME NEW x
    PROVE  Members(<<x>>) = {x}
  BY DEF Members

LEMMA PairMembers ==
    ASSUME NEW S, NEW x \in S, NEW y \in S
    PROVE  /\ Members(<<x>>) = {x} /\ Members(<<x, y>>) = {x, y}
           /\ <<x, y>> = <<x>> \o <<y>>
  <1>1. /\ DOMAIN <<x>> = {1} /\ <<x>>[1] = x
        /\ DOMAIN <<x, y>> = {1, 2} /\ <<x, y>>[1] = x /\ <<x, y>>[2] = y
    OBVIOUS
  <1>2. <<x, y>> = <<x>> \o <<y>>
    <2>1. /\ <<x, y>> \in Seq(S) /\ <<x, y>> # <<>>
          /\ Head(<<x, y>>) = x /\ Tail(<<x, y>>) = <<y>>
      OBVIOUS
    <2> QED BY <2>1, MembersTail
  <1>3. Members(<<x>>) = {x} /\ Members(<<x, y>>) = {x, y}
    BY <1>1 DEF Members
  <1> QED BY <1>2, <1>3

\* No list changes, and no call to come brings in a timer.
LEMMA PlainCalls ==
    ASSUME TypeOK', ListsInv, UNCHANGED <<timer_list, processed_timers, file>>,
           \A u \in Known : entry'[u].state = entry[u].state,
           NoRetry', \A f \in Members(todo') : Plain(f)
    PROVE  ListsInv'
  <1>1. todo' \in Seq(Frames)
    BY DEF TypeOK
  <1>2. Fits(todo', Known, file.timers)
    BY <1>1, FitsPlain
  <1> QED BY <1>2, ListsStay

\* A timer is enqueued again, and no call to come brings in another one.
LEMMA PlainTimeChange ==
    ASSUME Typed, ListsInv, NEW t \in Timers, NEW e \in Entries,
           e.state = entry[t].state, NEW k \in Seq(Frames),
           \A f \in Members(k) : Plain(f),
           TimerTimeChanged(t, e, k), UNCHANGED file, NoRetry'
    PROVE  ListsInv'
  <1>1. Fits(k, Known \cup {t}, file.timers)
    BY FitsPlain
  <1> QED BY <1>1, ListsAfterTimeChange DEF Typed

\* A field of t other than its state is changed.
LEMMA StatesStay ==
    ASSUME TypeOK, NEW t, NEW e, e.state = entry[t].state,
           entry' = [entry EXCEPT ![t] = e]
    PROVE  \A u \in Known : entry'[u].state = entry[u].state
  <1>1. \A u \in Known : u \in DOMAIN entry
    BY TypeParts DEF TypeOK
  <1> QED BY <1>1

\* An entry that is in no list is replaced.
LEMMA UnknownEntry ==
    ASSUME TypeOK, NEW t, t \notin Known, NEW e,
           entry' = [entry EXCEPT ![t] = e]
    PROVE  \A u \in Known : entry'[u].state = entry[u].state
  <1>1. \A u \in Known : u \in DOMAIN entry
    BY TypeParts DEF TypeOK
  <1> QED BY <1>1

LEMMA ShortenCalls ==
    ASSUME TypeOK, NEW begin, NEW next \in Frames, Shorten(begin, next)
    PROVE  \/ todo' = <<next>>
           \/ \E f : /\ todo' = <<f, next>>
                     /\ f.op = "limit" /\ f.rest \in Seq(Timers)
                     /\ Members(f.rest) \subseteq Members(timer_list)
  <1>1. PICK list \in Shortenable :
          todo' = IF list = <<>> THEN <<next>>
                  ELSE <<Frame("limit", NoTimer, begin, list), next>>
    BY DEF Shorten
  <1>2. list \in Seq(Timers) /\ Members(list) \subseteq Members(timer_list)
    BY ShortenableType
  <1>3. CASE list = <<>>
    BY <1>1, <1>3
  <1>4. CASE list # <<>>
    <2> DEFINE f == Frame("limit", NoTimer, begin, list)
    <2>1. todo' = <<f, next>>
      BY <1>1, <1>4
    <2>2. f.op = "limit" /\ f.rest = list
      BY DEF Frame
    <2> HIDE DEF f
    <2> QED BY <1>2, <2>1, <2>2
  <1> QED BY <1>3, <1>4

\* The calls finishedAdd makes for a timer that is in no list.
LEMMA ArrivalCalls ==
    ASSUME TypeOK, TypeOK', ListsInv, NEW t \in Timers, t \notin Known,
           UNCHANGED <<timer_list, processed_timers, file, dialog>>,
           NEW e, entry' = [entry EXCEPT ![t] = e],
           NEW add, add = Frame("add", t, 0, <<>>),
           todo' = <<add>> \/ \E begin : Shorten(begin, add)
    PROVE  ListsInv'
  <1>1. add \in Frames
    <2>1. 0 \in Int
      OBVIOUS
    <2> QED BY <2>1, FrameType
  <1>2. add.op = "add" /\ add.t = t
    BY DEF Frame
  <1>3. ArrivesBy(add, file.timers) = {t}
    BY <1>2 DEF ArrivesBy
  <1>4. /\ Fits(<<add>>, Known, file.timers)
        /\ Arriving(<<add>>, file.timers) = {t}
    <2>1. ArrivesBy(add, file.timers) \cap Known = {}
      BY <1>3
    <2> QED BY <1>1, <1>2, <1>3, <2>1, FitsArrival DEF Arrivals
  <1>5. NoRetry'
    BY DEF ListsInv, NoRetry
  <1>6. \A u \in Known : entry'[u].state = entry[u].state
    BY UnknownEntry
  <1>7. ASSUME NEW f, todo' = <<f, add>>, f.op = "limit",
               f.rest \in Seq(Timers),
               Members(f.rest) \subseteq Members(timer_list)
        PROVE  Fits(todo', Known, file.timers)
    <2>1. f \in Frames
      <3>1. todo' \in Seq(Frames) /\ todo' # <<>> /\ Head(todo') = f
        BY <1>7 DEF TypeOK
      <3> QED BY <3>1, SeqFacts
    <2>2. <<add>> \in Seq(Frames) /\ todo' = <<f>> \o <<add>>
      BY <1>1, <1>7, <2>1, SingletonType, PairMembers
    <2>3. Plain(f) /\ f.op \notin {"save", "write"}
      BY <1>7 DEF Plain
    <2>4. About(f) \subseteq Known
      BY <1>7 DEF About, Known
    <2>5. About(f) \cap Arriving(<<add>>, file.timers) = {}
      BY <1>4, <2>4
    <2> QED BY <1>4, <2>1, <2>2, <2>3, <2>5, FitsPush
  <1>8. Fits(todo', Known, file.timers)
    BY <1>1, <1>4, <1>7, ShortenCalls
  <1> QED BY <1>5, <1>6, <1>8, ListsStay

LEMMA RecordLists ==
    ASSUME Typed, ListsInv, NEW t \in Timers, Record(t)
    PROVE  ListsInv'
  BY ArrivalCalls DEF Typed, Record

LEMMA InstantRecordLists ==
    ASSUME Typed, ListsInv, NEW t \in Timers, InstantRecord(t)
    PROVE  ListsInv'
  BY ArrivalCalls DEF Typed, InstantRecord

LEMMA RetryRecordLists ==
    ASSUME ListsInv, RetryRecord
    PROVE  ListsInv'
  BY DEF ListsInv, NoRetry, RetryRecord

LEMMA FinishEditLists ==
    ASSUME Typed, ListsInv, FinishEdit
    PROVE  ListsInv'
  <1> DEFINE next == Frame("edited", dialog.t, 0, <<>>)
  <1>1. /\ TypeOK /\ TypeOK' /\ dialog' = NoDialog
        /\ UNCHANGED <<entry, timer_list, processed_timers, file>>
        /\ Shorten(entry[dialog.t].begin, next) /\ dialog.kind # "none"
    BY DEF Typed, FinishEdit
  <1>2. next \in Frames /\ next.op = "edited"
    <2>1. dialog.t \in Timers
      BY <1>1, TypeParts
    <2>2. next.op = "edited"
      BY DEF Frame
    <2> QED BY <2>1, <2>2, FrameType
  <1> HIDE DEF next
  <1>3. \A f \in Members(todo') : Plain(f)
    <2>1. ASSUME todo' = <<next>> PROVE \A f \in Members(todo') : Plain(f)
      BY <1>2, <2>1, PairMembers DEF Plain
    <2>2. ASSUME NEW f, todo' = <<f, next>>, f.op = "limit"
          PROVE  \A g \in Members(todo') : Plain(g)
      <3>1. todo' \in Seq(Frames) /\ todo' # <<>> /\ Head(todo') = f
        BY <1>1, <2>2 DEF TypeOK
      <3>2. f \in Frames
        BY <3>1, SeqFacts
      <3>3. Members(todo') = {f, next}
        BY <1>2, <2>2, <3>2, PairMembers
      <3> QED BY <1>2, <2>2, <3>3 DEF Plain
    <2> QED BY <1>1, <1>2, <2>1, <2>2, ShortenCalls
  <1>4. NoRetry'
    BY <1>1 DEF NoRetry, NoDialog
  <1> QED BY <1>1, <1>3, <1>4, PlainCalls

\* A field of the edited timer other than its state is changed, and saved.
LEMMA KeyGoLists ==
    ASSUME Typed, ListsInv, NEW t \in Timers, KeyGo(t), NoRetry'
    PROVE  ListsInv'
  <1>1. TypeOK /\ TypeOK' /\ entry \in [Timers -> Entries]
    BY DEF Typed, TypeOK
  <1>2. \A u \in Timers : entry'[u].state = entry[u].state
    BY <1>1 DEF KeyGo, Entries
  <1>3. \A u \in Known : entry'[u].state = entry[u].state
    BY <1>1, <1>2, TypeParts
  <1>4. \A f \in Members(todo') : Plain(f)
    BY DEF KeyGo, Members, Save, Frame, Plain
  <1> QED BY <1>1, <1>3, <1>4, PlainCalls DEF KeyGo

LEMMA EditTimerLists ==
    ASSUME Typed, ListsInv, NEW t \in Timers, EditTimer(t)
    PROVE  ListsInv'
  <1>1. NoRetry'
    BY DEF EditTimer, NoRetry, Open
  <1> QED BY <1>1, KeyGoLists DEF EditTimer

LEMMA OnConflictRetry ==
    ASSUME ListsInv, NEW x, OnConflict(x)
    PROVE  NoRetry'
  BY DEF ListsInv, NoRetry, OnConflict, Open

LEMMA EditConflictLists ==
    ASSUME Typed, ListsInv, NEW x \in Timers, EditConflict(x)
    PROVE  ListsInv'
  BY OnConflictRetry, KeyGoLists DEF EditConflict

LEMMA ToggleConflictLists ==
    ASSUME Typed, ListsInv, NEW x \in Timers, ToggleConflict(x)
    PROVE  ListsInv'
  <1>1. TypeOK /\ TypeOK' /\ entry \in [Timers -> Entries]
    BY DEF Typed, TypeOK
  <1>2. \A u \in Timers : entry'[u].state = entry[u].state
    BY <1>1 DEF ToggleConflict, Entries
  <1>3. \A u \in Known : entry'[u].state = entry[u].state
    BY <1>1, <1>2, TypeParts
  <1>4. NoRetry'
    BY OnConflictRetry DEF ToggleConflict
  <1>5. \A f \in Members(todo') : Plain(f)
    BY MembersEmpty DEF ToggleConflict, OnConflict, Idle
  <1> QED BY <1>1, <1>3, <1>4, <1>5, PlainCalls DEF ToggleConflict

LEMMA AbandonLists ==
    ASSUME Typed, ListsInv, Abandon
    PROVE  ListsInv'
  <1>1. TypeOK /\ TypeOK'
    BY DEF Typed
  <1>2. \A u \in Known : entry'[u].state = entry[u].state
    BY <1>1, UnknownEntry DEF Abandon
  <1>3. NoRetry'
    BY DEF Abandon, NoRetry, NoDialog
  <1>4. \A f \in Members(todo') : Plain(f)
    BY MembersEmpty DEF Abandon, Idle
  <1> QED BY <1>1, <1>2, <1>3, <1>4, PlainCalls DEF Abandon

LEMMA ShutdownLists ==
    ASSUME Typed, ListsInv, Shutdown
    PROVE  ListsInv'
  <1>1. \A f \in Members(todo') : Plain(f)
    <2>1. todo' = Save \o <<BootFrame>>
      BY DEF Shutdown
    <2>2. Save \in Seq(Frames) /\ <<BootFrame>> \in Seq(Frames)
      BY FrameType, SingletonType
    <2>3. Members(todo') = Members(Save) \cup Members(<<BootFrame>>)
      BY <2>1, <2>2, ConcatenationMembers
    <2>4. \A f \in Members(Save) \cup Members(<<BootFrame>>) : Plain(f)
      BY DEF Members, Save, BootFrame, Frame, Plain
    <2> QED BY <2>3, <2>4
  <1>2. NoRetry'
    BY DEF ListsInv, NoRetry, Shutdown
  <1> QED BY <1>1, <1>2, PlainCalls DEF Shutdown, Typed

LEMMA CleanupLists ==
    ASSUME Typed, ListsInv, Cleanup
    PROVE  ListsInv'
  <1> DEFINE disabled == {t \in Timers : entry[t].disabled}
  <1>1. /\ TypeOK /\ TypeOK' /\ processed_timers \in Seq(Timers)
        /\ entry \in [Timers -> Entries]
        /\ UNCHANGED <<timer_list, todo, dialog, file>> /\ todo = <<>>
    BY DEF Typed, TypeOK, Cleanup, UserTurn, Idle
  <1>2. processed_timers' \in Selections(processed_timers, disabled)
    BY DEF Cleanup
  <1>3. /\ NoDuplicates(processed_timers')
        /\ Members(processed_timers') \subseteq Members(processed_timers)
        /\ Members(processed_timers') \subseteq disabled
    BY <1>1, <1>2, SelectionsMembers DEF ListsInv, ListsConsistent
  <1>4. /\ Members(timer_list) \subseteq Timers
        /\ Members(timer_list) \cap Members(processed_timers) = {}
    BY <1>1, TypeParts DEF ListsInv, ListsConsistent
  <1>5. \A t \in Members(timer_list) \cup Members(processed_timers') :
          entry'[t] = entry[t]
    BY <1>3, <1>4 DEF Cleanup
  <1>6. ListsConsistent'
    BY <1>1, <1>3, <1>5 DEF ListsInv, ListsConsistent
  <1>7. \A f \in Members(todo') : Plain(f)
    BY <1>1, MembersEmpty
  <1>8. Fits(todo', Known', file.timers)
    BY <1>1, <1>7, FitsPlain DEF TypeOK
  <1>9. NoRetry'
    BY <1>1 DEF ListsInv, NoRetry
  <1> QED BY <1>1, <1>6, <1>8, <1>9, ListsFromFits

LEMMA SetEndLists ==
    ASSUME Typed, ListsInv, NEW t \in Timers, SetEnd(t)
    PROVE  ListsInv'
  <1>1. PICK end \in Int, growing \in BOOLEAN :
          TimerTimeChanged(t, [entry[t] EXCEPT !.autoincrease = growing,
                                               !.end = end], <<>>)
    BY SetEndChange DEF Typed
  <1>2. entry[t] \in Entries
    BY TypeParts DEF Typed
  <1>3. /\ [entry[t] EXCEPT !.autoincrease = growing, !.end = end] \in Entries
        /\ [entry[t] EXCEPT !.autoincrease = growing, !.end = end].state
             = entry[t].state
    BY <1>2 DEF Entries
  <1>4. <<>> \in Seq(Frames) /\ \A f \in Members(<<>>) : Plain(f)
    BY EmptySeqType, MembersEmpty
  <1>5. NoRetry' /\ UNCHANGED file
    BY DEF ListsInv, NoRetry, SetEnd
  <1> QED BY <1>1, <1>3, <1>4, <1>5, PlainTimeChange

LEMMA ToggleDisabledStateLists ==
    ASSUME Typed, ListsInv, NEW t \in Timers, ToggleDisabledState(t)
    PROVE  ListsInv'
  <1>1. PICK disabled \in BOOLEAN :
          TimerTimeChanged(t, [entry[t] EXCEPT !.disabled = disabled], <<>>)
    BY ToggleChange DEF Typed
  <1>2. entry[t] \in Entries
    BY TypeParts DEF Typed
  <1>3. /\ [entry[t] EXCEPT !.disabled = disabled] \in Entries
        /\ [entry[t] EXCEPT !.disabled = disabled].state = entry[t].state
    BY <1>2 DEF Entries
  <1>4. <<>> \in Seq(Frames) /\ \A f \in Members(<<>>) : Plain(f)
    BY EmptySeqType, MembersEmpty
  <1>5. NoRetry'
    BY DEF ListsInv, NoRetry, ToggleDisabledState, Open, NoDialog
  <1>6. UNCHANGED file
    BY DEF ToggleDisabledState
  <1> QED BY <1>1, <1>3, <1>4, <1>5, <1>6, PlainTimeChange

LEMMA RemoveEntryLists ==
    ASSUME Typed, ListsInv, NEW t \in Timers, RemoveEntry(t)
    PROVE  ListsInv'
  <1> DEFINE aborted == Abort(Withdraw(entry[t]), now)
             first == IF aborted.dontSave THEN <<>>
                      ELSE <<Frame("extend", NoTimer, 1, <<>>)>>
             second == <<Frame("remove", t, 0, <<>>)>>
             both == first \o second
             k == both \o Save
  <1>1. TypeOK /\ TypeOK' /\ UNCHANGED <<file, dialog>>
    BY DEF Typed, RemoveEntry
  <1>2. aborted \in Entries /\ aborted.state = entry[t].state
    <2>1. entry[t] \in Entries
      BY <1>1, TypeParts
    <2>2. aborted \in Entries
      BY <1>1, AbortedType
    <2>3. aborted.state = entry[t].state
      BY <2>1 DEF Abort, Withdraw, Entries
    <2> QED BY <2>2, <2>3
  <1>3. k \in Seq(Frames) /\ \A f \in Members(k) : Plain(f)
    <2>1. first \in Seq(Frames) /\ \A f \in Members(first) : Plain(f)
      <3>1. Frame("extend", NoTimer, 1, <<>>) \in Frames
        BY FrameType
      <3>2. Plain(Frame("extend", NoTimer, 1, <<>>))
        BY DEF Frame, Plain
      <3> HIDE DEF aborted
      <3> QED BY <3>1, <3>2, EmptySeqType, SingletonType, MembersEmpty,
                 SingletonMembers
    <2>2. second \in Seq(Frames) /\ \A f \in Members(second) : Plain(f)
      <3>1. Frame("remove", t, 0, <<>>) \in Frames
        BY FrameType
      <3>2. Plain(Frame("remove", t, 0, <<>>))
        BY DEF Frame, Plain
      <3> QED BY <3>1, <3>2, SingletonType, SingletonMembers
    <2>3. Save \in Seq(Frames) /\ \A f \in Members(Save) : Plain(f)
      BY FrameType DEF Members, Save, Frame, Plain
    <2> HIDE DEF first, second
    <2>4. /\ both \in Seq(Frames)
          /\ Members(both) = Members(first) \cup Members(second)
      BY <2>1, <2>2, ConcatenationMembers
    <2> HIDE DEF both
    <2>5. /\ k \in Seq(Frames)
          /\ Members(k) = Members(both) \cup Members(Save)
      BY <2>3, <2>4, ConcatenationMembers
    <2> QED BY <2>1, <2>2, <2>3, <2>4, <2>5
  <1>4. \/ TimerTimeChanged(t, aborted, k)
        \/ /\ entry' = [entry EXCEPT ![t] = aborted]
           /\ todo' = k
           /\ UNCHANGED <<timer_list, processed_timers>>
    BY DEF RemoveEntry
  <1>5. NoRetry'
    BY <1>1 DEF ListsInv, NoRetry
  <1> HIDE DEF aborted, k
  <1>6. ASSUME TimerTimeChanged(t, aborted, k) PROVE ListsInv'
    BY <1>1, <1>2, <1>3, <1>5, <1>6, PlainTimeChange
  <1>7. ASSUME entry' = [entry EXCEPT ![t] = aborted], todo' = k,
               UNCHANGED <<timer_list, processed_timers>>
        PROVE  ListsInv'
    BY <1>1, <1>2, <1>3, <1>5, <1>7, StatesStay, PlainCalls
  <1> QED BY <1>4, <1>6, <1>7

LEMMA RunningEventCallbackLists ==
    ASSUME Typed, ListsInv, RunningEventCallback
    PROVE  ListsInv'
  <1> DEFINE t == dialog.t
             enabled == [entry[t] EXCEPT !.disabled = FALSE]
             Choices == ProcessRepeated(enabled, now, FALSE)
             Activate == Frame("activate", t, 0, <<>>)
             Retime(n) == Frame("retime", t, n, <<>>)
  <1>1. /\ TypeOK /\ TypeOK' /\ todo = <<>> /\ dialog' = NoDialog
        /\ UNCHANGED <<timer_list, processed_timers, file>>
    BY DEF Typed, RunningEventCallback, Idle
  <1>2. t \in Timers
    BY <1>1, TypeParts DEF RunningEventCallback
  <1>3. \A x \in Choices : x.state = entry[t].state
    <2>1. entry[t] \in Entries
      BY <1>1, <1>2, TypeParts
    <2>2. enabled \in Entries /\ enabled.state = entry[t].state
      BY <2>1 DEF Entries
    <2> HIDE DEF enabled
    <2>3. \A x \in Choices : x.state = enabled.state
      BY <2>2, ProcessRepeatedState
    <2> QED BY <2>2, <2>3
  <1>4. \/ \E n \in {0, 1}, x \in Choices :
             entry' = [entry EXCEPT ![t] = x] /\ todo' = <<Activate, Retime(n)>>
        \/ todo' = <<Retime(1)>> /\ UNCHANGED entry
        \/ UNCHANGED <<entry, todo>>
    BY DEF RunningEventCallback
  <1>5. \A u \in Known : entry'[u].state = entry[u].state
    <2> HIDE DEF Choices, t
    <2> QED BY <1>1, <1>3, <1>4, StatesStay
  <1>6. \A f \in Members(todo') : Plain(f)
    <2>1. Plain(Activate) /\ \A n \in {0, 1} : Plain(Retime(n))
      BY DEF Frame, Plain
    <2>2. Activate \in Frames /\ \A n \in {0, 1} : Retime(n) \in Frames
      BY <1>2, FrameType
    <2> HIDE DEF Activate, Retime, Choices, t
    <2>3. \A n \in {0, 1} : /\ Members(<<Activate, Retime(n)>>)
                                = {Activate, Retime(n)}
                            /\ Members(<<Retime(n)>>) = {Retime(n)}
      BY <2>2, PairMembers
    <2>4. CASE \E n \in {0, 1} : todo' = <<Activate, Retime(n)>>
      BY <2>1, <2>3, <2>4
    <2>5. CASE todo' = <<Retime(1)>>
      BY <2>1, <2>3, <2>5
    <2>6. CASE todo' = <<>>
      BY <2>6, MembersEmpty
    <2> QED BY <1>1, <1>4, <2>4, <2>5, <2>6
  <1>7. NoRetry'
    BY <1>1 DEF NoRetry, NoDialog
  <1> QED BY <1>1, <1>5, <1>6, <1>7, PlainCalls

-----------------------------------------------------------------------------
(***************************************************************************)
(* Time, and what happens to the box.                                      *)
(***************************************************************************)

LEMMA TimeLists ==
    ASSUME ListsInv, UNCHANGED <<listVars, dialog, file>>
    PROVE  ListsInv'
  BY DEF ListsInv, ListsConsistent, NoRetry, Known, In, Top, listVars

LEMMA TimeoutLists ==
    ASSUME Typed, ListsInv, Timeout
    PROVE  ListsInv'
  <1>1. /\ TypeOK' /\ todo' = <<Calc>>
        /\ UNCHANGED <<entry, timer_list, processed_timers, file, dialog>>
    BY DEF Typed, Timeout
  <1>2. \A f \in Members(todo') : Plain(f)
    BY <1>1 DEF Members, Calc, Frame, Plain
  <1>3. NoRetry'
    BY <1>1 DEF ListsInv, NoRetry
  <1> QED BY <1>1, <1>2, <1>3, PlainCalls

LEMMA InitLists == Init => ListsInv
  <1> SUFFICES ASSUME Init PROVE ListsInv
    OBVIOUS
  <1>1. /\ timer_list = <<>> /\ processed_timers = <<>> /\ todo = <<>>
        /\ dialog = NoDialog /\ file.timers = <<>>
    BY DEF Init, Holding
  <1>2. ListsConsistent
    BY <1>1, MembersEmpty DEF ListsConsistent
  <1>3. NoRetry /\ DistinctTimers(file.timers) /\ ~In("rearm")
    BY <1>1 DEF NoRetry, NoDialog, DistinctTimers, In
  <1>4. Fits(todo, Known, file.timers)
    <2>1. todo \in Seq(Frames) /\ \A f \in Members(todo) : Plain(f)
      BY <1>1, EmptySeqType, MembersEmpty
    <2> QED BY <2>1, FitsPlain
  <1> QED BY <1>2, <1>3, <1>4 DEF ListsInv, Fits

LEMMA HandlerLists ==
    ASSUME "retry" \notin UserOps, Typed, ListsInv, Handler
    PROVE  ListsInv'
  BY CalcNextActivationLists, ReEvaluateLists, ProcessActivationLists,
     SetNextActivationLists, FatalLists, TruncateLists, WriteLists, BootLists,
     LoadTimerLists, AddRecordLists, LimitRecordingLists,
     ExtendRecordingsLists, RemoveProcessedLists, CheckEditedLists,
     ActivateChosenLists, RetimeChosenLists
  DEF Handler

LEMMA UserLists ==
    ASSUME Typed, ListsInv, User
    PROVE  ListsInv'
  BY RecordLists, InstantRecordLists, RemoveEntryLists, SetEndLists,
     EditTimerLists, ToggleDisabledStateLists, ToggleConflictLists,
     EditConflictLists, CleanupLists, ShutdownLists, FinishEditLists,
     AbandonLists, RetryRecordLists, RunningEventCallbackLists
  DEF User

LEMMA NextLists ==
    ASSUME "retry" \notin UserOps, Typed, ListsInv, [Next]_vars
    PROVE  ListsInv'
  <1>1. CASE Handler
    BY <1>1, HandlerLists
  <1>2. CASE User
    BY <1>2, UserLists
  <1>3. CASE Tick \/ SetClock \/ UNCHANGED vars
    <2>1. UNCHANGED <<listVars, dialog, file>>
      BY <1>3 DEF Tick, SetClock, vars, listVars
    <2> QED BY <2>1, TimeLists
  <1>4. CASE Timeout
    BY <1>4, TimeoutLists
  <1>5. CASE Crash
    BY <1>5, BootOnlyLists DEF Crash, Typed
  <1> QED BY <1>1, <1>2, <1>3, <1>4, <1>5 DEF Next

LEMMA ListsInvHolds == "retry" \notin UserOps => (Spec => []ListsInv)
  <1> SUFFICES ASSUME "retry" \notin UserOps
               PROVE  Spec => []ListsInv
    OBVIOUS
  <1>1. Init => ListsInv
    BY InitLists
  <1>2. Typed /\ ListsInv /\ [Next]_vars => ListsInv'
    BY NextLists
  <1>3. TypeOK /\ TypeOK' => Typed
    BY DEF Typed
  <1> QED BY <1>1, <1>2, <1>3, TypeCorrect, PTL DEF Spec

\* However calls nest, whatever fails or is edited, removed, disabled or cut
\* off by a crash, and for any number of timers and any clock: a timer is in
\* one of the two lists at most, once, and in the one its state calls for, so
\* that timeChanged and doActivate (timer.py:155-186, 234-245) take it out of
\* the list it is in.  Left out is the answer to the list of conflicts of a
\* new timer ("retry"), which may name a timer that is in a list already.
THEOREM ListsStayConsistent ==
    "retry" \notin UserOps => (Spec => []ListsConsistent)
  <1>1. ListsInv => ListsConsistent
    BY DEF ListsInv
  <1> QED BY <1>1, ListsInvHolds, PTL

-----------------------------------------------------------------------------
(***************************************************************************)
(*                       3 and 4. Services and stages                      *)
(***************************************************************************)

\* A timer with the entry e has n services.
Serves(e, n) ==
    /\ n = IF e.svc THEN 1 ELSE 0
    /\ e.svc <=> /\ ~e.justplay
                 /\ e.state \in {StatePrepared, StateRunning}

Served ==
    \A t \in Timers :
      /\ Serves(entry[t], recordings[t])
      /\ entry[t].svc => t \in Members(timer_list)

SameService(x, e) ==
    x.svc = e.svc /\ x.justplay = e.justplay /\ x.state = e.state

\* t was put into one of the lists with the entry e, its times aside.
Placed(t, e) ==
    /\ \A u \in Timers \ {t} : entry'[u] = entry[u]
    /\ \/ /\ SameService(entry'[t], e)
          /\ e.state # StateEnded
          /\ t \in Members(timer_list')
       \/ /\ entry'[t].svc = e.svc /\ entry'[t].justplay = e.justplay
          /\ entry'[t].state = StateEnded
          /\ e.state \in {StateWaiting, StateEnded}

-----------------------------------------------------------------------------
(***************************************************************************)
(* What the helpers that move a timer do to it.                            *)
(***************************************************************************)

LEMMA FourStates ==
    ASSUME NEW e \in Entries
    PROVE  /\ e.state \in {StateWaiting, StatePrepared, StateRunning, StateEnded}
           /\ e.state < StateEnded <=> e.state # StateEnded
           /\ e.svc \in BOOLEAN /\ e.justplay \in BOOLEAN
  BY DEF Entries, StateWaiting, StatePrepared, StateRunning, StateEnded

LEMMA TimeChangedService ==
    ASSUME NEW e \in Entries
    PROVE  SameService(TimeChanged(e), e)
  BY DEF SameService, TimeChanged, Entries

LEMMA ProcessRepeatedService ==
    ASSUME NEW e \in Entries, NEW at, NEW findRunningEvent,
           NEW x \in ProcessRepeated(e, at, findRunningEvent)
    PROVE  SameService(x, e)
  BY DEF ProcessRepeated, TimeChanged, Entries, SameService

LEMMA ToState ==
    ASSUME NEW e \in Entries, NEW s \in StateWaiting..StateEnded
    PROVE  /\ [e EXCEPT !.state = s] \in Entries
           /\ [e EXCEPT !.state = s].state = s
           /\ [e EXCEPT !.state = s].svc = e.svc
           /\ [e EXCEPT !.state = s].justplay = e.justplay
  BY DEF Entries

LEMMA StateRange ==
    /\ StateWaiting \in StateWaiting..StateEnded
    /\ StateEnded \in StateWaiting..StateEnded
  BY DEF StateWaiting, StateEnded

LEMMA EnqueuePlaces ==
    ASSUME entry \in [Timers -> Entries], NEW t \in Timers, NEW e \in Entries,
           e.state # StateEnded, NEW k, NEW active \in Seq(Timers),
           Enqueue(t, e, active, k)
    PROVE  Placed(t, e) /\ Members(active) \subseteq Members(timer_list')
  <1>1. PICK p \in InsertPoints(active, GetNextActivation(e)) :
          timer_list' = InsertAfter(active, p, t)
    BY DEF Enqueue
  <1>2. Members(timer_list') = Members(active) \cup {t}
    BY <1>1, InsertPointsType, InsertAfterMembers
  <1>3. entry'[t] = e /\ \A u \in Timers \ {t} : entry'[u] = entry[u]
    BY DEF Enqueue
  <1> QED BY <1>2, <1>3 DEF Placed, SameService

LEMMA RetirePlaces ==
    ASSUME entry \in [Timers -> Entries], NEW t \in Timers, NEW e \in Entries,
           e.state \in {StateWaiting, StateEnded}, NEW k, NEW processed,
           Retire(t, e, processed, k)
    PROVE  Placed(t, e)
  <1>1. /\ entry'[t] = [e EXCEPT !.state = StateEnded]
        /\ \A u \in Timers \ {t} : entry'[u] = entry[u]
    BY DEF Retire
  <1>2. /\ entry'[t].state = StateEnded
        /\ entry'[t].svc = e.svc /\ entry'[t].justplay = e.justplay
    BY <1>1, ToState, StateRange
  <1> QED BY <1>1, <1>2 DEF Placed

LEMMA AddTimerEntryPlaces ==
    ASSUME entry \in [Timers -> Entries], NEW t \in Timers, NEW e \in Entries,
           NEW k, NEW noRecalc, NEW active \in Seq(Timers), NEW processed,
           AddTimerEntry(t, e, active, processed, k, noRecalc)
    PROVE  Placed(t, e) /\ Members(active) \subseteq Members(timer_list')
  <1>1. PICK x \in ProcessRepeated(e, now, TRUE) :
          IF AlreadyPassed(x)
          THEN Retire(t, x, processed, k) /\ timer_list' = active
          ELSE /\ Enqueue(t, x, active, Recalc(k, noRecalc))
               /\ processed_timers' = processed
    BY DEF AddTimerEntry
  <1>2. x \in Entries /\ SameService(x, e)
    BY ProcessRepeatedType, ProcessRepeatedService
  <1>3. Placed(t, x) /\ Members(active) \subseteq Members(timer_list')
    <2>1. CASE AlreadyPassed(x)
      <3>1. x.state \in {StateWaiting, StateEnded}
        BY <2>1 DEF AlreadyPassed, ShouldSkip
      <3> QED BY <1>1, <1>2, <2>1, <3>1, RetirePlaces
    <2>2. CASE ~AlreadyPassed(x)
      <3>1. x.state # StateEnded
        BY <2>2 DEF AlreadyPassed
      <3> QED BY <1>1, <1>2, <2>2, <3>1, EnqueuePlaces
    <2> QED BY <2>1, <2>2
  <1> QED BY <1>2, <1>3 DEF Placed, SameService

\* A timer whose times changed: one that has ended waits again.
Restored(e) ==
    IF e.state = StateEnded THEN [e EXCEPT !.state = StateWaiting] ELSE e

LEMMA RestoredEntry ==
    ASSUME NEW e \in Entries
    PROVE  /\ Restored(e) \in Entries
           /\ Restored(e).svc = e.svc /\ Restored(e).justplay = e.justplay
           /\ Restored(e).state = IF e.state = StateEnded THEN StateWaiting
                                  ELSE e.state
  BY ToState, StateRange DEF Restored

LEMMA TimerTimeChangedPlaces ==
    ASSUME ListTypes, ListsConsistent, NEW t \in Timers,
           NEW e \in Entries, NEW k, TimerTimeChanged(t, e, k)
    PROVE  /\ Placed(t, Restored(e))
           /\ Members(timer_list) \ {t} \subseteq Members(timer_list')
  <1> DEFINE changed == TimeChanged(e)
             restored == IF e.state = StateEnded
                         THEN [changed EXCEPT !.state = StateWaiting]
                         ELSE changed
             active == IF e.state = StateEnded THEN timer_list
                       ELSE RemoveTimer(timer_list, t)
             processed == IF e.state = StateEnded
                          THEN RemoveTimer(processed_timers, t)
                          ELSE processed_timers
  <1>1. AddTimerEntry(t, restored, active, processed, k, FALSE)
    BY DEF TimerTimeChanged
  <1>2. changed \in Entries /\ SameService(changed, e)
    BY TimeChangedType, TimeChangedService
  <1>3. restored \in Entries /\ SameService(restored, Restored(e))
    <2> HIDE DEF changed
    <2>1. CASE e.state = StateEnded
      BY <1>2, <2>1, ToState, StateRange DEF SameService, Restored
    <2>2. CASE e.state # StateEnded
      BY <1>2, <2>2 DEF Restored
    <2> QED BY <2>1, <2>2
  <1>4. /\ active \in Seq(Timers)
        /\ Members(timer_list) \ {t} \subseteq Members(active)
    BY RemoveTimerType, RemoveTimerMembers DEF ListTypes, ListsConsistent
  <1> HIDE DEF restored, active, processed
  <1>5. Placed(t, restored) /\ Members(active) \subseteq Members(timer_list')
    BY <1>1, <1>3, <1>4, AddTimerEntryPlaces DEF ListTypes
  <1> QED BY <1>3, <1>4, <1>5 DEF Placed, SameService

LEMMA RequeuePlaces ==
    ASSUME ListTypes, ListsConsistent, NEW t \in Timers, NEW e \in Entries,
           NEW k, Requeue(t, e, k)
    PROVE  /\ \/ Placed(t, e)
              \/ /\ e.state = StateEnded
                 /\ Placed(t, [e EXCEPT !.state = StateWaiting])
           /\ Members(timer_list) \ {t} \subseteq Members(timer_list')
  <1> DEFINE active == RemoveTimer(timer_list, t)
  <1>1. /\ active \in Seq(Timers) /\ entry \in [Timers -> Entries]
        /\ Members(timer_list) \ {t} \subseteq Members(active)
    BY RemoveTimerType, RemoveTimerMembers DEF ListTypes, ListsConsistent
  <1>2. e.state < StateEnded <=> e.state # StateEnded
    BY FourStates
  <1>3. \/ e.state # StateEnded /\ Enqueue(t, e, active, k)
        \/ /\ e.state = StateEnded
           /\ \E x \in ProcessRepeated(e, now, TRUE) :
                AddTimerEntry(t, [x EXCEPT !.state = StateWaiting], active,
                              processed_timers, k, FALSE)
        \/ /\ e.state = StateEnded
           /\ Retire(t, e, processed_timers, k) /\ timer_list' = active
    BY <1>2 DEF Requeue
  <1> HIDE DEF active
  <1>4. CASE e.state # StateEnded /\ Enqueue(t, e, active, k)
    BY <1>1, <1>4, EnqueuePlaces
  <1>5. ASSUME e.state = StateEnded, NEW x \in ProcessRepeated(e, now, TRUE),
               AddTimerEntry(t, [x EXCEPT !.state = StateWaiting], active,
                             processed_timers, k, FALSE)
        PROVE  /\ Placed(t, [e EXCEPT !.state = StateWaiting])
               /\ Members(timer_list) \ {t} \subseteq Members(timer_list')
    <2>1. x \in Entries /\ SameService(x, e)
      BY ProcessRepeatedType, ProcessRepeatedService
    <2>2. /\ [x EXCEPT !.state = StateWaiting] \in Entries
          /\ SameService([x EXCEPT !.state = StateWaiting],
                         [e EXCEPT !.state = StateWaiting])
      BY <2>1, ToState, StateRange DEF SameService
    <2>3. /\ Placed(t, [x EXCEPT !.state = StateWaiting])
          /\ Members(active) \subseteq Members(timer_list')
      BY <1>1, <1>5, <2>2, AddTimerEntryPlaces
    <2> QED BY <1>1, <2>2, <2>3 DEF Placed, SameService
  <1>6. CASE /\ e.state = StateEnded
             /\ Retire(t, e, processed_timers, k) /\ timer_list' = active
    BY <1>1, <1>6, RetirePlaces
  <1> QED BY <1>3, <1>4, <1>5, <1>6

-----------------------------------------------------------------------------
(***************************************************************************)
(* Activation: the services of t follow its stage.                         *)
(***************************************************************************)

\* The stages one activation leads to.
Stage(from, to) ==
    \/ to = from
    \/ from = StateWaiting /\ to \in {StatePrepared, StateEnded}
    \/ from = StatePrepared /\ to = StateRunning
    \/ from = StateRunning /\ to = StateEnded

OthersKept(t) == \A u \in Timers \ {t} : recordings'[u] = recordings[u]

\* t is activated and becomes e.
Activated(t, e, k) ==
    /\ Requeue(t, e, k) /\ OthersKept(t)
    /\ Stage(entry[t].state, e.state) /\ e.justplay = entry[t].justplay
    /\ Serves(e, recordings'[t])

LEMMA AdvanceState ==
    ASSUME NEW e \in Entries, e.state # StateEnded
    PROVE  /\ Advance(e) \in Entries
           /\ Advance(e).svc = e.svc /\ Advance(e).justplay = e.justplay
           /\ e.state = StateWaiting => Advance(e).state = StatePrepared
           /\ e.state = StatePrepared => Advance(e).state = StateRunning
           /\ e.state = StateRunning => Advance(e).state = StateEnded
  BY DEF Advance, Entries, StateWaiting, StatePrepared, StateRunning, StateEnded

LEMMA SkipActivates ==
    ASSUME TypeOK, Served, NEW t \in Timers, NEW k, Skip(t, k)
    PROVE  \E e \in Entries : Activated(t, e, k)
  <1> DEFINE e == [entry[t] EXCEPT !.state = StateEnded]
  <1>1. entry[t] \in Entries /\ entry[t].state = StateWaiting
    BY TypeParts DEF Skip, ShouldSkip
  <1>2. /\ e \in Entries /\ e.state = StateEnded
        /\ e.svc = entry[t].svc /\ e.justplay = entry[t].justplay
    BY <1>1, ToState, StateRange
  <1>3. Requeue(t, e, k) /\ UNCHANGED recordings
    BY DEF Skip
  <1>4. Serves(entry[t], recordings[t])
    BY DEF Served
  <1> HIDE DEF e
  <1>5. Serves(e, recordings'[t])
    BY <1>1, <1>2, <1>3, <1>4, StatesDiffer DEF Serves
  <1>6. Activated(t, e, k)
    BY <1>1, <1>2, <1>3, <1>5 DEF Activated, Stage, OthersKept
  <1> QED BY <1>2, <1>6

LEMMA PrepareActivates ==
    ASSUME TypeOK, Served, NEW t \in Timers, NEW k, Prepare(t, k)
    PROVE  \E e \in Entries : Activated(t, e, k)
  <1> DEFINE e == entry[t]
             calm == [e EXCEPT !.backoff = 0]
             ready == Advance(calm)
             refused == DoBackoff(e)
             served == [ready EXCEPT !.svc = TRUE]
             none == [e EXCEPT !.svc = FALSE]
             later == [refused EXCEPT !.svc = FALSE,
                         !.start_prepare = now + refused.backoff]
  <1>1. /\ e \in Entries /\ e.state = StateWaiting /\ now \in Int
        /\ recordings \in [Timers -> Int]
    BY TypeParts DEF Prepare, TypeOK
  <1>2. Serves(e, recordings[t]) /\ e.svc = FALSE /\ recordings[t] = 0
    <2>1. Serves(e, recordings[t])
      BY DEF Served
    <2>2. ~e.svc
      BY <1>1, <2>1, StatesDiffer DEF Serves
    <2> HIDE DEF e
    <2> QED BY <1>1, <2>1, <2>2, FourStates DEF Serves
  <1>3. /\ calm \in Entries /\ calm.state = StateWaiting
        /\ calm.svc = e.svc /\ calm.justplay = e.justplay
    <2> HIDE DEF e
    <2> QED BY <1>1 DEF Entries
  <1>4. /\ ready \in Entries /\ ready.state = StatePrepared
        /\ ready.svc = FALSE /\ ready.justplay = e.justplay
    <2> HIDE DEF e, calm
    <2> QED BY <1>2, <1>3, AdvanceState, StatesDiffer
  <1>5. /\ served \in Entries /\ served.state = StatePrepared
        /\ served.svc = TRUE /\ served.justplay = e.justplay
    <2> HIDE DEF e, ready
    <2> QED BY <1>4 DEF Entries
  <1>6. /\ none \in Entries /\ none.state = StateWaiting
        /\ none.svc = FALSE /\ none.justplay = e.justplay
    <2> HIDE DEF e
    <2> QED BY <1>1 DEF Entries
  <1>7. /\ refused \in Entries /\ refused.state = StateWaiting
        /\ refused.justplay = e.justplay
    <2> HIDE DEF e
    <2> QED BY <1>1, DoBackoffType DEF DoBackoff, Entries
  <1>8. /\ later \in Entries /\ later.state = StateWaiting
        /\ later.svc = FALSE /\ later.justplay = e.justplay
    <2>1. now + refused.backoff \in Int
      BY <1>1, <1>7 DEF Entries
    <2> HIDE DEF e, refused
    <2> QED BY <1>7, <2>1 DEF Entries
  <1>9. \/ e.justplay /\ Requeue(t, ready, k) /\ UNCHANGED recordings
        \/ ~e.justplay /\ Requeue(t, served, k) /\ TakeService(t)
        \/ Requeue(t, none, k) /\ UNCHANGED recordings
        \/ Requeue(t, later, k) /\ UNCHANGED recordings
    BY DEF Prepare
  <1>10. TakeService(t) => recordings'[t] = 1 /\ OthersKept(t)
    BY <1>1, <1>2 DEF TakeService, OthersKept
  <1>11. UNCHANGED recordings => recordings'[t] = 0 /\ OthersKept(t)
    BY <1>2 DEF OthersKept
  <1>12. /\ \A to \in {StateWaiting, StatePrepared} : Stage(e.state, to)
    BY <1>1 DEF Stage
  <1> HIDE DEF e, ready, served, none, later
  <1>13. /\ e.justplay => Serves(ready, 0)
         /\ ~e.justplay => Serves(served, 1)
         /\ Serves(none, 0) /\ Serves(later, 0)
    BY <1>4, <1>5, <1>6, <1>8, StatesDiffer DEF Serves
  <1>14. CASE e.justplay /\ Requeue(t, ready, k) /\ UNCHANGED recordings
    <2>1. Activated(t, ready, k)
      BY <1>4, <1>11, <1>12, <1>13, <1>14 DEF Activated, e
    <2> QED BY <1>4, <2>1
  <1>15. CASE ~e.justplay /\ Requeue(t, served, k) /\ TakeService(t)
    <2>1. Activated(t, served, k)
      BY <1>5, <1>10, <1>12, <1>13, <1>15 DEF Activated, e
    <2> QED BY <1>5, <2>1
  <1>16. CASE Requeue(t, none, k) /\ UNCHANGED recordings
    <2>1. Activated(t, none, k)
      BY <1>6, <1>11, <1>12, <1>13, <1>16 DEF Activated, e
    <2> QED BY <1>6, <2>1
  <1>17. CASE Requeue(t, later, k) /\ UNCHANGED recordings
    <2>1. Activated(t, later, k)
      BY <1>8, <1>11, <1>12, <1>13, <1>17 DEF Activated, e
    <2> QED BY <1>8, <2>1
  <1> QED BY <1>9, <1>14, <1>15, <1>16, <1>17

LEMMA StartActivates ==
    ASSUME TypeOK, Served, NEW t \in Timers, NEW k, Start(t, k)
    PROVE  \E e \in Entries : Activated(t, e, k)
  <1> DEFINE e == entry[t]
             refused == DoBackoff(e)
             later == [refused EXCEPT !.begin = now + refused.backoff]
  <1>1. /\ e \in Entries /\ e.state = StatePrepared /\ now \in Int
        /\ UNCHANGED recordings
    BY TypeParts DEF Start, TypeOK
  <1>2. Serves(e, recordings'[t]) /\ OthersKept(t)
    BY <1>1 DEF Served, OthersKept
  <1>3. /\ Advance(e) \in Entries /\ Advance(e).state = StateRunning
        /\ Advance(e).svc = e.svc /\ Advance(e).justplay = e.justplay
    <2> HIDE DEF e
    <2> QED BY <1>1, AdvanceState, StatesDiffer
  <1>4. refused \in Entries /\ SameService(refused, e)
    <2> HIDE DEF e
    <2> QED BY <1>1, DoBackoffType DEF DoBackoff, Entries, SameService
  <1>5. later \in Entries /\ SameService(later, e)
    <2>1. now + refused.backoff \in Int
      BY <1>1, <1>4 DEF Entries
    <2> HIDE DEF e, refused
    <2> QED BY <1>4, <2>1 DEF Entries, SameService
  <1>6. Requeue(t, Advance(e), k) \/ Requeue(t, later, k)
    BY DEF Start
  <1> HIDE DEF e, later
  <1>7. Serves(Advance(e), recordings'[t]) /\ Serves(later, recordings'[t])
    BY <1>1, <1>2, <1>3, <1>5 DEF Serves, SameService
  <1>8. /\ Requeue(t, Advance(e), k) => Activated(t, Advance(e), k)
        /\ Requeue(t, later, k) => Activated(t, later, k)
    BY <1>1, <1>2, <1>3, <1>5, <1>7 DEF Activated, Stage, SameService, e
  <1> QED BY <1>3, <1>5, <1>6, <1>8

LEMMA StopActivates ==
    ASSUME TypeOK, Served, NEW t \in Timers, NEW k, Stop(t, k)
    PROVE  \E e \in Entries : Activated(t, e, k)
  <1> DEFINE e == entry[t]
             stopped == Advance(e)
             freed == [stopped EXCEPT !.svc = FALSE]
  <1>1. /\ e \in Entries /\ e.state = StateRunning /\ now \in Int /\ ListTypes
        /\ recordings \in [Timers -> Int]
    BY TypeParts DEF Stop, TypeOK
  <1>2. Serves(e, recordings[t])
    BY DEF Served
  <1>3. /\ stopped \in Entries /\ stopped.state = StateEnded
        /\ stopped.svc = e.svc /\ stopped.justplay = e.justplay
    <2> HIDE DEF e
    <2> QED BY <1>1, AdvanceState, StatesDiffer
  <1>4. /\ freed \in Entries /\ freed.state = StateEnded
        /\ freed.svc = FALSE /\ freed.justplay = e.justplay
    <2> HIDE DEF e, stopped
    <2> QED BY <1>3 DEF Entries
  <1>5. \A end \in AutoEnds :
          /\ [e EXCEPT !.end = end] \in Entries
          /\ SameService([e EXCEPT !.end = end], e)
    <2>1. AutoEnds \subseteq Int
      BY <1>1, EndsType
    <2> HIDE DEF e
    <2> QED BY <1>1, <2>1 DEF Entries, SameService
  <1>6. \/ e.justplay /\ Requeue(t, stopped, k) /\ UNCHANGED recordings
        \/ e.svc /\ Requeue(t, freed, k) /\ ReleaseService(t)
        \/ \E end \in AutoEnds :
             Requeue(t, [e EXCEPT !.end = end], k) /\ UNCHANGED recordings
    BY DEF Stop
  <1>7. ReleaseService(t) => /\ recordings'[t] = recordings[t] - 1
                             /\ OthersKept(t)
    BY <1>1 DEF ReleaseService, OthersKept
  <1>8. UNCHANGED recordings => /\ recordings'[t] = recordings[t]
                                /\ OthersKept(t)
    BY DEF OthersKept
  <1>9. Stage(e.state, StateEnded) /\ Stage(e.state, e.state)
    BY <1>1 DEF Stage
  <1> HIDE DEF e, stopped, freed
  <1>10. e.svc => recordings[t] = 1
    BY <1>2 DEF Serves
  <1>11. CASE e.justplay /\ Requeue(t, stopped, k) /\ UNCHANGED recordings
    <2>1. Serves(stopped, recordings'[t])
      BY <1>2, <1>3, <1>8, <1>11, StatesDiffer DEF Serves
    <2>2. Activated(t, stopped, k)
      BY <1>3, <1>8, <1>9, <1>11, <2>1 DEF Activated, e
    <2> QED BY <1>3, <2>2
  <1>12. CASE e.svc /\ Requeue(t, freed, k) /\ ReleaseService(t)
    <2>1. recordings'[t] = 0
      BY <1>7, <1>10, <1>12
    <2>2. Serves(freed, recordings'[t])
      BY <1>4, <2>1, StatesDiffer DEF Serves
    <2>3. Activated(t, freed, k)
      BY <1>4, <1>7, <1>9, <1>12, <2>2 DEF Activated, e
    <2> QED BY <1>4, <2>3
  <1>13. ASSUME NEW end \in AutoEnds,
                Requeue(t, [e EXCEPT !.end = end], k), UNCHANGED recordings
         PROVE  \E x \in Entries : Activated(t, x, k)
    <2>1. PICK x \in Entries : SameService(x, e) /\ Requeue(t, x, k)
      BY <1>5, <1>13
    <2>2. Serves(x, recordings'[t])
      BY <1>2, <1>13, <2>1 DEF Serves, SameService
    <2>3. Activated(t, x, k)
      BY <1>8, <1>9, <1>13, <2>1, <2>2 DEF Activated, SameService, e
    <2> QED BY <2>3
  <1> QED BY <1>6, <1>11, <1>12, <1>13

LEMMA ActivationStages ==
    ASSUME TypeOK, Served, NEW t \in Timers, NEW k, DoActivate(t, k)
    PROVE  \E e \in Entries : Activated(t, e, k)
  BY SkipActivates, PrepareActivates, StartActivates, StopActivates
  DEF DoActivate

-----------------------------------------------------------------------------
(***************************************************************************)
(* Served is kept.                                                         *)
(***************************************************************************)

LEMMA ServedAfterPlacing ==
    ASSUME Served, NEW t \in Timers, NEW e, Placed(t, e),
           Serves(e, recordings'[t]), OthersKept(t),
           Members(timer_list) \ {t} \subseteq Members(timer_list')
    PROVE  Served'
  <1>1. /\ Serves(entry'[t], recordings'[t])
        /\ entry'[t].svc => t \in Members(timer_list')
    <2>1. CASE /\ SameService(entry'[t], e)
               /\ t \in Members(timer_list')
      BY <2>1 DEF SameService, Serves
    <2>2. CASE /\ entry'[t].svc = e.svc /\ entry'[t].justplay = e.justplay
               /\ entry'[t].state = StateEnded
               /\ e.state \in {StateWaiting, StateEnded}
      BY <2>2, StatesDiffer DEF Serves
    <2> QED BY <2>1, <2>2 DEF Placed
  <1>2. ASSUME NEW u \in Timers \ {t}
        PROVE  /\ Serves(entry'[u], recordings'[u])
               /\ entry'[u].svc => u \in Members(timer_list')
    BY DEF Served, Placed, OthersKept
  <1> QED BY <1>1, <1>2 DEF Served, Serves

LEMMA RestoredServes ==
    ASSUME NEW e \in Entries, NEW n, Serves(e, n)
    PROVE  Serves(Restored(e), n)
  BY RestoredEntry, StatesDiffer DEF Serves

LEMMA ServedAfterTimeChange ==
    ASSUME TypeOK, ListsInv, Served, NEW t \in Timers, NEW e \in Entries,
           SameService(e, entry[t]), NEW k, TimerTimeChanged(t, e, k),
           UNCHANGED recordings
    PROVE  Served'
  <1>1. /\ Placed(t, Restored(e))
        /\ Members(timer_list) \ {t} \subseteq Members(timer_list')
    BY TypeParts, TimerTimeChangedPlaces DEF ListsInv
  <1>2. Serves(e, recordings'[t]) /\ OthersKept(t)
    BY DEF Served, Serves, SameService, OthersKept
  <1>3. Serves(Restored(e), recordings'[t])
    BY <1>2, RestoredServes
  <1> QED BY <1>1, <1>2, <1>3, ServedAfterPlacing

LEMMA ServedAfterActivation ==
    ASSUME TypeOK, ListsInv, Served, NEW t \in Timers, NEW k, DoActivate(t, k)
    PROVE  Served'
  <1>1. PICK e \in Entries : Activated(t, e, k)
    BY ActivationStages
  <1>2. /\ \/ Placed(t, e)
           \/ /\ e.state = StateEnded
              /\ Placed(t, [e EXCEPT !.state = StateWaiting])
        /\ Members(timer_list) \ {t} \subseteq Members(timer_list')
    BY <1>1, TypeParts, RequeuePlaces DEF Activated, ListsInv
  <1>3. Serves(e, recordings'[t]) /\ OthersKept(t)
    BY <1>1 DEF Activated
  <1>4. e.state = StateEnded =>
          Serves([e EXCEPT !.state = StateWaiting], recordings'[t])
    BY <1>3, ToState, StateRange, StatesDiffer DEF Serves
  <1> QED BY <1>2, <1>3, <1>4, ServedAfterPlacing

\* An entry that is in no list is put into one of them.
LEMMA ServedAfterArrival ==
    ASSUME TypeOK, Served, NEW t \in Timers, t \notin Known,
           NEW e \in Entries, e.svc = FALSE, e.state = StateWaiting,
           NEW k, NEW noRecalc,
           AddTimerEntry(t, e, timer_list, processed_timers, k, noRecalc),
           UNCHANGED recordings
    PROVE  Served'
  <1>1. Placed(t, e) /\ Members(timer_list) \subseteq Members(timer_list')
    BY AddTimerEntryPlaces DEF TypeOK
  <1>2. recordings'[t] = 0
    BY DEF Served, Serves, Known
  <1>3. Serves(e, recordings'[t])
    BY <1>2, StatesDiffer DEF Serves
  <1>4. OthersKept(t)
    BY DEF OthersKept
  <1> QED BY <1>1, <1>3, <1>4, ServedAfterPlacing

\* What changes has no service, and takes none.
Idles(e) == e.svc = FALSE /\ e.state \notin {StatePrepared, StateRunning}

LEMMA ServedKept ==
    ASSUME Served, UNCHANGED <<timer_list, recordings>>,
           \A u \in Timers : \/ SameService(entry'[u], entry[u])
                             \/ ~entry[u].svc /\ Idles(entry'[u])
    PROVE  Served'
  BY DEF Served, Serves, SameService, Idles

LEMMA SameServiceReflexive == \A e : SameService(e, e)
  BY DEF SameService

LEMMA BlankIdles == Idles(Blank)
  BY DEF Idles, Blank, NewEntry, ResetState, TimeChanged, StateWaiting,
         StatePrepared, StateRunning

LEMMA WaitingIdles ==
    ASSUME NEW e, e.svc = FALSE, e.state = StateWaiting
    PROVE  Idles(e)
  BY StatesDiffer DEF Idles

\* One entry is replaced by one without a service.
LEMMA ServedAfterDrop ==
    ASSUME TypeOK, Served, NEW t \in Timers, t \notin Members(timer_list),
           NEW e, Idles(e), entry' = [entry EXCEPT ![t] = e],
           UNCHANGED <<timer_list, recordings>>
    PROVE  Served'
  <1>1. entry'[t] = e /\ \A u \in Timers \ {t} : entry'[u] = entry[u]
    BY DEF TypeOK
  <1>2. ~entry[t].svc
    BY DEF Served
  <1> QED BY <1>1, <1>2, ServedKept, SameServiceReflexive

\* One entry is changed, with neither its state nor its service.
LEMMA ServedAfterChange ==
    ASSUME TypeOK, Served, NEW t, NEW e, SameService(e, entry[t]),
           entry' = [entry EXCEPT ![t] = e],
           UNCHANGED <<timer_list, recordings>>
    PROVE  Served'
  <1>1. \A u \in Timers : entry'[u] = IF u = t THEN e ELSE entry[u]
    BY DEF TypeOK
  <1> QED BY <1>1, ServedKept, SameServiceReflexive

-----------------------------------------------------------------------------
(***************************************************************************)
(* The actions that change an entry.                                       *)
(***************************************************************************)

Ready == Typed /\ ListsInv /\ Served

LEMMA ReadyParts ==
    ASSUME Ready
    PROVE  /\ TypeOK /\ TypeOK' /\ ListsInv /\ ListsConsistent /\ Served
           /\ entry \in [Timers -> Entries]
           /\ \A t \in Timers : entry[t] \in Entries
  BY TypeParts DEF Ready, Typed, ListsInv, TypeOK

LEMMA ServedStays ==
    ASSUME Served, UNCHANGED <<entry, timer_list, recordings>>
    PROVE  Served'
  BY DEF Served, Serves

LEMMA BootServed ==
    ASSUME Boot
    PROVE  Served'
  <1>1. \A t \in Timers : entry'[t] = Blank /\ recordings'[t] = 0
    BY DEF Boot
  <1>2. Serves(Blank, 0) /\ ~Blank.svc
    BY BlankIdles DEF Serves, Idles
  <1> QED BY <1>1, <1>2 DEF Served, Serves

LEMMA ReEvaluateServed ==
    ASSUME Ready, ReEvaluate
    PROVE  Served'
  <1>1. CASE Top.rest = <<>>
    BY <1>1, ReadyParts, ServedStays DEF ReEvaluate
  <1>2. CASE Top.rest # <<>>
    <2> DEFINE x == Head(Top.rest)
               e == ResetState(entry[x])
    <2>1. In("rearm") /\ Top.op = "rearm" /\ todo # <<>>
      BY DEF ReEvaluate, In
    <2>2. Top.rest \in Seq(Timers)
      BY <2>1, ReadyParts, TopOfKind DEF TypeOK
    <2>3. x \in Timers /\ x \in Members(Top.rest)
      BY <1>2, <2>2, MembersTail
    <2>4. x \notin Known
      BY <2>1, <2>3, ReadyParts DEF ListsInv
    <2>5. entry[x] \in Entries /\ ~entry[x].svc
      BY <2>3, <2>4, ReadyParts DEF Served, Known
    <2>6. e \in Entries /\ e.state = StateWaiting /\ e.svc = entry[x].svc
      <3>1. e \in Entries
        BY <2>5, ResetStateType
      <3>2. e.state = StateWaiting /\ e.svc = entry[x].svc
        BY <2>5 DEF ResetState, TimeChanged, Entries
      <3> QED BY <3>1, <3>2
    <2>7. e.svc = FALSE
      BY <2>5, <2>6, FourStates
    <2>8. /\ AddTimerEntry(x, e, timer_list, processed_timers,
               <<[Top EXCEPT !.rest = Tail(@)]>> \o Rest, TRUE)
          /\ UNCHANGED recordings
      BY <1>2 DEF ReEvaluate
    <2> HIDE DEF x, e
    <2> QED BY <2>3, <2>4, <2>6, <2>7, <2>8, ReadyParts, ServedAfterArrival
  <1> QED BY <1>1, <1>2

LEMMA ProcessActivationServed ==
    ASSUME Ready, ProcessActivation
    PROVE  Served'
  <1> DEFINE t == Head(timer_list)
  <1>1. timer_list # <<>> /\ timer_list \in Seq(Timers) /\ DoActivate(t, todo)
    BY ReadyParts DEF ProcessActivation, HeadDue, TypeOK
  <1>2. t \in Timers
    BY <1>1, MembersTail
  <1> HIDE DEF t
  <1> QED BY <1>1, <1>2, ReadyParts, ServedAfterActivation

LEMMA ActivateChosenServed ==
    ASSUME Ready, ActivateChosen
    PROVE  Served'
  <1>1. Top.t \in Timers
    BY ReadyParts, TopOfKind DEF ActivateChosen, In, TypeOK
  <1> QED BY <1>1, ReadyParts, ServedAfterActivation DEF ActivateChosen

LEMMA LoadTimerServed ==
    ASSUME Ready, LoadTimer
    PROVE  Served'
  <1> DEFINE next == <<[Top EXCEPT !.n = @ + 1]>> \o Rest
             s == file.timers[Top.n]
             e == NewEntry(s.begin, s.end, s.repeated, s.disabled, s.justplay)
  <1>1. /\ todo # <<>> /\ Top.op = "load" /\ UNCHANGED recordings
        /\ TypeOK /\ Served /\ file.timers \in Seq(SavedTimer)
        /\ Top.n \in Nat \ {0}
    BY ReadyParts, TopOfKind DEF LoadTimer, In, TypeOK
  <1>2. CASE UNCHANGED <<entry, timer_list, processed_timers>>
    BY <1>1, <1>2, ServedStays
  <1>3. CASE /\ Top.n <= Len(file.timers)
             /\ AddTimerEntry(s.t, TimeChanged(e), timer_list,
                              processed_timers, next, FALSE)
    <2>1. s \in SavedTimer /\ Top.n \in DOMAIN file.timers
      BY <1>1, <1>3, SeqFacts
    <2>2. s.t \in Timers
      BY <2>1 DEF SavedTimer
    <2>3. /\ TimeChanged(e) \in Entries /\ TimeChanged(e).svc = FALSE
          /\ TimeChanged(e).state = StateWaiting
      <3>1. e \in Entries
        BY <2>1, NewEntryType DEF SavedTimer
      <3> HIDE DEF s
      <3>2. e.state = StateWaiting /\ e.svc = FALSE
        BY DEF NewEntry, ResetState, TimeChanged
      <3> HIDE DEF e
      <3> QED BY <3>1, <3>2, TimeChangedType, TimeChangedService
              DEF SameService
    <2>4. s.t \notin Known
      <3>1. s.t \in ArrivesBy(Top, file.timers)
        <4>1. Top.n >= Top.n
          BY <1>1
        <4> QED BY <1>1, <2>1, <4>1 DEF ArrivesBy
      <3>2. ArrivesBy(Top, file.timers) \subseteq Arriving(todo, file.timers)
        BY <1>1, ReadyParts, RestFits
      <3> QED BY <3>1, <3>2, ReadyParts DEF ListsInv
    <2> HIDE DEF s, e, next
    <2> QED BY <1>1, <1>3, <2>2, <2>3, <2>4, ServedAfterArrival
  <1> QED BY <1>2, <1>3 DEF LoadTimer

LEMMA UnknownUnserved ==
    ASSUME Served, NEW t \in Timers, t \notin Known
    PROVE  ~entry[t].svc /\ t \notin Members(timer_list)
  BY DEF Served, Known

LEMMA AddRecordServed ==
    ASSUME Ready, "retry" \notin UserOps, AddRecord
    PROVE  Served'
  <1> DEFINE t == Top.t
             e == TimeChanged(entry[t])
  <1>1. /\ todo # <<>> /\ Top.op = "add" /\ UNCHANGED recordings
        /\ TypeOK /\ ListsInv /\ Served
    BY ReadyParts DEF AddRecord, In
  <1>2. t \in Timers /\ entry[t] \in Entries
    BY <1>1, TopOfKind, TypeParts DEF TypeOK
  <1>3. t \notin Known
    <2>1. t \in ArrivesBy(Top, file.timers)
      BY <1>1 DEF ArrivesBy
    <2>2. ArrivesBy(Top, file.timers) \subseteq Arriving(todo, file.timers)
      BY <1>1, RestFits
    <2> QED BY <1>1, <2>1, <2>2 DEF ListsInv
  <1>4. ~entry[t].svc /\ t \notin Members(timer_list)
    BY <1>1, <1>2, <1>3, UnknownUnserved
  <1> HIDE DEF t
  <1>5. CASE AddTimerEntry(t, e, timer_list, processed_timers, Save \o Rest,
                           FALSE)
    <2>1. e \in Entries /\ SameService(e, entry[t])
      BY <1>2, TimeChangedType, TimeChangedService
    <2>2. /\ Placed(t, e)
          /\ Members(timer_list) \subseteq Members(timer_list')
      BY <1>1, <1>2, <1>5, <2>1, AddTimerEntryPlaces DEF TypeOK
    <2>3. Serves(e, recordings'[t]) /\ OthersKept(t)
      BY <1>1, <1>2, <2>1 DEF Served, Serves, SameService, OthersKept
    <2> QED BY <1>1, <1>2, <2>2, <2>3, ServedAfterPlacing
  <1>6. CASE Drop(t)
    <2>1. entry' = [entry EXCEPT ![t] = Blank] /\ UNCHANGED timer_list
      BY <1>3, <1>6 DEF Drop
    <2> QED BY <1>1, <1>2, <1>4, <2>1, BlankIdles, ServedAfterDrop
  <1> QED BY <1>5, <1>6 DEF AddRecord, t

\* What t is retimed to says nothing new of its stage or its service.
Retimed(t, k) ==
    \E e \in Entries : SameService(e, entry[t]) /\ TimerTimeChanged(t, e, k)

\* A call that retimes one timer at most, then returns or goes on.  Recordings
\* that are prolonged are enqueued.
Retimes ==
    /\ UNCHANGED recordings
    /\ \E k : /\ \/ k = Rest
                 \/ \E f \in Frames : f.op = Top.op /\ k = <<f>> \o Rest
              /\ \/ \E t \in Timers :
                      /\ Retimed(t, k)
                      /\ Top.op = "extend" => t \in Members(timer_list)
                 \/ /\ todo' = k
                    /\ UNCHANGED <<entry, timer_list, processed_timers>>

LEMMA RetimesServed ==
    ASSUME Ready, Retimes
    PROVE  Served'
  <1>1. TypeOK /\ ListsInv /\ Served /\ UNCHANGED recordings
    BY ReadyParts DEF Retimes
  <1>2. ASSUME NEW t \in Timers, NEW k, Retimed(t, k)
        PROVE  Served'
    BY <1>1, <1>2, ServedAfterTimeChange DEF Retimed
  <1>3. CASE UNCHANGED <<entry, timer_list, processed_timers>>
    BY <1>1, <1>3, ServedStays
  <1> QED BY <1>2, <1>3 DEF Retimes

LEMMA LimitRecordingRetimes ==
    ASSUME TypeOK, LimitRecording
    PROVE  Retimes
  <1> DEFINE x == Head(Top.rest)
             others == Tail(Top.rest)
             next == [Top EXCEPT !.rest = others]
             k == IF others = <<>> THEN Rest ELSE <<next>> \o Rest
  <1>1. /\ TypeOK /\ UNCHANGED recordings
        /\ todo # <<>> /\ Top.op = "limit"
    BY DEF LimitRecording, In
  <1>2. /\ Top.rest \in Seq(Timers) \ {<<>>} /\ Top.n \in Int
        /\ \A r \in Seq(Timers) \ {<<>>} : [Top EXCEPT !.rest = r] \in Frames
    BY <1>1, TopOfKind DEF TypeOK
  <1>3. x \in Timers /\ entry[x] \in Entries /\ others \in Seq(Timers)
    BY <1>1, <1>2, MembersTail, TypeParts
  <1>4. PICK end \in {Top.n - Lead} \cup ConflictEnds :
          \/ TimerTimeChanged(x, [entry[x] EXCEPT !.end = end], k)
          \/ todo' = k /\ UNCHANGED <<entry, timer_list, processed_timers>>
    BY DEF LimitRecording
  <1>5. end \in Int
    <2>1. ConflictEnds \subseteq Int
      BY <1>1, EndsType, TypeParts DEF TypeOK
    <2>2. Top.n - Lead \in Int
      BY <1>2, TimerAssumption
    <2> QED BY <2>1, <2>2
  <1>6. k = Rest \/ \E f \in Frames : f.op = Top.op /\ k = <<f>> \o Rest
    <2>1. others # <<>> => next \in Frames
      BY <1>2, <1>3
    <2>2. Top \in Frames
      BY <1>1, TopType DEF TypeOK
    <2>3. next.op = Top.op
      BY <2>2 DEF Frames
    <2> HIDE DEF next
    <2> QED BY <2>1, <2>3
  <1> HIDE DEF x, k
  <1>7. /\ [entry[x] EXCEPT !.end = end] \in Entries
        /\ SameService([entry[x] EXCEPT !.end = end], entry[x])
    BY <1>3, <1>5 DEF Entries, SameService
  <1>8. \/ Retimed(x, k)
        \/ todo' = k /\ UNCHANGED <<entry, timer_list, processed_timers>>
    BY <1>4, <1>7 DEF Retimed
  <1> QED BY <1>1, <1>3, <1>6, <1>8 DEF Retimes

LEMMA ExtendRecordingsRetimes ==
    ASSUME TypeOK, ExtendRecordings
    PROVE  Retimes
  <1> DEFINE x == timer_list[Top.n]
             next == [Top EXCEPT !.n = @ + 1]
             k == <<next>> \o Rest
  <1>1. /\ TypeOK /\ UNCHANGED recordings
        /\ todo # <<>> /\ Top.op = "extend" /\ timer_list \in Seq(Timers)
    BY DEF ExtendRecordings, In, TypeOK
  <1>2. /\ Top.n \in Nat \ {0}
        /\ next \in Frames /\ next.op = Top.op
    <2>1. Top \in Frames
      BY <1>1, TopType DEF TypeOK
    <2>2. Top.n \in Nat \ {0} /\ [Top EXCEPT !.n = Top.n + 1] \in Frames
      BY <1>1, TopOfKind DEF TypeOK
    <2>3. next \in Frames
      BY <2>2
    <2>4. next.op = Top.op
      BY <2>1 DEF Frames
    <2> QED BY <2>2, <2>3, <2>4
  <1>3. \/ /\ todo' = Rest \/ todo' = k
           /\ UNCHANGED <<entry, timer_list, processed_timers>>
        \/ /\ Top.n <= Len(timer_list)
           /\ \E end \in AutoEnds :
                TimerTimeChanged(x, [entry[x] EXCEPT !.end = end], k)
    BY DEF ExtendRecordings
  <1> HIDE DEF next
  <1>4. ASSUME NEW end \in AutoEnds, Top.n <= Len(timer_list),
               TimerTimeChanged(x, [entry[x] EXCEPT !.end = end], k)
        PROVE  x \in Timers /\ x \in Members(timer_list) /\ Retimed(x, k)
    <2>1. x \in Timers /\ entry[x] \in Entries
      BY <1>1, <1>2, <1>4, SeqFacts, TypeParts
    <2>4. x \in Members(timer_list)
      BY <1>1, <1>2, <1>4 DEF Members
    <2>2. end \in Int
      BY <1>1, TypeParts, EndsType DEF TypeOK
    <2> HIDE DEF x, k
    <2>3. /\ [entry[x] EXCEPT !.end = end] \in Entries
          /\ SameService([entry[x] EXCEPT !.end = end], entry[x])
      BY <2>1, <2>2 DEF Entries, SameService
    <2> QED BY <1>4, <2>1, <2>3, <2>4 DEF Retimed
  <1>5. \/ k = Rest
        \/ \E f \in Frames : f.op = Top.op /\ k = <<f>> \o Rest
    BY <1>2
  <1> HIDE DEF x, k
  <1> QED BY <1>1, <1>3, <1>4, <1>5 DEF Retimes

LEMMA RemoveProcessedServed ==
    ASSUME Ready, RemoveProcessed
    PROVE  Served'
  <1>1. TypeOK /\ Served /\ UNCHANGED <<timer_list, recordings>>
    BY ReadyParts DEF RemoveProcessed
  <1>2. CASE Top.t \notin Members(processed_timers)
    BY <1>1, <1>2, ServedStays DEF RemoveProcessed
  <1>3. CASE Top.t \in Members(processed_timers)
    <2>1. Top.t \in Timers /\ Top.t \notin Members(timer_list)
      BY <1>1, <1>3, ReadyParts, TypeParts DEF ListsConsistent
    <2>2. entry' = [entry EXCEPT ![Top.t] = Blank]
      BY <1>3 DEF RemoveProcessed
    <2> QED BY <1>1, <2>1, <2>2, BlankIdles, ServedAfterDrop
  <1> QED BY <1>2, <1>3

LEMMA CheckEditedRetimes ==
    ASSUME TypeOK, CheckEdited
    PROVE  Retimes
  <1>1. TypeOK /\ UNCHANGED recordings /\ todo # <<>> /\ Top.op = "edited"
    BY DEF CheckEdited, In
  <1>2. Top.t \in Timers /\ entry[Top.t] \in Entries
    BY <1>1, TopOfKind, TypeParts DEF TypeOK
  <1>3. \/ Retimed(Top.t, Rest)
        \/ todo' = Rest /\ UNCHANGED <<entry, timer_list, processed_timers>>
    BY <1>2, SameServiceReflexive DEF CheckEdited, Retimed
  <1> QED BY <1>1, <1>2, <1>3 DEF Retimes

LEMMA DisabledService ==
    ASSUME NEW e \in Entries, NEW disabled \in BOOLEAN
    PROVE  /\ [e EXCEPT !.disabled = disabled] \in Entries
           /\ SameService([e EXCEPT !.disabled = disabled], e)
  BY DEF Entries, SameService

LEMMA RetimeChosenRetimes ==
    ASSUME TypeOK, RetimeChosen
    PROVE  Retimes
  <1>1. TypeOK /\ UNCHANGED recordings /\ todo # <<>> /\ Top.op = "retime"
    BY DEF RetimeChosen, In
  <1>2. Top.t \in Timers /\ entry[Top.t] \in Entries
    BY <1>1, TopOfKind, TypeParts DEF TypeOK
  <1>3. Retimed(Top.t, Rest)
    <2>1. \/ TimerTimeChanged(Top.t,
                              [entry[Top.t] EXCEPT !.disabled = TRUE], Rest)
          \/ TimerTimeChanged(Top.t, entry[Top.t], Rest)
      BY DEF RetimeChosen
    <2> QED BY <1>2, <2>1, DisabledService, SameServiceReflexive DEF Retimed
  <1> QED BY <1>1, <1>2, <1>3 DEF Retimes

-----------------------------------------------------------------------------
(***************************************************************************)
(* The actions of the user.                                                *)
(***************************************************************************)

LEMMA RecordServed ==
    ASSUME Ready, NEW t \in Timers, Record(t)
    PROVE  Served'
  <1>1. PICK new \in Templates :
          entry' = [entry EXCEPT ![t] =
            NewEntry(new.begin, new.end, new.repeated, FALSE, new.justplay)]
    BY DEF Record
  <1> DEFINE e == NewEntry(new.begin, new.end, new.repeated, FALSE,
                           new.justplay)
  <1>2. Idles(e)
    <2>1. e.state = StateWaiting /\ e.svc = FALSE
      BY DEF NewEntry, ResetState, TimeChanged
    <2> QED BY <2>1, WaitingIdles
  <1> HIDE DEF e
  <1>3. t \notin Members(timer_list) /\ UNCHANGED <<timer_list, recordings>>
    BY DEF Record, Known
  <1> QED BY <1>1, <1>2, <1>3, ReadyParts, ServedAfterDrop DEF e

LEMMA InstantRecordServed ==
    ASSUME Ready, NEW t \in Timers, InstantRecord(t)
    PROVE  Served'
  <1>1. PICK end \in AutoEnds :
          entry' = [entry EXCEPT ![t] =
            [NewEntry(now, end, {}, FALSE, FALSE) EXCEPT
               !.dontSave = TRUE, !.autoincrease = (end = now + AutoIncrease)]]
    BY DEF InstantRecord
  <1> DEFINE e == [NewEntry(now, end, {}, FALSE, FALSE) EXCEPT
               !.dontSave = TRUE, !.autoincrease = (end = now + AutoIncrease)]
  <1>2. Idles(e)
    <2>1. e.state = StateWaiting /\ e.svc = FALSE
      BY DEF NewEntry, ResetState, TimeChanged
    <2> QED BY <2>1, WaitingIdles
  <1> HIDE DEF e
  <1>3. t \notin Members(timer_list) /\ UNCHANGED <<timer_list, recordings>>
    BY DEF InstantRecord, Known
  <1> QED BY <1>1, <1>2, <1>3, ReadyParts, ServedAfterDrop DEF e

LEMMA AbortedService ==
    ASSUME NEW e \in Entries
    PROVE  SameService(Abort(Withdraw(e), now), e)
  BY DEF Abort, Withdraw, Entries, SameService

LEMMA RemoveEntryServed ==
    ASSUME Ready, NEW t \in Timers, RemoveEntry(t)
    PROVE  Served'
  <1> DEFINE aborted == Abort(Withdraw(entry[t]), now)
             k == (IF aborted.dontSave THEN <<>>
                   ELSE <<Frame("extend", NoTimer, 1, <<>>)>>)
                  \o <<Frame("remove", t, 0, <<>>)>> \o Save
  <1>1. /\ TypeOK /\ ListsInv /\ Served /\ UNCHANGED recordings
        /\ entry[t] \in Entries
    BY ReadyParts DEF RemoveEntry
  <1>2. aborted \in Entries /\ SameService(aborted, entry[t])
    BY <1>1, AbortedType, AbortedService
  <1>3. \/ TimerTimeChanged(t, aborted, k)
        \/ /\ entry' = [entry EXCEPT ![t] = aborted]
           /\ UNCHANGED timer_list
    BY DEF RemoveEntry
  <1> HIDE DEF aborted, k
  <1> QED BY <1>1, <1>2, <1>3, ServedAfterTimeChange, ServedAfterChange

LEMMA SetEndServed ==
    ASSUME Ready, NEW t \in Timers, SetEnd(t)
    PROVE  Served'
  <1>1. PICK end \in Int, growing \in BOOLEAN :
          TimerTimeChanged(t, [entry[t] EXCEPT !.autoincrease = growing,
                                               !.end = end], <<>>)
    BY ReadyParts, SetEndChange
  <1>2. /\ [entry[t] EXCEPT !.autoincrease = growing, !.end = end] \in Entries
        /\ SameService([entry[t] EXCEPT !.autoincrease = growing, !.end = end],
                       entry[t])
    BY ReadyParts DEF Entries, SameService
  <1> QED BY <1>1, <1>2, ReadyParts, ServedAfterTimeChange DEF SetEnd

\* An edit in place; it may not turn a recording into a zap, or back.
LEMMA KeyGoServed ==
    ASSUME Ready, SwitchType = FALSE, NEW t \in Timers, KeyGo(t)
    PROVE  Served'
  <1>1. entry \in [Timers -> Entries]
    BY ReadyParts
  <1>2. PICK new \in Templates :
          /\ new.justplay = entry[t].justplay
          /\ entry' = [entry EXCEPT
               ![t].begin = new.begin, ![t].end = new.end,
               ![t].repeated = new.repeated, ![t].justplay = new.justplay,
               ![t].repeatedbegindate = IF new.repeated = {} THEN @
                                        ELSE new.begin]
    BY DEF KeyGo
  <1>3. \A u \in Timers : SameService(entry'[u], entry[u])
    BY <1>1, <1>2 DEF Entries, SameService
  <1> QED BY <1>3, ReadyParts, ServedKept DEF KeyGo

LEMMA ToggleConflictServed ==
    ASSUME Ready, NEW x \in Timers, ToggleConflict(x)
    PROVE  Served'
  <1>1. entry \in [Timers -> Entries]
    BY ReadyParts
  <1>2. \A u \in Timers : SameService(entry'[u], entry[u])
    BY <1>1 DEF ToggleConflict, Entries, SameService
  <1> QED BY <1>2, ReadyParts, ServedKept DEF ToggleConflict

LEMMA AbandonServed ==
    ASSUME Ready, Abandon
    PROVE  Served'
  <1>1. TypeOK /\ Served /\ UNCHANGED <<timer_list, recordings>>
    BY ReadyParts DEF Abandon
  <1>2. CASE dialog.t \in Known
    BY <1>1, <1>2, ServedStays DEF Abandon
  <1>3. CASE dialog.t \notin Known
    <2>1. dialog.t \in Timers /\ dialog.t \notin Members(timer_list)
      BY <1>1, <1>3, TypeParts DEF Abandon, Known
    <2>2. entry' = [entry EXCEPT ![dialog.t] = Blank]
      BY <1>3 DEF Abandon
    <2> QED BY <1>1, <2>1, <2>2, BlankIdles, ServedAfterDrop
  <1> QED BY <1>2, <1>3

LEMMA CleanupServed ==
    ASSUME Ready, Cleanup
    PROVE  Served'
  <1>1. /\ TypeOK /\ Served /\ UNCHANGED <<timer_list, recordings>>
        /\ ListsConsistent
    BY ReadyParts DEF Cleanup
  <1>2. ASSUME NEW u \in Timers
        PROVE  \/ SameService(entry'[u], entry[u])
               \/ ~entry[u].svc /\ Idles(entry'[u])
    <2>1. CASE u \in Members(processed_timers) /\ ~entry[u].disabled
      <3>1. entry'[u] = Blank /\ u \notin Members(timer_list)
        BY <1>1, <2>1 DEF Cleanup, ListsConsistent
      <3> QED BY <1>1, <3>1, BlankIdles DEF Served
    <2>2. CASE ~(u \in Members(processed_timers) /\ ~entry[u].disabled)
      <3>1. entry'[u] = entry[u]
        BY <2>2 DEF Cleanup
      <3> QED BY <3>1, SameServiceReflexive
    <2> QED BY <2>1, <2>2
  <1> QED BY <1>1, <1>2, ServedKept

LEMMA ToggleDisabledStateServed ==
    ASSUME Ready, NEW t \in Timers, ToggleDisabledState(t)
    PROVE  Served'
  <1>1. PICK disabled \in BOOLEAN :
          TimerTimeChanged(t, [entry[t] EXCEPT !.disabled = disabled], <<>>)
    BY ReadyParts, ToggleChange
  <1> QED BY <1>1, ReadyParts, DisabledService, ServedAfterTimeChange
          DEF ToggleDisabledState

LEMMA RunningEventCallbackServed ==
    ASSUME Ready, RunningEventCallback
    PROVE  Served'
  <1> DEFINE t == dialog.t
             enabled == [entry[t] EXCEPT !.disabled = FALSE]
  <1>1. TypeOK /\ Served /\ UNCHANGED <<timer_list, recordings>>
    BY ReadyParts DEF RunningEventCallback
  <1>2. t \in Timers /\ entry[t] \in Entries
    BY <1>1, TypeParts DEF RunningEventCallback
  <1>3. enabled \in Entries /\ SameService(enabled, entry[t])
    BY <1>2, DisabledService
  <1>4. \/ UNCHANGED entry
        \/ \E x \in ProcessRepeated(enabled, now, FALSE) :
             entry' = [entry EXCEPT ![t] = x]
    BY DEF RunningEventCallback
  <1> HIDE DEF t, enabled
  <1>5. ASSUME NEW x \in ProcessRepeated(enabled, now, FALSE),
               entry' = [entry EXCEPT ![t] = x]
        PROVE  Served'
    <2>1. SameService(x, enabled)
      BY <1>3, <1>5, ProcessRepeatedService
    <2>2. SameService(x, entry[t])
      BY <1>3, <2>1 DEF SameService
    <2> QED BY <1>1, <1>5, <2>2, ServedAfterChange
  <1> QED BY <1>1, <1>4, <1>5, ServedStays

LEMMA HandlerServed ==
    ASSUME Ready, "retry" \notin UserOps, Handler
    PROVE  Served'
  <1>1. CASE \/ CalcNextActivation \/ SetNextActivation \/ Fatal \/ Truncate
             \/ Write
    <2>1. UNCHANGED <<entry, timer_list, recordings>>
      BY <1>1 DEF CalcNextActivation, SetNextActivation, Fatal, Truncate, Write
    <2> QED BY <2>1, ReadyParts, ServedStays
  <1> QED BY <1>1, ReEvaluateServed, ProcessActivationServed, BootServed,
             LoadTimerServed, AddRecordServed, LimitRecordingRetimes,
             ExtendRecordingsRetimes, RemoveProcessedServed,
             CheckEditedRetimes, ActivateChosenServed, RetimeChosenRetimes,
             RetimesServed, ReadyParts
          DEF Handler

\* No edit turns a recording into a zap timer, or back.
TypesStay == SwitchType = FALSE \/ UserOps \cap {"edit", "conflict"} = {}

LEMMA UserServed ==
    ASSUME Ready, TypesStay, User
    PROVE  Served'
  <1>1. CASE Shutdown \/ FinishEdit \/ RetryRecord
    <2>1. UNCHANGED <<entry, timer_list, recordings>>
      BY <1>1 DEF Shutdown, FinishEdit, RetryRecord
    <2> QED BY <2>1, ReadyParts, ServedStays
  <1>2. ASSUME NEW t \in Timers, EditTimer(t) \/ EditConflict(t)
        PROVE  Served'
    BY <1>2, KeyGoServed
    DEF EditTimer, EditConflict, UserTurn, OnConflict, TypesStay
  <1> QED BY <1>1, <1>2, RecordServed, InstantRecordServed, RemoveEntryServed,
             SetEndServed, ToggleDisabledStateServed, ToggleConflictServed,
             CleanupServed, AbandonServed, RunningEventCallbackServed
          DEF User

LEMMA NextServed ==
    ASSUME Ready, "retry" \notin UserOps, TypesStay, [Next]_vars
    PROVE  Served'
  <1>1. CASE Tick \/ SetClock \/ Timeout \/ Crash \/ UNCHANGED vars
    <2>1. UNCHANGED <<entry, timer_list, recordings>>
      BY <1>1 DEF Tick, SetClock, Timeout, Crash, vars, listVars
    <2> QED BY <2>1, ReadyParts, ServedStays
  <1> QED BY <1>1, HandlerServed, UserServed DEF Next

LEMMA InitServed == Init => Served
  <1> SUFFICES ASSUME Init PROVE Served
    OBVIOUS
  <1>1. \A t \in Timers : entry[t] = Blank /\ recordings[t] = 0
    BY DEF Init
  <1>2. Serves(Blank, 0) /\ ~Blank.svc
    BY BlankIdles DEF Serves, Idles
  <1> QED BY <1>1, <1>2 DEF Served, Serves

LEMMA ServedHolds ==
    "retry" \notin UserOps /\ TypesStay => (Spec => []Served)
  <1> SUFFICES ASSUME "retry" \notin UserOps, TypesStay
               PROVE  Spec => []Served
    OBVIOUS
  <1>1. Init => Served
    BY InitServed
  <1>2. Ready /\ [Next]_vars => Served'
    BY NextServed
  <1>3. TypeOK /\ TypeOK' /\ ListsInv /\ Served => Ready
    BY DEF Ready, Typed
  <1>4. Spec => []ListsInv
    BY ListsInvHolds
  <1> QED BY <1>1, <1>2, <1>3, <1>4, TypeCorrect, PTL DEF Spec

\* For any number of timers, any clock and any faults of the tuner, and however
\* calls nest or are cut off: eNavigation holds one recording service for each
\* recording that is prepared or runs, and none for anything else
\* (RecordTimer.py:177-317).  An edit that turns a recording into a zap is left
\* out: the service of such a recording is never given back.
THEOREM ServicesFollowStages ==
    "retry" \notin UserOps /\ TypesStay
      => (Spec => []ServiceMatchesState)
  <1>1. Served => ServiceMatchesState
    BY DEF Served, Serves, ServiceMatchesState
  <1> QED BY <1>1, ServedHolds, PTL

-----------------------------------------------------------------------------
(***************************************************************************)
(* The stages of a timer's life.                                           *)
(*                                                                         *)
(* What TimerLifecycle asks of a step depends on what happens elsewhere: a *)
(* timer that is activated on an answer must still be in timer_list, one   *)
(* that is re-evaluated must have ended.  StageInv says so.                *)
(***************************************************************************)

\* The timers a step may still bring back into the lists are known as well.
Alive == Known \cup Pending

\* A repeated timer that is not disabled stays in timer_list.
Goes(t) ==
    /\ t \in Members(timer_list)
    /\ entry[t].repeated # {} /\ ~entry[t].disabled

Steady(stack) == \A f \in Members(stack) : f.op \notin {"rearm", "activate"}

\* What runs while a screen waits for an answer.
Timely == {"calc", "process", "rearm", "boot"}

ChoiceOpen ==
    dialog.kind = "choice" =>
      /\ Goes(dialog.t)
      /\ \A f \in Members(todo) : f.op \in Timely

\* What is in neither list has ended or was never prepared.
OutsideLists ==
    /\ \A t \in Pending : entry[t].state = StateEnded
    /\ \A t \in Timers \ Alive : entry[t].state \in {StateWaiting, StateEnded}

StageInv ==
    /\ todo # <<>> => Steady(Rest)
    /\ In("activate") => Top.t \in Members(timer_list)
    /\ ChoiceOpen
    /\ OutsideLists

\* A step of the record timer is a step of TimerLifecycle, or none.
Lives == Lifecycle!Next \/ UNCHANGED <<PhaseOf, recordings>>

Phase(here, state) ==
    IF ~here THEN "absent"
    ELSE IF state = StateWaiting THEN "waiting"
    ELSE IF state = StatePrepared THEN "prepared"
    ELSE IF state = StateRunning THEN "running"
    ELSE "ended"

LEMMA Phases ==
    /\ PhaseOf = [u \in Timers |-> Phase(u \in Alive, entry[u].state)]
    /\ PhaseOf' = [u \in Timers |-> Phase(u \in Alive', entry'[u].state)]
  BY DEF PhaseOf, Phase, Alive

SameStage(u) ==
    /\ u \in Alive' <=> u \in Alive
    /\ u \in Alive => entry'[u].state = entry[u].state

LEMMA LifeStays ==
    ASSUME UNCHANGED recordings, \A u \in Timers : SameStage(u)
    PROVE  Lives
  <1>1. \A u \in Timers : Phase(u \in Alive', entry'[u].state)
                            = Phase(u \in Alive, entry[u].state)
    BY DEF SameStage, Phase
  <1>2. PhaseOf' = PhaseOf
    BY <1>1, Phases
  <1> QED BY <1>2 DEF Lives

LEMMA LifeMoves ==
    ASSUME NEW t \in Timers, \A u \in Timers \ {t} : SameStage(u)
    PROVE  /\ PhaseOf' = [PhaseOf EXCEPT
                            ![t] = Phase(t \in Alive', entry'[t].state)]
           /\ PhaseOf[t] = Phase(t \in Alive, entry[t].state)
  <1>1. \A u \in Timers \ {t} : Phase(u \in Alive', entry'[u].state)
                                  = Phase(u \in Alive, entry[u].state)
    BY DEF SameStage, Phase
  <1> HIDE DEF Phase
  <1> QED BY <1>1, Phases

LEMMA PhaseNames ==
    /\ Phase(TRUE, StateWaiting) = "waiting"
    /\ Phase(TRUE, StatePrepared) = "prepared"
    /\ Phase(TRUE, StateRunning) = "running"
    /\ Phase(TRUE, StateEnded) = "ended"
  BY StatesDiffer DEF Phase

LEMMA OneServiceChanges ==
    ASSUME recordings \in [Timers -> Int], recordings' \in [Timers -> Int],
           NEW t \in Timers, OthersKept(t)
    PROVE  /\ recordings' = [recordings EXCEPT ![t] = recordings'[t]]
           /\ recordings'[t] = recordings[t] => UNCHANGED recordings
  BY DEF OthersKept

\* t goes from one stage to the next.
LEMMA LifeGoesOn ==
    ASSUME Typed, NEW t \in Timers, \A u \in Timers \ {t} : SameStage(u),
           OthersKept(t), t \in Alive',
           \/ /\ t \in Alive /\ entry'[t].state = entry[t].state
              /\ recordings'[t] = recordings[t]
           \/ /\ t \notin Alive
              /\ entry'[t].state \in {StateWaiting, StateEnded}
              /\ recordings'[t] = recordings[t]
           \/ /\ t \in Alive /\ recordings'[t] = recordings[t]
              /\ <<entry[t].state, entry'[t].state>> \in
                   {<<StateWaiting, StateEnded>>, <<StateEnded, StateWaiting>>,
                    <<StatePrepared, StateRunning>>}
           \/ /\ t \in Alive /\ recordings'[t] \in {0, 1}
              /\ entry[t].state = StateWaiting
              /\ entry'[t].state = StatePrepared
           \/ /\ t \in Alive /\ recordings'[t] = 0
              /\ entry[t].state = StateRunning
              /\ entry'[t].state \in {StateWaiting, StateEnded}
    PROVE  Lives
  <1> DEFINE s == entry[t].state
             z == entry'[t].state
  <1>1. /\ recordings' = [recordings EXCEPT ![t] = recordings'[t]]
        /\ recordings'[t] = recordings[t] => UNCHANGED recordings
    BY OneServiceChanges DEF Typed, TypeOK
  <1>2. PhaseOf' = [PhaseOf EXCEPT ![t] = Phase(TRUE, z)]
    BY LifeMoves
  <1>3. PhaseOf[t] = Phase(t \in Alive, s)
    BY LifeMoves
  <1>4. CASE t \in Alive /\ z = s /\ recordings'[t] = recordings[t]
    <2>1. \A u \in Timers : SameStage(u)
      BY <1>4 DEF SameStage
    <2> QED BY <1>1, <1>4, <2>1, LifeStays
  <1>5. CASE /\ t \notin Alive /\ z \in {StateWaiting, StateEnded}
             /\ recordings'[t] = recordings[t]
    <2>1. PhaseOf[t] = "absent"
      BY <1>3, <1>5 DEF Phase
    <2>2. Phase(TRUE, z) \in {"waiting", "ended"}
      BY <1>5, PhaseNames
    <2>3. Lifecycle!Add(t)
      BY <1>1, <1>2, <1>5, <2>1, <2>2 DEF Lifecycle!Add, Lifecycle!Move
    <2> QED BY <2>3 DEF Lives, Lifecycle!Next
  <1>6. CASE /\ t \in Alive /\ recordings'[t] = recordings[t]
             /\ s = StateWaiting /\ z = StateEnded
    <2>1. PhaseOf[t] = "waiting" /\ Phase(TRUE, z) = "ended"
      BY <1>3, <1>6, PhaseNames
    <2>2. Lifecycle!Expire(t)
      BY <1>1, <1>2, <1>6, <2>1 DEF Lifecycle!Expire, Lifecycle!Move
    <2> QED BY <2>2 DEF Lives, Lifecycle!Next
  <1>7. CASE /\ t \in Alive /\ recordings'[t] = recordings[t]
             /\ s = StateEnded /\ z = StateWaiting
    <2>1. PhaseOf[t] = "ended" /\ Phase(TRUE, z) = "waiting"
      BY <1>3, <1>7, PhaseNames
    <2>2. Lifecycle!Revive(t)
      BY <1>1, <1>2, <1>7, <2>1 DEF Lifecycle!Revive, Lifecycle!Move
    <2> QED BY <2>2 DEF Lives, Lifecycle!Next
  <1>8. CASE /\ t \in Alive /\ recordings'[t] = recordings[t]
             /\ s = StatePrepared /\ z = StateRunning
    <2>1. PhaseOf[t] = "prepared" /\ Phase(TRUE, z) = "running"
      BY <1>3, <1>8, PhaseNames
    <2>2. Lifecycle!Begin(t)
      BY <1>1, <1>2, <1>8, <2>1 DEF Lifecycle!Begin, Lifecycle!Move
    <2> QED BY <2>2 DEF Lives, Lifecycle!Next
  <1>9. CASE /\ t \in Alive /\ recordings'[t] \in {0, 1}
             /\ s = StateWaiting /\ z = StatePrepared
    <2>1. PhaseOf[t] = "waiting" /\ Phase(TRUE, z) = "prepared"
      BY <1>3, <1>9, PhaseNames
    <2>2. Lifecycle!Prepare(t)
      BY <1>1, <1>2, <1>9, <2>1 DEF Lifecycle!Prepare, Lifecycle!Move
    <2> QED BY <2>2 DEF Lives, Lifecycle!Next
  <1>10. CASE /\ t \in Alive /\ recordings'[t] = 0
              /\ s = StateRunning /\ z \in {StateWaiting, StateEnded}
    <2>1. PhaseOf[t] = "running" /\ Phase(TRUE, z) \in {"ended", "waiting"}
      BY <1>3, <1>10, PhaseNames
    <2>2. Lifecycle!Finish(t)
      BY <1>1, <1>2, <1>10, <2>1 DEF Lifecycle!Finish, Lifecycle!Move
    <2> QED BY <2>2 DEF Lives, Lifecycle!Next
  <1>11. <<s, z>> \in {<<StateWaiting, StateEnded>>,
                       <<StateEnded, StateWaiting>>,
                       <<StatePrepared, StateRunning>>}
           => \/ s = StateWaiting /\ z = StateEnded
              \/ s = StateEnded /\ z = StateWaiting
              \/ s = StatePrepared /\ z = StateRunning
    OBVIOUS
  <1> QED BY <1>4, <1>5, <1>6, <1>7, <1>8, <1>9, <1>10, <1>11

\* The timers in S have ended and are known no longer.
LEMMA LifeForgets ==
    ASSUME UNCHANGED recordings, NEW S, S \subseteq Alive,
           \A u \in S \cap Timers : entry[u].state = StateEnded,
           Alive' = Alive \ S,
           \A u \in Timers \ S : u \in Alive => entry'[u].state = entry[u].state
    PROVE  Lives
  <1> DEFINE F == S \cap Timers
  <1>1. \A u \in F : PhaseOf[u] = "ended"
    <2> SUFFICES ASSUME NEW u \in F PROVE PhaseOf[u] = "ended"
      OBVIOUS
    <2>1. PhaseOf[u] = Phase(TRUE, StateEnded)
      BY Phases
    <2> QED BY <2>1, PhaseNames
  <1>2. \A u \in Timers : PhaseOf'[u] = IF u \in F THEN "absent" ELSE PhaseOf[u]
    <2> SUFFICES ASSUME NEW u \in Timers
                 PROVE  PhaseOf'[u] = IF u \in F THEN "absent" ELSE PhaseOf[u]
      OBVIOUS
    <2>1. /\ PhaseOf[u] = Phase(u \in Alive, entry[u].state)
          /\ PhaseOf'[u] = Phase(u \in Alive', entry'[u].state)
      BY Phases
    <2> QED BY <2>1 DEF Phase
  <1>3. PhaseOf' = [u \in Timers |-> IF u \in F THEN "absent" ELSE PhaseOf[u]]
    BY <1>2, Phases
  <1>4. Lifecycle!Forget(F)
    BY <1>1, <1>3 DEF Lifecycle!Forget
  <1>5. F \in SUBSET Timers
    OBVIOUS
  <1> QED BY <1>4, <1>5 DEF Lives, Lifecycle!Next

-----------------------------------------------------------------------------
(***************************************************************************)
(* The call stack, and timers that go on.                                  *)
(***************************************************************************)

LEMMA SteadyEmpty == Steady(<<>>)
  BY MembersEmpty DEF Steady

LEMMA SteadyPush ==
    ASSUME NEW f \in Frames, f.op \notin {"rearm", "activate"},
           NEW stack \in Seq(Frames), Steady(stack)
    PROVE  Steady(<<f>> \o stack) /\ <<f>> \o stack \in Seq(Frames)
  <1>1. Members(<<f>> \o stack) = {f} \cup Members(stack)
    BY MembersPush
  <1>2. <<f>> \o stack \in Seq(Frames)
    BY PushType
  <1> QED BY <1>1, <1>2 DEF Steady

LEMMA SteadyResumes ==
    ASSUME NEW k \in Seq(Frames), Steady(k), Resumes(k)
    PROVE  Steady(todo')
  <1>1. Calc \in Frames /\ Calc.op \notin {"rearm", "activate"}
    BY FrameType DEF Calc, Frame
  <1> QED BY <1>1, SteadyPush DEF Resumes

\* Under a call of a steady kind nothing is re-evaluated.
LEMMA SteadyTodo ==
    ASSUME TypeOK, StageInv, todo = <<>> \/ Top.op \notin {"rearm", "activate"}
    PROVE  Steady(todo) /\ Pending = {}
  <1>1. CASE todo = <<>>
    BY <1>1, SteadyEmpty DEF Pending, In
  <1>2. CASE todo # <<>>
    <2>1. Members(todo) = {Top} \cup Members(Rest)
      BY <1>2, MembersTail DEF TypeOK, Top, Rest
    <2> QED BY <1>2, <2>1 DEF StageInv, Steady, Pending, In
  <1> QED BY <1>1, <1>2

LEMMA SteadyRest ==
    ASSUME TypeOK, StageInv, todo # <<>>
    PROVE  Steady(Rest) /\ Rest \in Seq(Frames)
  BY MembersTail DEF TypeOK, StageInv, Rest

LEMMA SteadyNext ==
    ASSUME TypeOK', Steady(todo')
    PROVE  /\ Pending' = {} /\ ~In("activate")'
           /\ (todo' # <<>> => Steady(Tail(todo')))
  <1>1. todo' \in Seq(Frames)
    BY DEF TypeOK
  <1>2. CASE todo' = <<>>
    BY <1>2 DEF Pending, In
  <1>3. CASE todo' # <<>>
    <2>1. Members(todo') = {Head(todo')} \cup Members(Tail(todo'))
      BY <1>1, <1>3, MembersTail
    <2>2. Head(todo').op \notin {"rearm", "activate"} /\ Steady(Tail(todo'))
      BY <2>1 DEF Steady
    <2> QED BY <2>2 DEF Pending, In, Top
  <1> QED BY <1>2, <1>3

\* What is left to show of StageInv after most steps.
LEMMA StageFromSteady ==
    ASSUME TypeOK', Steady(todo'), ChoiceOpen',
           \A u \in Timers \ Known' :
             entry'[u].state \in {StateWaiting, StateEnded}
    PROVE  StageInv'
  <1>1. /\ Pending' = {} /\ ~In("activate")'
        /\ (todo' # <<>> => Steady(Tail(todo')))
    BY SteadyNext
  <1>2. OutsideLists'
    BY <1>1 DEF OutsideLists, Alive
  <1> QED BY <1>1, <1>2 DEF StageInv, Rest, Steady

LEMMA AliveWhenSteady ==
    ASSUME TypeOK', Steady(todo'), Pending = {}
    PROVE  Alive = Known /\ Alive' = Known'
  BY SteadyNext DEF Alive

LEMMA RepeatedGoesOn ==
    ASSUME NEW e \in Entries, e.repeated # {}, now \in Int,
           NEW x \in ProcessRepeated(e, now, TRUE)
    PROVE  /\ x.end > now /\ x.repeated = e.repeated
           /\ x.disabled = e.disabled /\ x.state = e.state
  <1>1. PICK k \in 0..MaxDays :
          /\ OccursOn(e, now, TRUE, k)
          /\ x = TimeChanged(
                   [e EXCEPT !.begin = e.begin + Days(k),
                             !.end = IF e.begin + Days(k) = e.end + Days(k)
                                     THEN e.end + Days(k) + 1
                                     ELSE e.end + Days(k)])
    BY DEF ProcessRepeated
  <1>2. e.end + Days(k) \in Int /\ e.end + Days(k) > now
    <2>1. Days(k) \in Int
      BY DaysType, EntryAssumption
    <2>2. e.end \in Int
      BY DEF Entries
    <2> QED BY <1>1, <2>1, <2>2 DEF OccursOn
  <1> DEFINE end == IF e.begin + Days(k) = e.end + Days(k)
                    THEN e.end + Days(k) + 1 ELSE e.end + Days(k)
             begin == e.begin + Days(k)
  <1>3. end > now
    BY <1>2
  <1>4. x = TimeChanged([e EXCEPT !.begin = begin, !.end = end])
    BY <1>1
  <1> HIDE DEF end, begin
  <1> QED BY <1>3, <1>4 DEF TimeChanged, Entries

LEMMA AddTimerEntryGoes ==
    ASSUME entry \in [Timers -> Entries], NEW t \in Timers, NEW e \in Entries,
           now \in Int, e.repeated # {}, ~e.disabled, e.state # StateEnded,
           NEW k, NEW noRecalc, NEW active \in Seq(Timers), NEW processed,
           AddTimerEntry(t, e, active, processed, k, noRecalc)
    PROVE  Goes(t)'
  <1>1. PICK x \in ProcessRepeated(e, now, TRUE) :
          IF AlreadyPassed(x)
          THEN Retire(t, x, processed, k) /\ timer_list' = active
          ELSE /\ Enqueue(t, x, active, Recalc(k, noRecalc))
               /\ processed_timers' = processed
    BY DEF AddTimerEntry
  <1>2. /\ x \in Entries /\ x.end > now /\ x.repeated = e.repeated
        /\ x.disabled = e.disabled /\ x.state = e.state
    BY ProcessRepeatedType, RepeatedGoesOn
  <1>3. ~AlreadyPassed(x)
    <2>1. x.end \in Int
      BY <1>2 DEF Entries
    <2> QED BY <1>2, <2>1 DEF AlreadyPassed, ShouldSkip
  <1>4. Enqueue(t, x, active, Recalc(k, noRecalc))
    BY <1>1, <1>3
  <1>5. x.state # StateEnded
    BY <1>2
  <1>6. Placed(t, x) /\ entry'[t] = x
    BY <1>2, <1>4, <1>5, EnqueuePlaces DEF Enqueue
  <1>7. t \in Members(timer_list')
    BY <1>5, <1>6 DEF Placed
  <1> QED BY <1>2, <1>6, <1>7 DEF Goes

LEMMA RequeueGoes ==
    ASSUME ListTypes, ListsConsistent, now \in Int, NEW t \in Timers,
           NEW e \in Entries, e.repeated # {}, ~e.disabled, NEW k,
           Requeue(t, e, k)
    PROVE  Goes(t)'
  <1> DEFINE active == RemoveTimer(timer_list, t)
  <1>1. active \in Seq(Timers) /\ entry \in [Timers -> Entries]
    BY RemoveTimerType DEF ListTypes
  <1>2. \/ e.state # StateEnded /\ Enqueue(t, e, active, k)
        \/ \E x \in ProcessRepeated(e, now, TRUE) :
             AddTimerEntry(t, [x EXCEPT !.state = StateWaiting], active,
                           processed_timers, k, FALSE)
    BY FourStates DEF Requeue
  <1> HIDE DEF active
  <1>3. ASSUME e.state # StateEnded, Enqueue(t, e, active, k)
        PROVE  Goes(t)'
    <2>1. Placed(t, e) /\ entry'[t] = e
      BY <1>1, <1>3, EnqueuePlaces DEF Enqueue
    <2>2. t \in Members(timer_list')
      BY <1>3, <2>1 DEF Placed
    <2> QED BY <2>1, <2>2 DEF Goes
  <1>4. ASSUME NEW x \in ProcessRepeated(e, now, TRUE),
               AddTimerEntry(t, [x EXCEPT !.state = StateWaiting], active,
                             processed_timers, k, FALSE)
        PROVE  Goes(t)'
    <2> DEFINE y == [x EXCEPT !.state = StateWaiting]
    <2>1. /\ x \in Entries /\ x.repeated = e.repeated
          /\ x.disabled = e.disabled
      BY ProcessRepeatedType, RepeatedGoesOn
    <2>2. /\ y \in Entries /\ y.state = StateWaiting
      BY <2>1, ToState, StateRange
    <2>3. y.repeated = e.repeated /\ y.disabled = e.disabled
      <3> HIDE DEF y
      <3>1. \A z \in Entries : [z EXCEPT !.state = StateWaiting].repeated
                                 = z.repeated
        BY DEF Entries
      <3>2. \A z \in Entries : [z EXCEPT !.state = StateWaiting].disabled
                                 = z.disabled
        BY DEF Entries
      <3> QED BY <2>1, <3>1, <3>2 DEF y
    <2> HIDE DEF y
    <2>4. AddTimerEntry(t, y, active, processed_timers, k, FALSE)
      BY <1>4 DEF y
    <2> QED BY <1>1, <2>2, <2>3, <2>4, StatesDiffer, AddTimerEntryGoes
  <1> QED BY <1>2, <1>3, <1>4

LEMMA TimerTimeChangedGoes ==
    ASSUME ListTypes, now \in Int, NEW t \in Timers, NEW e \in Entries,
           e.repeated # {}, ~e.disabled, e.state # StateEnded, NEW k,
           TimerTimeChanged(t, e, k)
    PROVE  Goes(t)'
  <1> DEFINE x == TimeChanged(e)
             active == RemoveTimer(timer_list, t)
  <1>1. active \in Seq(Timers) /\ entry \in [Timers -> Entries]
    BY RemoveTimerType DEF ListTypes
  <1>2. AddTimerEntry(t, x, active, processed_timers, k, FALSE)
    BY DEF TimerTimeChanged
  <1>3. x \in Entries
    BY TimeChangedType
  <1>4. /\ x.repeated = e.repeated /\ x.disabled = e.disabled
        /\ x.state = e.state
    BY DEF TimeChanged, Entries
  <1> HIDE DEF x, active
  <1> QED BY <1>1, <1>2, <1>3, <1>4, AddTimerEntryGoes

-----------------------------------------------------------------------------
(***************************************************************************)
(* What the helpers do is a step of TimerLifecycle.                        *)
(***************************************************************************)

\* What is in no list has ended or was never prepared.
IdleOutside ==
    \A u \in Timers \ Known : entry[u].state \in {StateWaiting, StateEnded}

LEMMA IdleWhenSteady ==
    ASSUME StageInv, Pending = {}
    PROVE  IdleOutside
  BY DEF StageInv, OutsideLists, Alive, IdleOutside

LEMMA PlacedStages ==
    ASSUME NEW t, NEW e, Placed(t, e)
    PROVE  \/ entry'[t].state = e.state
           \/ /\ entry'[t].state = StateEnded
              /\ e.state \in {StateWaiting, StateEnded}
  BY DEF Placed, SameService

\* t is put back into a list, or into one for the first time.
LEMMA PlacingLives ==
    ASSUME Typed, NEW t \in Timers, NEW e, Placed(t, e),
           Known' = Known \cup {t}, Pending = {}, Steady(todo'),
           OthersKept(t), StageInv,
           \/ /\ t \in Known /\ recordings'[t] = recordings[t]
              /\ \/ e.state = entry[t].state
                 \/ <<entry[t].state, e.state>> \in
                      {<<StateWaiting, StateEnded>>,
                       <<StateEnded, StateWaiting>>,
                       <<StatePrepared, StateRunning>>}
           \/ /\ t \notin Known /\ e.state \in {StateWaiting, StateEnded}
              /\ recordings'[t] = recordings[t]
           \/ /\ t \in Known /\ recordings'[t] \in {0, 1}
              /\ entry[t].state = StateWaiting /\ e.state = StatePrepared
           \/ /\ t \in Known /\ recordings'[t] = 0
              /\ entry[t].state = StateRunning
              /\ e.state \in {StateWaiting, StateEnded}
    PROVE  Lives /\ IdleOutside'
  <1>1. Alive = Known /\ Alive' = Known \cup {t}
    BY AliveWhenSteady DEF Typed
  <1>2. \A u \in Timers \ {t} : SameStage(u) /\ entry'[u] = entry[u]
    BY <1>1 DEF Placed, SameStage
  <1>3. IdleOutside'
    BY <1>2, IdleWhenSteady DEF IdleOutside
  <1>4. \/ entry'[t].state = e.state
        \/ /\ entry'[t].state = StateEnded
           /\ e.state \in {StateWaiting, StateEnded}
    BY PlacedStages
  <1> DEFINE s == entry[t].state
             z == entry'[t].state
             Stays == t \in Alive /\ z = s /\ recordings'[t] = recordings[t]
             Comes == /\ t \notin Alive /\ z \in {StateWaiting, StateEnded}
                      /\ recordings'[t] = recordings[t]
             Moves == /\ t \in Alive /\ recordings'[t] = recordings[t]
                      /\ <<s, z>> \in {<<StateWaiting, StateEnded>>,
                                       <<StateEnded, StateWaiting>>,
                                       <<StatePrepared, StateRunning>>}
             Takes == /\ t \in Alive /\ recordings'[t] \in {0, 1}
                      /\ s = StateWaiting /\ z = StatePrepared
             Gives == /\ t \in Alive /\ recordings'[t] = 0
                      /\ s = StateRunning /\ z \in {StateWaiting, StateEnded}
  <1>5. Stays \/ Comes \/ Moves \/ Takes \/ Gives
    <2>1. CASE /\ t \in Known /\ recordings'[t] = recordings[t]
               /\ e.state = s
      BY <1>1, <1>4, <2>1
    <2>2. CASE /\ t \in Known /\ recordings'[t] = recordings[t]
               /\ <<s, e.state>> \in {<<StateWaiting, StateEnded>>,
                                      <<StateEnded, StateWaiting>>,
                                      <<StatePrepared, StateRunning>>}
      <3>1. \/ s = StateWaiting /\ e.state = StateEnded
            \/ s = StateEnded /\ e.state = StateWaiting
            \/ s = StatePrepared /\ e.state = StateRunning
        BY <2>2
      <3> QED BY <1>1, <1>4, <2>2, <3>1, StatesDiffer
    <2>3. CASE /\ t \notin Known /\ e.state \in {StateWaiting, StateEnded}
               /\ recordings'[t] = recordings[t]
      BY <1>1, <1>4, <2>3
    <2>4. CASE /\ t \in Known /\ recordings'[t] \in {0, 1}
               /\ s = StateWaiting /\ e.state = StatePrepared
      BY <1>1, <1>4, <2>4, StatesDiffer
    <2>5. CASE /\ t \in Known /\ recordings'[t] = 0
               /\ s = StateRunning /\ e.state \in {StateWaiting, StateEnded}
      BY <1>1, <1>4, <2>5
    <2> QED BY <2>1, <2>2, <2>3, <2>4, <2>5
  <1>6. t \in Alive'
    BY <1>1
  <1>7. Lives
    BY <1>2, <1>5, <1>6, LifeGoesOn
  <1> QED BY <1>3, <1>7

LEMMA TimeChangeLives ==
    ASSUME Ready, StageInv, NEW t \in Timers, NEW e \in Entries,
           SameService(e, entry[t]), NEW k \in Seq(Frames),
           TimerTimeChanged(t, e, k), UNCHANGED recordings,
           Pending = {}, Steady(k)
    PROVE  Lives /\ Steady(todo') /\ IdleOutside'
  <1>1. /\ Typed /\ TypeOK /\ ListTypes /\ ListsConsistent
        /\ entry[t] \in Entries /\ e.state = entry[t].state
    BY ReadyParts, TypeParts DEF Ready, SameService
  <1>2. Placed(t, Restored(e)) /\ Known' = Known \cup {t} /\ Resumes(k)
    BY <1>1, TimerTimeChangedPlaces, TimerTimeChangedLists
  <1>3. Steady(todo')
    BY <1>2, SteadyResumes
  <1>4. OthersKept(t) /\ recordings'[t] = recordings[t]
    BY DEF OthersKept
  <1>5. Restored(e).state = IF e.state = StateEnded THEN StateWaiting
                            ELSE e.state
    BY RestoredEntry
  <1>6. t \notin Known => entry[t].state \in {StateWaiting, StateEnded}
    BY IdleWhenSteady DEF IdleOutside
  <1> DEFINE x == Restored(e)
  <1>7. \/ /\ t \in Known
           /\ \/ x.state = entry[t].state
              \/ <<entry[t].state, x.state>> = <<StateEnded, StateWaiting>>
        \/ t \notin Known /\ x.state \in {StateWaiting, StateEnded}
    BY <1>1, <1>5, <1>6
  <1> HIDE DEF x
  <1>8. Lives /\ IdleOutside'
    BY <1>1, <1>2, <1>3, <1>4, <1>7, PlacingLives DEF x
  <1> QED BY <1>3, <1>8

LEMMA ActivationLives ==
    ASSUME Ready, StageInv, NEW t \in Timers, t \in Known,
           NEW k \in Seq(Frames), DoActivate(t, k), Pending = {}, Steady(k)
    PROVE  Lives /\ Steady(todo') /\ IdleOutside'
  <1>1. /\ Typed /\ TypeOK /\ ListTypes /\ ListsConsistent /\ Served
        /\ entry[t] \in Entries
    BY ReadyParts, TypeParts DEF Ready
  <1>2. PICK e \in Entries : Activated(t, e, k)
    BY <1>1, ActivationStages
  <1>3. /\ Requeue(t, e, k) /\ OthersKept(t)
        /\ Stage(entry[t].state, e.state) /\ e.justplay = entry[t].justplay
        /\ Serves(e, recordings'[t])
    BY <1>2 DEF Activated
  <1>4. entry[t].state # StateEnded
    BY <1>1, ActivationRequeues
  <1>5. Known' = Known \cup {t} /\ Resumes(k)
    BY <1>1, <1>3, <1>4, RequeueLists
  <1>6. Steady(todo')
    BY <1>5, SteadyResumes
  <1>7. PICK x : /\ Placed(t, x)
                 /\ \/ x.state = e.state
                    \/ e.state = StateEnded /\ x.state = StateWaiting
    <2>1. [e EXCEPT !.state = StateWaiting].state = StateWaiting
      BY ToState, StateRange
    <2> QED BY <1>1, <1>3, <2>1, RequeuePlaces
  <1>8. Serves(entry[t], recordings[t])
    BY <1>1 DEF Served
  <1> DEFINE s == entry[t].state
  <1>9. s \in {StateWaiting, StatePrepared, StateRunning}
    BY <1>1, <1>4, FourStates
  <1>10. \/ /\ recordings'[t] = recordings[t]
            /\ \/ x.state = s
               \/ <<s, x.state>> \in
                      {<<StateWaiting, StateEnded>>,
                       <<StateEnded, StateWaiting>>,
                       <<StatePrepared, StateRunning>>}
         \/ /\ recordings'[t] \in {0, 1}
            /\ s = StateWaiting /\ x.state = StatePrepared
         \/ /\ recordings'[t] = 0
            /\ s = StateRunning /\ x.state \in {StateWaiting, StateEnded}
    <2>1. CASE s = StateWaiting
      <3>1. e.state \in {StateWaiting, StatePrepared, StateEnded}
        BY <1>3, <2>1, StatesDiffer DEF Stage
      <3>2. e.state # StatePrepared => recordings'[t] = 0
        BY <1>3, <3>1, StatesDiffer DEF Serves
      <3>3. recordings[t] = 0 /\ recordings'[t] \in {0, 1}
        BY <1>3, <1>8, <2>1, StatesDiffer DEF Serves
      <3> QED BY <1>7, <2>1, <3>1, <3>2, <3>3, StatesDiffer
    <2>2. CASE s = StatePrepared
      <3>1. e.state \in {StatePrepared, StateRunning}
        BY <1>3, <2>2, StatesDiffer DEF Stage
      <3>2. recordings'[t] = recordings[t]
        BY <1>3, <1>8, <2>2, <3>1, StatesDiffer DEF Serves
      <3> QED BY <1>7, <2>2, <3>1, <3>2, StatesDiffer
    <2>3. CASE s = StateRunning
      <3>1. e.state \in {StateRunning, StateEnded}
        BY <1>3, <2>3, StatesDiffer DEF Stage
      <3>2. CASE e.state = StateRunning
        <4>1. recordings'[t] = recordings[t]
          BY <1>3, <1>8, <2>3, <3>2, StatesDiffer DEF Serves
        <4> QED BY <1>7, <2>3, <3>2, <4>1, StatesDiffer
      <3>3. CASE e.state = StateEnded
        <4>1. recordings'[t] = 0
          BY <1>3, <3>3, StatesDiffer DEF Serves
        <4> QED BY <1>7, <2>3, <3>3, <4>1
      <3> QED BY <3>1, <3>2, <3>3
    <2> QED BY <1>9, <2>1, <2>2, <2>3
  <1> HIDE DEF s
  <1>11. Lives /\ IdleOutside'
    BY <1>1, <1>3, <1>5, <1>6, <1>7, <1>10, PlacingLives DEF s
  <1> QED BY <1>6, <1>11

\* No list changes, nor the stage of a timer in one.
LEMMA QuietLives ==
    ASSUME Typed, StageInv, Pending = {}, Steady(todo'),
           UNCHANGED <<timer_list, processed_timers, recordings>>,
           \A u \in Timers : \/ entry'[u].state = entry[u].state
                             \/ /\ u \notin Known
                                /\ entry'[u].state \in {StateWaiting, StateEnded}
    PROVE  Lives /\ IdleOutside'
  <1>1. Alive = Known /\ Alive' = Known'
    BY AliveWhenSteady DEF Typed
  <1>2. Known' = Known
    BY DEF Known
  <1>3. \A u \in Timers : SameStage(u)
    BY <1>1, <1>2 DEF SameStage
  <1>4. IdleOutside'
    BY <1>2, IdleWhenSteady DEF IdleOutside
  <1> QED BY <1>3, <1>4, LifeStays

\* A timer is chosen while it goes on, and goes on until the choice is made.
LEMMA GoesAfterActivation ==
    ASSUME TypeOK, ListsConsistent, NEW t \in Timers, NEW k, DoActivate(t, k),
           NEW u \in Timers, Goes(u)
    PROVE  Goes(u)'
  <1>1. PICK e \in Entries : Requeue(t, e, k) /\ SameDays(e, entry[t])
    BY ActivationRequeues
  <1>2. ListTypes /\ now \in Int
    BY TypeParts DEF TypeOK
  <1>3. CASE u = t
    <2>1. e.repeated # {} /\ ~e.disabled
      BY <1>1, <1>3 DEF Goes, SameDays
    <2> QED BY <1>1, <1>2, <1>3, <2>1, RequeueGoes
  <1>4. CASE u # t
    <2>1. /\ \E x : Placed(t, x)
          /\ Members(timer_list) \ {t} \subseteq Members(timer_list')
      BY <1>1, <1>2, RequeuePlaces
    <2>2. entry'[u] = entry[u] /\ u \in Members(timer_list')
      BY <1>4, <2>1 DEF Placed, Goes
    <2> QED BY <2>2 DEF Goes
  <1> QED BY <1>3, <1>4

-----------------------------------------------------------------------------
(***************************************************************************)
(* Every handler is a step of TimerLifecycle.                              *)
(***************************************************************************)

LEMMA SteadyConcat ==
    ASSUME NEW s \in Seq(Frames), NEW u \in Seq(Frames), Steady(s), Steady(u)
    PROVE  Steady(s \o u) /\ s \o u \in Seq(Frames)
  BY ConcatenationMembers DEF Steady

LEMMA SteadySave == Steady(Save) /\ Save \in Seq(Frames)
  BY FrameType DEF Members, Save, Frame, Steady

LEMMA SteadyOne ==
    ASSUME NEW f \in Frames, f.op \notin {"rearm", "activate"}
    PROVE  Steady(<<f>>) /\ <<f>> \in Seq(Frames)
  BY SingletonType, SingletonMembers DEF Steady

LEMMA BootFrameType == BootFrame \in Frames /\ BootFrame.op = "boot"
  BY FrameType DEF BootFrame, Frame

LEMMA NoChoice ==
    ASSUME dialog'.kind # "choice"
    PROVE  ChoiceOpen'
  BY DEF ChoiceOpen

\* No other call runs while a choice is open.
LEMMA NotTimely ==
    ASSUME TypeOK, StageInv, todo # <<>>, Top.op \notin Timely
    PROVE  dialog.kind # "choice"
  <1>1. todo \in Seq(Frames)
    BY DEF TypeOK
  <1>2. Members(todo) = {Head(todo)} \cup Members(Tail(todo))
    BY <1>1, MembersTail
  <1>3. Top \in Members(todo)
    BY <1>2 DEF Top
  <1> QED BY <1>3 DEF StageInv, ChoiceOpen

LEMMA ChoiceStays ==
    ASSUME StageInv, UNCHANGED dialog,
           dialog.kind = "choice" => Goes(dialog.t)',
           \A f \in Members(todo') : f \in Members(todo) \/ f.op \in Timely
    PROVE  ChoiceOpen'
  BY DEF StageInv, ChoiceOpen

LEMMA GoesStays ==
    ASSUME UNCHANGED <<entry, timer_list, dialog>>, Goes(dialog.t)
    PROVE  Goes(dialog.t)'
  BY DEF Goes

LEMMA RestMembers ==
    ASSUME TypeOK, todo # <<>>
    PROVE  Members(todo) = {Top} \cup Members(Rest)
  BY MembersTail DEF TypeOK, Top, Rest

\* A call takes the place of the one on top.
LEMMA ReplacedMembers ==
    ASSUME TypeOK, todo # <<>>, NEW f \in Frames, todo' = <<f>> \o Rest
    PROVE  /\ Members(todo') = {f} \cup Members(Rest)
           /\ Head(todo') = f /\ Tail(todo') = Rest /\ todo' # <<>>
  <1>1. Rest \in Seq(Frames)
    BY TopType DEF TypeOK
  <1> QED BY <1>1, MembersPush

LEMMA ResumedMembers ==
    ASSUME NEW k \in Seq(Frames), Resumes(k)
    PROVE  \A f \in Members(todo') : f \in Members(k) \/ f.op = "calc"
  <1>1. Calc \in Frames /\ Calc.op = "calc"
    BY FrameType DEF Calc, Frame
  <1>2. Members(<<Calc>> \o k) = {Calc} \cup Members(k)
    BY <1>1, MembersPush
  <1> QED BY <1>1, <1>2 DEF Resumes

LEMMA ProcessFrame ==
    ASSUME TypeOK
    PROVE  Process \in Frames /\ Process.op = "process"
  BY FrameType DEF TypeOK, Process, Frame

\* processActivation begins.
LEMMA ProcessStages ==
    ASSUME Ready, StageInv, todo # <<>>, Pending = {},
           todo' = <<Process>> \o Rest, UNCHANGED recordings,
           UNCHANGED <<entry, timer_list, processed_timers, dialog>>
    PROVE  Lives /\ StageInv'
  <1>1. Typed /\ TypeOK /\ TypeOK'
    BY DEF Ready, Typed
  <1>2. Process \in Frames /\ Process.op = "process"
    BY <1>1, ProcessFrame
  <1>3. Steady(todo')
    BY <1>1, <1>2, SteadyRest, SteadyPush
  <1>4. Lives /\ IdleOutside'
    BY <1>1, <1>3, QuietLives
  <1>5. \A f \in Members(todo') : f \in Members(todo) \/ f.op \in Timely
    BY <1>1, <1>2, RestMembers, ReplacedMembers DEF Timely
  <1>6. ChoiceOpen'
    BY <1>5, ChoiceStays, GoesStays DEF StageInv, ChoiceOpen
  <1> QED BY <1>1, <1>3, <1>4, <1>6, StageFromSteady DEF IdleOutside

LEMMA CalcNextActivationStages ==
    ASSUME Ready, StageInv, CalcNextActivation
    PROVE  Lives /\ StageInv'
  <1>1. /\ TypeOK /\ TypeOK' /\ todo # <<>> /\ Top.op = "calc"
        /\ ListsConsistent
        /\ UNCHANGED <<entry, timer_list, recordings, dialog>>
    BY ReadyParts DEF CalcNextActivation, In
  <1>2. Pending = {}
    BY <1>1 DEF Pending, In
  <1>3. CASE lastActivation > now
    <2> DEFINE f == Frame("rearm", NoTimer, 0, processed_timers)
    <2>1. f \in Frames /\ f.op = "rearm" /\ f.rest = processed_timers
      BY <1>1, FrameType DEF TypeOK, Frame
    <2>2. todo' = <<f>> \o Rest /\ processed_timers' = <<>>
      BY <1>3 DEF CalcNextActivation
    <2> HIDE DEF f
    <2>3. /\ Members(todo') = {f} \cup Members(Rest)
          /\ Head(todo') = f /\ Tail(todo') = Rest /\ todo' # <<>>
      BY <1>1, <2>1, <2>2, ReplacedMembers
    <2>4. Pending' = Members(processed_timers)
      BY <2>1, <2>3 DEF Pending, In, Top
    <2>5. Known' = Members(timer_list)
      BY <1>1, <2>2, MembersEmpty DEF Known
    <2>6. Alive' = Alive
      BY <1>2, <2>4, <2>5 DEF Alive, Known
    <2>7. \A u \in Timers : SameStage(u)
      BY <1>1, <2>6 DEF SameStage
    <2>8. Lives
      BY <1>1, <2>7, LifeStays
    <2>9. OutsideLists'
      BY <1>1, <2>4, <2>6 DEF OutsideLists, StageInv, ListsConsistent
    <2>10. ChoiceOpen'
      <3>1. \A g \in Members(todo') : g \in Members(todo) \/ g.op \in Timely
        BY <1>1, <2>1, <2>3, RestMembers DEF Timely
      <3> QED BY <1>1, <3>1, ChoiceStays, GoesStays DEF StageInv, ChoiceOpen
    <2>11. (todo' # <<>> => Steady(Tail(todo'))) /\ ~In("activate")'
      BY <1>1, <2>1, <2>3 DEF StageInv, In, Top
    <2> QED BY <2>8, <2>9, <2>10, <2>11 DEF StageInv, Rest, Steady
  <1>4. CASE ~(lastActivation > now)
    BY <1>1, <1>2, <1>4, ProcessStages DEF CalcNextActivation
  <1> QED BY <1>3, <1>4

LEMMA ReEvaluateStages ==
    ASSUME Ready, StageInv, ReEvaluate
    PROVE  Lives /\ StageInv'
  <1>1. /\ Typed /\ TypeOK /\ TypeOK' /\ todo # <<>> /\ Top.op = "rearm"
        /\ ListsInv /\ ListsConsistent /\ In("rearm")
        /\ UNCHANGED <<recordings, dialog>>
    BY ReadyParts DEF ReEvaluate, In, Ready
  <1>2. /\ Top.rest \in Seq(Timers)
        /\ \A r \in Seq(Timers) : [Top EXCEPT !.rest = r] \in Frames
    BY <1>1, TopOfKind DEF TypeOK
  <1>3. Pending = Members(Top.rest)
    BY <1>1 DEF Pending
  <1>4. CASE Top.rest = <<>>
    BY <1>1, <1>3, <1>4, MembersEmpty, ProcessStages DEF ReEvaluate
  <1>5. CASE Top.rest # <<>>
    <2> DEFINE x == Head(Top.rest)
               e == ResetState(entry[x])
               f == [Top EXCEPT !.rest = Tail(Top.rest)]
               k == <<f>> \o Rest
    <2>1. /\ x \in Timers /\ Tail(Top.rest) \in Seq(Timers)
          /\ Members(Top.rest) = {x} \cup Members(Tail(Top.rest))
      BY <1>2, <1>5, MembersTail
    <2>2. /\ x \notin Members(Tail(Top.rest))
          /\ Members(Top.rest) \cap Known = {}
      BY <1>1, <1>2, <1>5, NoDuplicatesTail DEF ListsInv
    <2>3. e \in Entries /\ e.state = StateWaiting
      <3>1. entry[x] \in Entries
        BY <1>1, <2>1, TypeParts
      <3>2. e \in Entries
        BY <3>1, ResetStateType
      <3>3. e.state = StateWaiting
        BY <3>1 DEF ResetState, TimeChanged, Entries
      <3> QED BY <3>2, <3>3
    <2>4. AddTimerEntry(x, e, timer_list, processed_timers, k, TRUE)
      BY <1>5 DEF ReEvaluate
    <2>5. f \in Frames /\ f.op = "rearm" /\ f.rest = Tail(Top.rest)
      <3>1. Top \in Frames
        BY <1>1, TopType DEF TypeOK
      <3> QED BY <1>1, <1>2, <2>1, <3>1 DEF Frames
    <2>6. /\ Split(entry, timer_list, processed_timers)
          /\ x \notin Members(timer_list) /\ x \notin Members(processed_timers)
      BY <1>1, <2>1, <2>2, SplitLists DEF Known
    <2> HIDE DEF x, e, f, k
    <2>7. Known' = Known \cup {x} /\ todo' = k
      BY <1>1, <2>1, <2>3, <2>4, <2>6, AddTimerEntryLists DEF TypeOK, Known
    <2>8. Placed(x, e) /\ Members(timer_list) \subseteq Members(timer_list')
      BY <1>1, <2>1, <2>3, <2>4, AddTimerEntryPlaces DEF TypeOK
    <2>9. /\ Members(todo') = {f} \cup Members(Rest)
          /\ Head(todo') = f /\ Tail(todo') = Rest /\ todo' # <<>>
      BY <1>1, <2>5, <2>7, ReplacedMembers DEF k
    <2>10. Pending' = Members(Tail(Top.rest))
      BY <2>5, <2>9 DEF Pending, In, Top
    <2>11. Alive' = Alive /\ x \in Alive'
      BY <1>3, <2>1, <2>7, <2>10 DEF Alive
    <2>12. \A u \in Timers \ {x} : SameStage(u) /\ entry'[u] = entry[u]
      BY <2>8, <2>11 DEF Placed, SameStage
    <2>13. entry[x].state = StateEnded
      BY <1>3, <2>1 DEF StageInv, OutsideLists
    <2>14. entry'[x].state \in {StateWaiting, StateEnded}
      BY <2>3, <2>8, PlacedStages
    <2>15. OthersKept(x) /\ recordings'[x] = recordings[x]
      BY <1>1 DEF OthersKept
    <2>16. Lives
      <3>1. \/ entry'[x].state = entry[x].state
            \/ <<entry[x].state, entry'[x].state>>
                 = <<StateEnded, StateWaiting>>
        BY <2>13, <2>14
      <3> QED BY <1>1, <2>1, <2>11, <2>12, <2>15, <3>1, LifeGoesOn
    <2>17. OutsideLists'
      <3>1. \A u \in Pending' : entry'[u].state = StateEnded
        <4>1. \A u \in Pending' : u \in Pending /\ u \in Timers \ {x}
          BY <1>3, <2>1, <2>2, <2>10, MembersType
        <4> QED BY <2>12, <4>1 DEF StageInv, OutsideLists
      <3>2. \A u \in Timers \ Alive' :
              entry'[u].state \in {StateWaiting, StateEnded}
        BY <2>11, <2>12 DEF StageInv, OutsideLists
      <3> QED BY <3>1, <3>2 DEF OutsideLists
    <2>18. ChoiceOpen'
      <3>1. \A g \in Members(todo') : g \in Members(todo) \/ g.op \in Timely
        BY <1>1, <2>5, <2>9, RestMembers DEF Timely
      <3>2. ASSUME dialog.kind = "choice" PROVE Goes(dialog.t)'
        <4>1. Goes(dialog.t) /\ dialog.t \in Timers
          BY <1>1, <3>2, TypeParts DEF StageInv, ChoiceOpen
        <4>2. dialog.t # x
          BY <2>6, <4>1 DEF Goes
        <4>3. entry'[dialog.t] = entry[dialog.t]
          BY <2>12, <4>1, <4>2
        <4> QED BY <1>1, <2>8, <4>1, <4>3 DEF Goes
      <3> QED BY <1>1, <3>1, <3>2, ChoiceStays
    <2>19. (todo' # <<>> => Steady(Tail(todo'))) /\ ~In("activate")'
      BY <1>1, <2>5, <2>9 DEF StageInv, In, Top
    <2> QED BY <2>16, <2>17, <2>18, <2>19 DEF StageInv, Rest, Steady
  <1> QED BY <1>4, <1>5

LEMMA ProcessActivationStages ==
    ASSUME Ready, StageInv, ProcessActivation
    PROVE  Lives /\ StageInv'
  <1> DEFINE t == Head(timer_list)
  <1>1. /\ TypeOK /\ TypeOK' /\ todo \in Seq(Frames) /\ todo # <<>>
        /\ Top.op = "process" /\ DoActivate(t, todo)
        /\ timer_list # <<>> /\ timer_list \in Seq(Timers)
        /\ ListsConsistent
    BY ReadyParts DEF TypeOK, ProcessActivation, In, HeadDue
  <1>2. t \in Timers /\ t \in Known
    <2>1. /\ Members(timer_list) = {t} \cup Members(Tail(timer_list))
          /\ Members(timer_list) \subseteq Timers
      BY <1>1, MembersTail, MembersType
    <2> QED BY <2>1 DEF Known
  <1> HIDE DEF t
  <1>3. Steady(todo) /\ Pending = {}
    BY <1>1, SteadyTodo
  <1>4. Lives /\ Steady(todo') /\ IdleOutside'
    BY <1>1, <1>2, <1>3, ActivationLives
  <1>5. ChoiceOpen'
    <2>1. UNCHANGED dialog
      BY <1>1 DEF DoActivate
    <2>2. ASSUME dialog.kind = "choice" PROVE Goes(dialog.t)'
      <3>1. Goes(dialog.t) /\ dialog.t \in Timers
        BY <1>1, <2>2, TypeParts DEF StageInv, ChoiceOpen
      <3>2. PICK u \in Timers : u = dialog.t
        BY <3>1
      <3>3. Goes(u)'
        BY <1>1, <1>2, <3>1, <3>2, GoesAfterActivation
      <3> QED BY <2>1, <3>2, <3>3
    <2>3. \A f \in Members(todo') : f \in Members(todo) \/ f.op \in Timely
      <3>1. Resumes(todo)
        <4>1. PICK e \in Entries : Requeue(t, e, todo)
          BY <1>1, <1>2, ActivationRequeues
        <4>2. entry[t].state # StateEnded /\ ListTypes
          BY <1>1, <1>2, ActivationRequeues, TypeParts
        <4> QED BY <1>1, <1>2, <4>1, <4>2, RequeueLists
      <3> QED BY <1>1, <3>1, ResumedMembers DEF Timely
    <2> QED BY <2>1, <2>2, <2>3, ChoiceStays
  <1> QED BY <1>1, <1>4, <1>5, StageFromSteady DEF IdleOutside

LEMMA QuietStages ==
    ASSUME Typed, StageInv, Pending = {}, Steady(todo'), ChoiceOpen',
           UNCHANGED <<timer_list, processed_timers, recordings>>,
           \A u \in Timers : \/ entry'[u].state = entry[u].state
                             \/ /\ u \notin Known
                                /\ entry'[u].state \in {StateWaiting, StateEnded}
    PROVE  Lives /\ StageInv'
  <1>1. Lives /\ IdleOutside'
    BY QuietLives
  <1> QED BY <1>1, StageFromSteady DEF IdleOutside, Typed

\* A call returns, having changed no timer.
LEMMA ReturnStages ==
    ASSUME Ready, StageInv, todo # <<>>, Top.op \notin {"rearm", "activate"},
           todo' = Rest, UNCHANGED dialog,
           UNCHANGED <<entry, timer_list, processed_timers, recordings>>
    PROVE  Lives /\ StageInv'
  <1>1. Typed /\ TypeOK
    BY DEF Ready, Typed
  <1>2. Steady(todo') /\ Pending = {}
    BY <1>1, SteadyTodo, SteadyRest
  <1>3. \A f \in Members(todo') : f \in Members(todo)
    BY <1>1, RestMembers
  <1>4. ChoiceOpen'
    BY <1>3, ChoiceStays, GoesStays DEF StageInv, ChoiceOpen
  <1> QED BY <1>1, <1>2, <1>4, QuietStages

LEMMA SetNextActivationStages ==
    ASSUME Ready, StageInv, SetNextActivation
    PROVE  Lives /\ StageInv'
  BY ReturnStages DEF SetNextActivation, In

LEMMA TruncateStages ==
    ASSUME Ready, StageInv, Truncate
    PROVE  Lives /\ StageInv'
  BY ReturnStages DEF Truncate, In

LEMMA WriteStages ==
    ASSUME Ready, StageInv, Write
    PROVE  Lives /\ StageInv'
  BY ReturnStages DEF Write, In

LEMMA SteadyBoot == Steady(<<BootFrame>>)
  BY BootFrameType, SteadyOne

\* The calls of the main loop are the only ones while a choice is open.
LEMMA ChoiceOverCalls ==
    ASSUME StageInv, UNCHANGED <<entry, timer_list, dialog>>,
           \A f \in Members(todo') : f.op \in Timely
    PROVE  ChoiceOpen'
  BY ChoiceStays, GoesStays DEF StageInv, ChoiceOpen

LEMMA BootIsTimely == \A f \in Members(<<BootFrame>>) : f.op \in Timely
  BY BootFrameType, SingletonMembers DEF Timely

LEMMA FatalStages ==
    ASSUME Ready, StageInv, Fatal
    PROVE  Lives /\ StageInv'
  <1>1. /\ Typed /\ todo' = <<BootFrame>>
        /\ UNCHANGED <<entry, timer_list, processed_timers, recordings, dialog>>
    BY DEF Ready, Fatal
  <1>2. Pending = {}
    BY DEF Fatal, Pending, In
  <1>3. Steady(todo') /\ ChoiceOpen'
    BY <1>1, SteadyBoot, BootIsTimely, ChoiceOverCalls
  <1> QED BY <1>1, <1>2, <1>3, QuietStages

LEMMA BlankWaits == Blank.state = StateWaiting
  BY DEF Blank, NewEntry, ResetState, TimeChanged

LEMMA BootStages ==
    ASSUME Ready, StageInv, Boot
    PROVE  Lives /\ StageInv'
  <1>1. /\ TypeOK' /\ \A t \in Timers : entry'[t] = Blank
        /\ recordings' = [t \in Timers |-> 0]
        /\ timer_list' = <<>> /\ processed_timers' = <<>>
        /\ dialog' = NoDialog
    BY DEF Ready, Typed, Boot
  <1>2. Steady(todo')
    <2> DEFINE f == Frame("load", NoTimer, 1, <<>>)
    <2>1. f \in Frames /\ f.op \notin {"rearm", "activate"}
      <3>1. f \in Frames
        BY FrameType
      <3>2. f.op = "load"
        BY DEF Frame
      <3> QED BY <3>1, <3>2
    <2>2. todo' = <<f>> \/ todo' = <<>>
      BY DEF Boot
    <2> HIDE DEF f
    <2> QED BY <2>1, <2>2, SteadyOne, SteadyEmpty
  <1>3. Known' = {} /\ Pending' = {}
    BY <1>1, <1>2, SteadyNext, MembersEmpty DEF Known
  <1>4. Alive' = {}
    BY <1>3 DEF Alive
  <1>5. PhaseOf' = [t \in Timers |-> "absent"]
    BY <1>4, Phases DEF Phase
  <1>6. Lives
    BY <1>1, <1>5 DEF Lives, Lifecycle!Next, Lifecycle!PowerOff
  <1>7. ChoiceOpen'
    BY <1>1, NoChoice DEF NoDialog
  <1>8. \A u \in Timers \ Known' : entry'[u].state = StateWaiting
    BY <1>1, BlankWaits
  <1> QED BY <1>1, <1>2, <1>6, <1>7, <1>8, StageFromSteady

\* A timer comes into the lists.
LEMMA ArrivalStages ==
    ASSUME Ready, StageInv, NEW t \in Timers, t \notin Known,
           NEW e \in Entries, e.state \in {StateWaiting, StateEnded},
           NEW k \in Seq(Frames), Steady(k), NEW noRecalc \in BOOLEAN,
           AddTimerEntry(t, e, timer_list, processed_timers, k, noRecalc),
           Pending = {}, dialog'.kind # "choice", UNCHANGED recordings
    PROVE  Lives /\ StageInv'
  <1>1. /\ Typed /\ TypeOK /\ TypeOK' /\ ListsConsistent
        /\ timer_list \in Seq(Timers) /\ processed_timers \in Seq(Timers)
        /\ entry \in [Timers -> Entries]
    BY ReadyParts DEF Ready, Typed, TypeOK
  <1>2. /\ Split(entry, timer_list, processed_timers)
        /\ t \notin Members(timer_list) /\ t \notin Members(processed_timers)
    BY <1>1, SplitLists DEF Known
  <1>3. /\ Known' = Known \cup {t}
        /\ todo' = k \/ (todo' = <<Calc>> \o k /\ ~noRecalc)
    BY <1>1, <1>2, AddTimerEntryLists DEF Known
  <1>4. Placed(t, e)
    BY <1>1, AddTimerEntryPlaces
  <1>5. Steady(todo')
    BY <1>3, SteadyResumes DEF Resumes
  <1>6. OthersKept(t) /\ recordings'[t] = recordings[t]
    BY DEF OthersKept
  <1>7. Lives /\ IdleOutside'
    BY <1>1, <1>3, <1>4, <1>5, <1>6, PlacingLives
  <1> QED BY <1>1, <1>5, <1>7, NoChoice, StageFromSteady DEF IdleOutside

\* What is to be brought in is in no list.
LEMMA LoadedUnknown ==
    ASSUME TypeOK, ListsInv, todo # <<>>, Top.op = "load",
           Top.n \in Nat \ {0}, Top.n <= Len(file.timers)
    PROVE  file.timers[Top.n].t \in Timers \ Known
  <1>1. Top \in Members(todo) /\ file.timers \in Seq(SavedTimer)
    BY RestMembers DEF TypeOK
  <1>2. Top.n \in DOMAIN file.timers /\ file.timers[Top.n] \in SavedTimer
    BY <1>1, SeqFacts
  <1>3. file.timers[Top.n].t \in Timers
    BY <1>2 DEF SavedTimer
  <1>4. file.timers[Top.n].t \in ArrivesBy(Top, file.timers)
    BY <1>2 DEF ArrivesBy
  <1>5. file.timers[Top.n].t \in Arriving(todo, file.timers)
    BY <1>1, <1>4 DEF Arriving
  <1> QED BY <1>3, <1>5 DEF ListsInv

LEMMA LoadTimerStages ==
    ASSUME Ready, StageInv, LoadTimer
    PROVE  Lives /\ StageInv'
  <1> DEFINE f == [Top EXCEPT !.n = @ + 1]
             next == <<f>> \o Rest
             s == file.timers[Top.n]
             e == NewEntry(s.begin, s.end, s.repeated, s.disabled, s.justplay)
  <1>1. /\ todo # <<>> /\ Top.op = "load" /\ UNCHANGED <<recordings, dialog>>
        /\ Typed /\ TypeOK /\ ListsInv /\ file.timers \in Seq(SavedTimer)
    BY ReadyParts DEF LoadTimer, In, TypeOK, Ready
  <1>2. /\ Steady(Rest) /\ Rest \in Seq(Frames) /\ Pending = {}
        /\ dialog.kind # "choice"
    BY <1>1, SteadyRest, SteadyTodo, NotTimely DEF Timely
  <1>3. Top.n \in Nat \ {0} /\ f \in Frames /\ f.op = "load"
    <2>1. Top \in Frames
      BY <1>1, TopType DEF TypeOK
    <2>2. Top.n \in Nat \ {0} /\ [Top EXCEPT !.n = Top.n + 1] \in Frames
      BY <1>1, TopOfKind DEF TypeOK
    <2>3. f \in Frames
      BY <2>2
    <2>4. f.op = Top.op
      BY <2>1 DEF Frames
    <2> QED BY <1>1, <2>2, <2>3, <2>4
  <1>4. Steady(next) /\ next \in Seq(Frames)
    <2> HIDE DEF f
    <2> QED BY <1>2, <1>3, SteadyPush
  <1>5. CASE /\ todo' = Rest \/ todo' = next
             /\ UNCHANGED <<entry, timer_list, processed_timers>>
    BY <1>1, <1>2, <1>4, <1>5, NoChoice, QuietStages
  <1>6. CASE /\ Top.n <= Len(file.timers)
             /\ AddTimerEntry(s.t, TimeChanged(e), timer_list,
                              processed_timers, next, FALSE)
    <2>1. s.t \in Timers \ Known /\ s \in SavedTimer
      BY <1>1, <1>3, <1>6, LoadedUnknown, SeqFacts
    <2>2. e \in Entries
      BY <2>1, NewEntryType DEF SavedTimer
    <2>3. e.state = StateWaiting
      BY DEF NewEntry, ResetState, TimeChanged
    <2> HIDE DEF e, next
    <2>4. TimeChanged(e) \in Entries /\ TimeChanged(e).state = StateWaiting
      BY <2>2, <2>3, TimeChangedType, TimeChangedService DEF SameService
    <2> QED BY <1>1, <1>2, <1>4, <1>6, <2>1, <2>4, ArrivalStages
  <1> QED BY <1>5, <1>6 DEF LoadTimer

LEMMA AddedUnknown ==
    ASSUME TypeOK, ListsInv, todo # <<>>, Top.op = "add"
    PROVE  Top.t \in Timers \ Known
  <1>1. Top \in Members(todo) /\ Top.t \in Timers
    BY RestMembers, TopOfKind DEF TypeOK
  <1>2. Top.t \in ArrivesBy(Top, file.timers)
    BY DEF ArrivesBy
  <1>3. Top.t \in Arriving(todo, file.timers)
    BY <1>1, <1>2 DEF Arriving
  <1> QED BY <1>1, <1>3 DEF ListsInv

\* An entry that is in no list is dropped.
LEMMA DroppedStages ==
    ASSUME TypeOK, NEW t \in Timers, t \notin Known,
           entry' = [entry EXCEPT ![t] = Blank]
    PROVE  \A u \in Timers :
             \/ entry'[u].state = entry[u].state
             \/ /\ u \notin Known
                /\ entry'[u].state \in {StateWaiting, StateEnded}
  <1>1. entry'[t] = Blank /\ \A u \in Timers \ {t} : entry'[u] = entry[u]
    BY DEF TypeOK
  <1> QED BY <1>1, BlankWaits

LEMMA AddRecordStages ==
    ASSUME Ready, StageInv, "retry" \notin UserOps, AddRecord
    PROVE  Lives /\ StageInv'
  <1> DEFINE t == Top.t
             k == Save \o Rest
  <1>1. /\ todo # <<>> /\ Top.op = "add" /\ UNCHANGED recordings
        /\ Typed /\ TypeOK /\ ListsInv
    BY ReadyParts DEF AddRecord, In, Ready
  <1>2. /\ Steady(Rest) /\ Rest \in Seq(Frames) /\ Pending = {}
        /\ dialog.kind # "choice"
    BY <1>1, SteadyRest, SteadyTodo, NotTimely DEF Timely
  <1>3. t \in Timers \ Known /\ entry[t] \in Entries
    BY <1>1, AddedUnknown, TypeParts
  <1>4. /\ UNCHANGED dialog
        /\ \/ AddTimerEntry(t, TimeChanged(entry[t]), timer_list,
                            processed_timers, k, FALSE)
           \/ Drop(t)
    BY DEF AddRecord
  <1> HIDE DEF t, k
  <1>5. ASSUME AddTimerEntry(t, TimeChanged(entry[t]), timer_list,
                             processed_timers, k, FALSE)
        PROVE  Lives /\ StageInv'
    <2>1. k \in Seq(Frames) /\ Steady(k)
      BY <1>2, SteadySave, SteadyConcat DEF k
    <2>2. entry[t].state \in {StateWaiting, StateEnded}
      BY <1>2, <1>3, IdleWhenSteady DEF IdleOutside
    <2>3. /\ TimeChanged(entry[t]) \in Entries
          /\ TimeChanged(entry[t]).state \in {StateWaiting, StateEnded}
      BY <1>3, <2>2, TimeChangedType, TimeChangedService DEF SameService
    <2> QED BY <1>1, <1>2, <1>3, <1>4, <1>5, <2>1, <2>3, ArrivalStages
  <1>6. ASSUME Drop(t) PROVE Lives /\ StageInv'
    <2>1. /\ entry' = [entry EXCEPT ![t] = Blank] /\ todo' = Rest
          /\ UNCHANGED <<timer_list, processed_timers>>
      BY <1>3, <1>6 DEF Drop
    <2> QED BY <1>1, <1>2, <1>3, <1>4, <2>1, DroppedStages, NoChoice,
               QuietStages
  <1> QED BY <1>4, <1>5, <1>6

\* The times of a timer change while no screen waits for an answer about it.
LEMMA RetimedStages ==
    ASSUME Ready, StageInv, NEW t \in Timers, NEW e \in Entries,
           SameService(e, entry[t]), NEW k \in Seq(Frames), Steady(k),
           TimerTimeChanged(t, e, k), UNCHANGED recordings, Pending = {},
           ChoiceOpen'
    PROVE  Lives /\ StageInv'
  <1>1. Lives /\ Steady(todo') /\ IdleOutside'
    BY TimeChangeLives
  <1> QED BY <1>1, StageFromSteady DEF IdleOutside, Ready, Typed

LEMMA RetimesStages ==
    ASSUME Ready, StageInv, Retimes, todo # <<>>,
           Top.op \notin Timely \cup {"activate"},
           dialog' = dialog \/ dialog'.kind # "choice"
    PROVE  Lives /\ StageInv'
  <1>1. Typed /\ TypeOK /\ UNCHANGED recordings
    BY DEF Ready, Typed, Retimes
  <1>2. /\ Steady(Rest) /\ Rest \in Seq(Frames) /\ Pending = {}
        /\ dialog.kind # "choice"
    BY <1>1, SteadyRest, SteadyTodo, NotTimely DEF Timely
  <1>3. ChoiceOpen'
    BY <1>2, NoChoice
  <1>4. PICK k :
          /\ k = Rest \/ \E f \in Frames : f.op = Top.op /\ k = <<f>> \o Rest
          /\ \/ \E t \in Timers : Retimed(t, k)
             \/ /\ todo' \in {Rest, k}
                /\ UNCHANGED <<entry, timer_list, processed_timers>>
    BY DEF Retimes
  <1>5. k \in Seq(Frames) /\ Steady(k)
    BY <1>2, <1>4, SteadyPush DEF Timely
  <1>6. ASSUME NEW t \in Timers, Retimed(t, k) PROVE Lives /\ StageInv'
    <2>1. PICK e \in Entries :
            SameService(e, entry[t]) /\ TimerTimeChanged(t, e, k)
      BY <1>6 DEF Retimed
    <2> QED BY <1>1, <1>2, <1>3, <1>5, <2>1, RetimedStages
  <1>7. CASE /\ todo' \in {Rest, k}
             /\ UNCHANGED <<entry, timer_list, processed_timers>>
    BY <1>1, <1>2, <1>3, <1>5, <1>7, QuietStages
  <1> QED BY <1>4, <1>6, <1>7

LEMMA ChangingStages ==
    ASSUME Ready, StageInv, \/ LimitRecording \/ ExtendRecordings
                            \/ CheckEdited \/ RetimeChosen
    PROVE  Lives /\ StageInv'
  <1>1. Retimes
    BY ReadyParts, LimitRecordingRetimes, ExtendRecordingsRetimes,
       CheckEditedRetimes, RetimeChosenRetimes
  <1>2. /\ todo # <<>> /\ Top.op \in {"limit", "extend", "edited", "retime"}
        /\ dialog' = dialog \/ dialog'.kind # "choice"
    BY DEF LimitRecording, ExtendRecordings, CheckEdited, RetimeChosen, In, Open
  <1> QED BY <1>1, <1>2, RetimesStages DEF Timely

\* Timers that have ended are taken out of processed_timers.
LEMMA ForgettingStages ==
    ASSUME Ready, StageInv, Pending = {}, Steady(todo'), ChoiceOpen',
           UNCHANGED recordings, NEW S,
           S \subseteq Members(processed_timers), Known' = Known \ S,
           \A u \in Timers :
             \/ u \notin S /\ entry'[u] = entry[u]
             \/ u \in S /\ entry'[u].state \in {StateWaiting, StateEnded}
    PROVE  Lives /\ StageInv'
  <1>1. /\ TypeOK' /\ ListsConsistent
        /\ Alive = Known /\ Alive' = Known'
    BY ReadyParts, AliveWhenSteady
  <1>2. \A u \in S \cap Timers : entry[u].state = StateEnded
    BY <1>1 DEF ListsConsistent
  <1>3. Lives
    BY <1>1, <1>2, LifeForgets DEF Known
  <1>4. \A u \in Timers \ Known' : entry'[u].state \in {StateWaiting, StateEnded}
    BY IdleWhenSteady DEF IdleOutside
  <1> QED BY <1>1, <1>3, <1>4, StageFromSteady

LEMMA RemoveProcessedStages ==
    ASSUME Ready, StageInv, RemoveProcessed
    PROVE  Lives /\ StageInv'
  <1> DEFINE t == Top.t
  <1>1. /\ todo # <<>> /\ Top.op = "remove" /\ Typed /\ TypeOK /\ ListsConsistent
        /\ UNCHANGED <<timer_list, recordings, dialog>>
    BY ReadyParts DEF RemoveProcessed, In, Ready
  <1>2. /\ Steady(Rest) /\ Pending = {} /\ dialog.kind # "choice"
    BY <1>1, SteadyRest, SteadyTodo, NotTimely DEF Timely
  <1>3. ChoiceOpen'
    BY <1>1, <1>2, NoChoice
  <1>4. t \in Timers /\ entry \in [Timers -> Entries]
        /\ processed_timers \in Seq(Timers)
    BY <1>1, TopOfKind DEF TypeOK
  <1>5. \/ /\ t \in Members(processed_timers) /\ todo' = Rest
           /\ processed_timers' = RemoveTimer(processed_timers, t)
           /\ entry' = [entry EXCEPT ![t] = Blank]
        \/ todo' = <<BootFrame>> /\ UNCHANGED <<entry, processed_timers>>
    BY DEF RemoveProcessed
  <1> HIDE DEF t
  <1>6. ASSUME t \in Members(processed_timers), todo' = Rest,
               processed_timers' = RemoveTimer(processed_timers, t),
               entry' = [entry EXCEPT ![t] = Blank]
        PROVE  Lives /\ StageInv'
    <2>1. Members(processed_timers') = Members(processed_timers) \ {t}
      BY <1>1, <1>4, <1>6, RemoveTimerMembers DEF ListsConsistent
    <2>2. t \notin Members(timer_list)
      BY <1>1, <1>6 DEF ListsConsistent
    <2>3. Known' = Known \ {t}
      BY <1>1, <2>1, <2>2 DEF Known
    <2>4. \A u \in Timers :
            \/ u \notin {t} /\ entry'[u] = entry[u]
            \/ u \in {t} /\ entry'[u].state \in {StateWaiting, StateEnded}
      BY <1>4, <1>6, BlankWaits
    <2> QED BY <1>1, <1>2, <1>3, <1>6, <2>3, <2>4, ForgettingStages
  <1>7. ASSUME todo' = <<BootFrame>>, UNCHANGED <<entry, processed_timers>>
        PROVE  Lives /\ StageInv'
    BY <1>1, <1>2, <1>3, <1>7, SteadyBoot, QuietStages
  <1> QED BY <1>5, <1>6, <1>7

LEMMA ActivateChosenStages ==
    ASSUME Ready, StageInv, ActivateChosen
    PROVE  Lives /\ StageInv'
  <1>1. /\ todo # <<>> /\ Top.op = "activate" /\ Typed /\ TypeOK /\ TypeOK'
        /\ DoActivate(Top.t, Rest)
    BY ReadyParts DEF ActivateChosen, In, Ready
  <1>2. /\ Steady(Rest) /\ Rest \in Seq(Frames) /\ dialog.kind # "choice"
    BY <1>1, SteadyRest, NotTimely DEF Timely
  <1>3. Pending = {}
    BY <1>1 DEF Pending, In
  <1>4. Top.t \in Timers /\ Top.t \in Known
    BY <1>1, TypeParts DEF StageInv, In, Known
  <1>5. Lives /\ Steady(todo') /\ IdleOutside'
    BY <1>1, <1>2, <1>3, <1>4, ActivationLives
  <1>6. ChoiceOpen'
    BY <1>1, <1>2, NoChoice DEF DoActivate
  <1> QED BY <1>1, <1>5, <1>6, StageFromSteady DEF IdleOutside

LEMMA HandlerStages ==
    ASSUME Ready, StageInv, "retry" \notin UserOps, Handler
    PROVE  Lives /\ StageInv'
  BY CalcNextActivationStages, ReEvaluateStages, ProcessActivationStages,
     SetNextActivationStages, FatalStages, TruncateStages, WriteStages,
     BootStages, LoadTimerStages, AddRecordStages, ChangingStages,
     RemoveProcessedStages, ActivateChosenStages
  DEF Handler

-----------------------------------------------------------------------------
(***************************************************************************)
(* What the user does is a step of TimerLifecycle, or none.                *)
(***************************************************************************)

LEMMA IdleSteady ==
    ASSUME TypeOK, StageInv, Idle
    PROVE  Steady(todo) /\ Pending = {}
  BY SteadyTodo DEF Idle

LEMMA ShortenSteady ==
    ASSUME TypeOK, TypeOK', NEW begin, NEW next \in Frames,
           next.op \notin {"rearm", "activate"}, Shorten(begin, next)
    PROVE  Steady(todo')
  <1>1. CASE todo' = <<next>>
    BY <1>1, SteadyOne
  <1>2. ASSUME NEW f, todo' = <<f, next>>, f.op = "limit" PROVE Steady(todo')
    <2>1. todo' \in Seq(Frames) /\ todo' # <<>> /\ Head(todo') = f
      BY <1>2 DEF TypeOK
    <2>2. f \in Frames
      BY <2>1, SeqFacts
    <2>3. Members(todo') = {f, next}
      BY <1>2, <2>2, PairMembers
    <2> QED BY <1>2, <2>3 DEF Steady
  <1> QED BY <1>1, <1>2, ShortenCalls

\* A timer in no list gets a new entry.
LEMMA EnteredStages ==
    ASSUME Ready, StageInv, NEW t \in Timers, t \notin Known, Idle,
           NEW e, e.state = StateWaiting, entry' = [entry EXCEPT ![t] = e],
           Steady(todo'), ChoiceOpen',
           UNCHANGED <<timer_list, processed_timers, recordings>>
    PROVE  Lives /\ StageInv'
  <1>1. Typed /\ TypeOK /\ entry \in [Timers -> Entries]
    BY ReadyParts DEF Ready
  <1>2. Pending = {}
    BY <1>1, IdleSteady
  <1>3. entry'[t] = e /\ \A u \in Timers \ {t} : entry'[u] = entry[u]
    BY <1>1
  <1> QED BY <1>1, <1>2, <1>3, QuietStages

LEMMA UserTurnDialog ==
    ASSUME NEW op, UserTurn(op)
    PROVE  Idle /\ dialog.kind = "none"
  BY DEF UserTurn, NoDialog

LEMMA RecordStages ==
    ASSUME Ready, StageInv, NEW t \in Timers, Record(t)
    PROVE  Lives /\ StageInv'
  <1> DEFINE add == Frame("add", t, 0, <<>>)
  <1>1. /\ TypeOK /\ TypeOK' /\ Idle /\ t \notin Known /\ dialog.kind = "none"
        /\ UNCHANGED <<timer_list, processed_timers, recordings, dialog>>
    BY ReadyParts, UserTurnDialog DEF Record
  <1>2. PICK new \in Templates :
          /\ entry' = [entry EXCEPT ![t] =
               NewEntry(new.begin, new.end, new.repeated, FALSE, new.justplay)]
          /\ Shorten(new.begin, add)
    BY DEF Record
  <1>3. add \in Frames /\ add.op = "add"
    <2>1. 0 \in Int
      OBVIOUS
    <2> QED BY <2>1, FrameType DEF Frame
  <1> DEFINE e == NewEntry(new.begin, new.end, new.repeated, FALSE,
                           new.justplay)
  <1>4. e.state = StateWaiting
    BY DEF NewEntry, ResetState, TimeChanged
  <1> HIDE DEF add, e
  <1>5. Steady(todo')
    BY <1>1, <1>2, <1>3, ShortenSteady
  <1>6. ChoiceOpen'
    BY <1>1, NoChoice
  <1> QED BY <1>1, <1>2, <1>4, <1>5, <1>6, EnteredStages DEF e

LEMMA InstantRecordStages ==
    ASSUME Ready, StageInv, NEW t \in Timers, InstantRecord(t)
    PROVE  Lives /\ StageInv'
  <1> DEFINE add == Frame("add", t, 0, <<>>)
  <1>1. /\ TypeOK /\ TypeOK' /\ Idle /\ t \notin Known /\ dialog.kind = "none"
        /\ UNCHANGED <<timer_list, processed_timers, recordings, dialog>>
        /\ todo' = <<add>>
    BY ReadyParts, UserTurnDialog DEF InstantRecord
  <1>2. PICK end \in AutoEnds :
          entry' = [entry EXCEPT ![t] =
            [NewEntry(now, end, {}, FALSE, FALSE) EXCEPT
               !.dontSave = TRUE, !.autoincrease = (end = now + AutoIncrease)]]
    BY DEF InstantRecord
  <1>3. add \in Frames /\ add.op = "add"
    <2>1. 0 \in Int
      OBVIOUS
    <2> QED BY <2>1, FrameType DEF Frame
  <1> DEFINE e == [NewEntry(now, end, {}, FALSE, FALSE) EXCEPT
               !.dontSave = TRUE, !.autoincrease = (end = now + AutoIncrease)]
  <1>4. e.state = StateWaiting
    BY DEF NewEntry, ResetState, TimeChanged
  <1> HIDE DEF add, e
  <1>5. Steady(todo')
    BY <1>1, <1>3, SteadyOne
  <1>6. ChoiceOpen'
    BY <1>1, NoChoice
  <1> QED BY <1>1, <1>2, <1>4, <1>5, <1>6, EnteredStages DEF e

LEMMA FinishEditStages ==
    ASSUME Ready, StageInv, FinishEdit
    PROVE  Lives /\ StageInv'
  <1> DEFINE next == Frame("edited", dialog.t, 0, <<>>)
  <1>1. /\ Typed /\ TypeOK /\ TypeOK' /\ Idle /\ dialog' = NoDialog
        /\ UNCHANGED <<entry, timer_list, processed_timers, recordings>>
        /\ Shorten(entry[dialog.t].begin, next) /\ dialog.t \in Timers
    BY ReadyParts, TypeParts DEF FinishEdit, Ready
  <1>2. next \in Frames /\ next.op = "edited"
    <2>1. 0 \in Int
      OBVIOUS
    <2> QED BY <1>1, <2>1, FrameType DEF Frame
  <1> HIDE DEF next
  <1>3. Steady(todo') /\ Pending = {}
    BY <1>1, <1>2, ShortenSteady, IdleSteady
  <1>4. ChoiceOpen'
    BY <1>1, NoChoice DEF NoDialog
  <1> QED BY <1>1, <1>3, <1>4, QuietStages

LEMMA CleanupStages ==
    ASSUME Ready, StageInv, Cleanup
    PROVE  Lives /\ StageInv'
  <1> DEFINE disabled == {t \in Timers : entry[t].disabled}
             S == Members(processed_timers) \ Members(processed_timers')
  <1>1. /\ TypeOK /\ Idle /\ dialog.kind = "none" /\ ListsConsistent
        /\ UNCHANGED <<timer_list, recordings, todo, dialog>>
        /\ processed_timers \in Seq(Timers)
    BY ReadyParts, UserTurnDialog DEF Cleanup, TypeOK
  <1>2. processed_timers' \in Selections(processed_timers, disabled)
    BY DEF Cleanup
  <1>3. /\ Members(processed_timers')
             \subseteq Members(processed_timers) \cap disabled
        /\ Members(processed_timers) \cap Members(timer_list) = {}
    BY <1>1, <1>2, SelectionsMembers DEF ListsConsistent
  <1>4. Known' = Known \ S
    BY <1>1, <1>3 DEF Known
  <1>5. ASSUME NEW u \in Timers
        PROVE  \/ u \notin S /\ entry'[u] = entry[u]
               \/ u \in S /\ entry'[u].state \in {StateWaiting, StateEnded}
    <2>1. CASE u \in S
      <3>1. entry[u].state = StateEnded
        BY <1>1, <2>1 DEF ListsConsistent
      <3>2. entry'[u] = Blank \/ entry'[u] = entry[u]
        BY DEF Cleanup
      <3> QED BY <2>1, <3>1, <3>2, BlankWaits
    <2>2. CASE u \notin S
      <3>1. ~(u \in Members(processed_timers) /\ ~entry[u].disabled)
        BY <1>3, <2>2
      <3> QED BY <2>2, <3>1 DEF Cleanup
    <2> QED BY <2>1, <2>2
  <1>6. Steady(todo') /\ Pending = {} /\ ChoiceOpen'
    BY <1>1, IdleSteady, NoChoice
  <1> QED BY <1>1, <1>4, <1>5, <1>6, ForgettingStages

LEMMA RemoveEntryStages ==
    ASSUME Ready, StageInv, NEW t \in Timers, RemoveEntry(t)
    PROVE  Lives /\ StageInv'
  <1> DEFINE aborted == Abort(Withdraw(entry[t]), now)
             first == IF aborted.dontSave THEN <<>>
                      ELSE <<Frame("extend", NoTimer, 1, <<>>)>>
             second == <<Frame("remove", t, 0, <<>>)>>
             both == first \o second
             k == both \o Save
  <1>1. /\ Typed /\ TypeOK /\ Idle /\ dialog.kind = "none"
        /\ UNCHANGED <<recordings, dialog>> /\ entry[t] \in Entries
        /\ entry \in [Timers -> Entries]
    BY ReadyParts, UserTurnDialog DEF RemoveEntry, Ready
  <1>2. aborted \in Entries /\ SameService(aborted, entry[t])
    BY <1>1, AbortedType, AbortedService
  <1>3. k \in Seq(Frames) /\ Steady(k)
    <2>1. first \in Seq(Frames) /\ Steady(first)
      <3>1. Frame("extend", NoTimer, 1, <<>>) \in Frames
        BY FrameType
      <3>2. Frame("extend", NoTimer, 1, <<>>).op = "extend"
        BY DEF Frame
      <3> HIDE DEF aborted
      <3> QED BY <3>1, <3>2, EmptySeqType, SteadyEmpty, SteadyOne
    <2>2. second \in Seq(Frames) /\ Steady(second)
      <3>1. Frame("remove", t, 0, <<>>) \in Frames
        BY FrameType
      <3>2. Frame("remove", t, 0, <<>>).op = "remove"
        BY DEF Frame
      <3> QED BY <3>1, <3>2, SteadyOne
    <2> HIDE DEF first, second
    <2>3. both \in Seq(Frames) /\ Steady(both)
      BY <2>1, <2>2, SteadyConcat
    <2> HIDE DEF both
    <2> QED BY <2>3, SteadySave, SteadyConcat
  <1>4. \/ TimerTimeChanged(t, aborted, k)
        \/ /\ entry' = [entry EXCEPT ![t] = aborted]
           /\ todo' = k
           /\ UNCHANGED <<timer_list, processed_timers>>
    BY DEF RemoveEntry
  <1> HIDE DEF aborted, k
  <1>5. Pending = {} /\ ChoiceOpen'
    BY <1>1, IdleSteady, NoChoice
  <1>6. ASSUME TimerTimeChanged(t, aborted, k)
        PROVE  Lives /\ StageInv'
    BY <1>1, <1>2, <1>3, <1>5, <1>6, RetimedStages
  <1>7. ASSUME entry' = [entry EXCEPT ![t] = aborted], todo' = k,
               UNCHANGED <<timer_list, processed_timers>>
        PROVE  Lives /\ StageInv'
    <2>1. \A u \in Timers : entry'[u].state = entry[u].state
      BY <1>1, <1>2, <1>7 DEF SameService
    <2> QED BY <1>1, <1>3, <1>5, <1>7, <2>1, QuietStages
  <1> QED BY <1>4, <1>6, <1>7

LEMMA SetEndStages ==
    ASSUME Ready, StageInv, NEW t \in Timers, SetEnd(t)
    PROVE  Lives /\ StageInv'
  <1>1. PICK end \in Int, growing \in BOOLEAN :
          TimerTimeChanged(t, [entry[t] EXCEPT !.autoincrease = growing,
                                               !.end = end], <<>>)
    BY ReadyParts, SetEndChange
  <1>2. /\ [entry[t] EXCEPT !.autoincrease = growing, !.end = end] \in Entries
        /\ SameService([entry[t] EXCEPT !.autoincrease = growing, !.end = end],
                       entry[t])
    BY ReadyParts DEF Entries, SameService
  <1>3. TypeOK /\ Idle /\ dialog.kind = "none" /\ UNCHANGED <<recordings, dialog>>
    BY ReadyParts, UserTurnDialog DEF SetEnd
  <1>4. Pending = {} /\ ChoiceOpen'
    BY <1>3, IdleSteady, NoChoice
  <1>5. <<>> \in Seq(Frames) /\ Steady(<<>>)
    BY EmptySeqType, SteadyEmpty
  <1> QED BY <1>1, <1>2, <1>3, <1>4, <1>5, RetimedStages

LEMMA KeyGoStages ==
    ASSUME Ready, StageInv, Idle, NEW t \in Timers, KeyGo(t),
           dialog'.kind # "choice"
    PROVE  Lives /\ StageInv'
  <1>1. Typed /\ TypeOK /\ entry \in [Timers -> Entries]
    BY ReadyParts DEF Ready
  <1>2. \A u \in Timers : entry'[u].state = entry[u].state
    BY <1>1 DEF KeyGo, Entries
  <1>3. Steady(todo') /\ Pending = {} /\ ChoiceOpen'
    BY <1>1, SteadySave, IdleSteady, NoChoice DEF KeyGo
  <1> QED BY <1>1, <1>2, <1>3, QuietStages DEF KeyGo

LEMMA EditStages ==
    ASSUME Ready, StageInv, NEW t \in Timers, EditTimer(t) \/ EditConflict(t)
    PROVE  Lives /\ StageInv'
  <1>1. Idle /\ KeyGo(t) /\ dialog'.kind # "choice"
    BY DEF EditTimer, EditConflict, UserTurn, OnConflict, Open
  <1> QED BY <1>1, KeyGoStages

LEMMA ToggleConflictStages ==
    ASSUME Ready, StageInv, NEW x \in Timers, ToggleConflict(x)
    PROVE  Lives /\ StageInv'
  <1>1. /\ Typed /\ TypeOK /\ entry \in [Timers -> Entries] /\ Idle
        /\ dialog'.kind # "choice"
    BY ReadyParts DEF Ready, ToggleConflict, OnConflict, Open
  <1>2. \A u \in Timers : entry'[u].state = entry[u].state
    BY <1>1 DEF ToggleConflict, Entries
  <1>3. Steady(todo') /\ Pending = {} /\ ChoiceOpen'
    BY <1>1, IdleSteady, NoChoice DEF ToggleConflict
  <1> QED BY <1>1, <1>2, <1>3, QuietStages DEF ToggleConflict

LEMMA ShutdownStages ==
    ASSUME Ready, StageInv, Shutdown
    PROVE  Lives /\ StageInv'
  <1>1. /\ Typed /\ TypeOK /\ Idle /\ dialog.kind = "none"
        /\ todo' = Save \o <<BootFrame>>
        /\ UNCHANGED <<entry, timer_list, processed_timers, recordings, dialog>>
    BY ReadyParts, UserTurnDialog DEF Ready, Shutdown
  <1>2. <<BootFrame>> \in Seq(Frames)
    BY BootFrameType, SingletonType
  <1>3. Steady(todo') /\ Pending = {} /\ ChoiceOpen'
    BY <1>1, <1>2, SteadySave, SteadyBoot, SteadyConcat, IdleSteady, NoChoice
  <1> QED BY <1>1, <1>3, QuietStages

LEMMA AbandonStages ==
    ASSUME Ready, StageInv, Abandon
    PROVE  Lives /\ StageInv'
  <1>1. /\ Typed /\ TypeOK /\ Idle /\ dialog' = NoDialog
        /\ UNCHANGED <<timer_list, processed_timers, recordings, todo>>
        /\ dialog.t \in Timers
    BY ReadyParts, TypeParts DEF Ready, Abandon
  <1>2. \A u \in Timers :
          \/ entry'[u].state = entry[u].state
          \/ /\ u \notin Known
             /\ entry'[u].state \in {StateWaiting, StateEnded}
    BY <1>1, DroppedStages DEF Abandon
  <1>3. Steady(todo') /\ Pending = {} /\ ChoiceOpen'
    BY <1>1, IdleSteady, NoChoice DEF NoDialog
  <1> QED BY <1>1, <1>2, <1>3, QuietStages

LEMMA ToggleDisabledStateStages ==
    ASSUME Ready, StageInv, NEW t \in Timers, ToggleDisabledState(t)
    PROVE  Lives /\ StageInv'
  <1>1. PICK disabled \in BOOLEAN :
          TimerTimeChanged(t, [entry[t] EXCEPT !.disabled = disabled], <<>>)
    BY ReadyParts, ToggleChange
  <1>2. /\ TypeOK /\ Idle /\ dialog.kind = "none" /\ UNCHANGED recordings
        /\ entry[t] \in Entries /\ ListTypes /\ ListsConsistent /\ now \in Int
    BY ReadyParts, TypeParts, UserTurnDialog DEF ToggleDisabledState, TypeOK
  <1> DEFINE e == [entry[t] EXCEPT !.disabled = disabled]
  <1>3. e \in Entries /\ SameService(e, entry[t])
    BY <1>2, DisabledService
  <1>4. <<>> \in Seq(Frames) /\ Steady(<<>>)
    BY EmptySeqType, SteadyEmpty
  <1> HIDE DEF e
  <1>5. ChoiceOpen'
    <2>1. CASE dialog'.kind # "choice"
      BY <2>1, NoChoice
    <2>2. CASE dialog'.kind = "choice"
      <3>1. /\ dialog' = Open("choice", t) /\ entry[t].repeated # {}
            /\ ~entry[t].disabled /\ entry[t].state = StateRunning
            /\ TimerTimeChanged(t, entry[t], <<>>)
        BY <1>2, <2>2 DEF ToggleDisabledState, Open, NoDialog
      <3>2. Goes(t)' /\ dialog'.t = t
        BY <1>2, <3>1, StatesDiffer, TimerTimeChangedGoes DEF Open
      <3>3. \A f \in Members(todo') : f.op \in Timely
        <4>1. Resumes(<<>>)
          BY <1>2, <3>1, TimerTimeChangedLists
        <4> QED BY <1>4, <4>1, ResumedMembers, MembersEmpty DEF Timely
      <3> QED BY <3>2, <3>3 DEF ChoiceOpen, Goes
    <2> QED BY <2>1, <2>2
  <1>6. Pending = {}
    BY <1>2, IdleSteady
  <1> QED BY <1>1, <1>2, <1>3, <1>4, <1>5, <1>6, RetimedStages DEF e

LEMMA RunningEventCallbackStages ==
    ASSUME Ready, StageInv, RunningEventCallback
    PROVE  Lives /\ StageInv'
  <1> DEFINE t == dialog.t
             enabled == [entry[t] EXCEPT !.disabled = FALSE]
             Choices == ProcessRepeated(enabled, now, FALSE)
             Activate == Frame("activate", t, 0, <<>>)
             Retime(n) == Frame("retime", t, n, <<>>)
  <1>1. /\ TypeOK /\ TypeOK' /\ todo = <<>> /\ Idle /\ dialog' = NoDialog
        /\ dialog.kind = "choice"
        /\ UNCHANGED <<timer_list, processed_timers, recordings>>
        /\ entry \in [Timers -> Entries]
    BY ReadyParts DEF RunningEventCallback, Idle
  <1>2. t \in Timers /\ t \in Members(timer_list)
    BY <1>1, TypeParts DEF StageInv, ChoiceOpen, Goes
  <1>3. \A x \in Choices : x.state = entry[t].state
    <2>1. enabled \in Entries /\ enabled.state = entry[t].state
      BY <1>1, <1>2, DisabledService DEF SameService
    <2> HIDE DEF enabled
    <2>2. \A x \in Choices : x.state = enabled.state
      BY <2>1, ProcessRepeatedState
    <2> QED BY <2>1, <2>2
  <1>4. \/ \E n \in {0, 1}, x \in Choices :
             entry' = [entry EXCEPT ![t] = x] /\ todo' = <<Activate, Retime(n)>>
        \/ todo' = <<Retime(1)>> /\ UNCHANGED entry
        \/ UNCHANGED <<entry, todo>>
    BY DEF RunningEventCallback
  <1>5. /\ Activate \in Frames /\ Activate.op = "activate" /\ Activate.t = t
        /\ \A n \in {0, 1} : Retime(n) \in Frames /\ Retime(n).op = "retime"
    <2>1. 0 \in Int /\ {0, 1} \subseteq Int
      OBVIOUS
    <2>2. Activate \in Frames /\ \A n \in {0, 1} : Retime(n) \in Frames
      BY <1>2, <2>1, FrameType
    <2> QED BY <2>2 DEF Frame
  <1> HIDE DEF Choices, Activate, Retime, t
  <1>6. \A u \in Timers : entry'[u].state = entry[u].state
    BY <1>1, <1>3, <1>4
  <1>7. ChoiceOpen'
    BY <1>1, NoChoice DEF NoDialog
  <1>8. Pending = {} /\ Known' = Known
    BY <1>1 DEF Pending, In, Known
  <1>9. CASE \E n \in {0, 1} : todo' = <<Activate, Retime(n)>>
    <2>1. PICK n \in {0, 1} : todo' = <<Activate, Retime(n)>>
      BY <1>9
    <2>2. todo' # <<>> /\ Head(todo') = Activate /\ Tail(todo') = <<Retime(n)>>
      BY <2>1
    <2>3. Steady(Tail(todo'))
      BY <1>5, <2>2, SteadyOne
    <2>4. Pending' = {} /\ In("activate")' /\ Top' = Activate
      BY <1>5, <2>2 DEF Pending, In, Top
    <2>5. Alive' = Alive
      BY <1>8, <2>4 DEF Alive
    <2>6. Lives
      BY <1>1, <1>6, <2>5, LifeStays DEF SameStage
    <2>7. OutsideLists'
      BY <1>6, <2>4, <2>5 DEF OutsideLists, StageInv
    <2>8. Top'.t \in Members(timer_list')
      BY <1>1, <1>2, <1>5, <2>4
    <2> QED BY <1>7, <2>2, <2>3, <2>6, <2>7, <2>8 DEF StageInv, Rest, Steady
  <1>10. CASE todo' = <<Retime(1)>> \/ todo' = todo
    <2>1. Steady(todo')
      BY <1>1, <1>5, <1>10, SteadyOne, SteadyEmpty
    <2> QED BY <1>1, <1>6, <1>7, <1>8, <2>1, QuietStages DEF Ready
  <1> QED BY <1>4, <1>9, <1>10

LEMMA UserStages ==
    ASSUME Ready, StageInv, User
    PROVE  Lives /\ StageInv'
  <1>1. ~RetryRecord
    BY ReadyParts DEF ListsInv, NoRetry, RetryRecord
  <1> QED BY <1>1, RecordStages, InstantRecordStages, RemoveEntryStages,
             SetEndStages, EditStages, ToggleDisabledStateStages,
             ToggleConflictStages, CleanupStages, ShutdownStages,
             FinishEditStages, AbandonStages, RunningEventCallbackStages
          DEF User

-----------------------------------------------------------------------------
(***************************************************************************)
(* The record timer implements TimerLifecycle.                             *)
(***************************************************************************)

LEMMA TimeStages ==
    ASSUME StageInv, UNCHANGED <<listVars, recordings, dialog>>
    PROVE  Lives /\ StageInv'
  <1>1. Lives
    BY DEF Lives, PhaseOf, Known, Pending, In, Top, listVars
  <1>2. StageInv'
    BY DEF StageInv, Rest, Steady, In, Top, ChoiceOpen, Goes, OutsideLists,
           Alive, Known, Pending, listVars
  <1> QED BY <1>1, <1>2

LEMMA TimeoutStages ==
    ASSUME Ready, StageInv, Timeout
    PROVE  Lives /\ StageInv'
  <1>1. /\ Typed /\ TypeOK /\ Idle /\ todo' = <<Calc>>
        /\ UNCHANGED <<entry, timer_list, processed_timers, recordings, dialog>>
    BY ReadyParts DEF Ready, Timeout
  <1>2. Calc \in Frames /\ Calc.op = "calc"
    BY FrameType DEF Calc, Frame
  <1>3. \A f \in Members(todo') : f.op \in Timely
    BY <1>1, <1>2, SingletonMembers DEF Timely
  <1>4. Steady(todo') /\ Pending = {} /\ ChoiceOpen'
    BY <1>1, <1>2, <1>3, SteadyOne, IdleSteady, ChoiceOverCalls
  <1> QED BY <1>1, <1>4, QuietStages

LEMMA CrashStages ==
    ASSUME Ready, StageInv, Crash
    PROVE  Lives /\ StageInv'
  <1>1. /\ TypeOK' /\ ListsInv /\ todo' = <<BootFrame>>
        /\ UNCHANGED <<entry, timer_list, processed_timers, recordings, dialog>>
    BY ReadyParts DEF Crash
  <1>2. Steady(todo') /\ ChoiceOpen'
    BY <1>1, SteadyBoot, BootIsTimely, ChoiceOverCalls
  <1>3. Pending' = {} /\ Known' = Known
    BY <1>1, <1>2, SteadyNext DEF Known
  <1>4. Pending \cap Known = {}
    BY <1>1 DEF Pending, ListsInv
  <1>5. Alive' = Alive \ Pending
    BY <1>3, <1>4 DEF Alive
  <1>6. \A u \in Pending : entry[u].state = StateEnded
    BY DEF StageInv, OutsideLists
  <1>7. Lives
    BY <1>1, <1>5, <1>6, LifeForgets DEF Alive
  <1>8. \A u \in Timers \ Known' : entry'[u].state \in {StateWaiting, StateEnded}
    BY <1>1, <1>3, <1>6 DEF StageInv, OutsideLists, Alive
  <1> QED BY <1>1, <1>2, <1>7, <1>8, StageFromSteady

LEMMA NextStages ==
    ASSUME Ready, StageInv, "retry" \notin UserOps, [Next]_vars
    PROVE  Lives /\ StageInv'
  <1>1. CASE Tick \/ SetClock \/ UNCHANGED vars
    <2>1. UNCHANGED <<listVars, recordings, dialog>>
      BY <1>1 DEF Tick, SetClock, vars, listVars
    <2> QED BY <2>1, TimeStages
  <1> QED BY <1>1, HandlerStages, UserStages, TimeoutStages, CrashStages
          DEF Next

LEMMA InitStages == Init => StageInv /\ Lifecycle!Init
  <1> SUFFICES ASSUME Init PROVE StageInv /\ Lifecycle!Init
    OBVIOUS
  <1>1. /\ timer_list = <<>> /\ processed_timers = <<>> /\ todo = <<>>
        /\ dialog = NoDialog /\ \A t \in Timers : entry[t] = Blank
        /\ recordings = [t \in Timers |-> 0]
    BY DEF Init
  <1>2. Known = {} /\ Pending = {} /\ Alive = {}
    BY <1>1, MembersEmpty DEF Known, Pending, In, Alive
  <1>3. OutsideLists
    BY <1>1, <1>2, BlankWaits DEF OutsideLists
  <1>4. StageInv
    BY <1>1, <1>3 DEF StageInv, In, ChoiceOpen, NoDialog
  <1>5. PhaseOf = [t \in Timers |-> "absent"]
    BY <1>2, Phases DEF Phase
  <1> QED BY <1>1, <1>4, <1>5 DEF Lifecycle!Init

LEMMA StageInvHolds ==
    "retry" \notin UserOps /\ TypesStay => (Spec => []StageInv)
  <1> SUFFICES ASSUME "retry" \notin UserOps, TypesStay
               PROVE  Spec => []StageInv
    OBVIOUS
  <1>1. Init => StageInv
    BY InitStages
  <1>2. Ready /\ StageInv /\ [Next]_vars => StageInv'
    BY NextStages
  <1>3. TypeOK /\ TypeOK' /\ ListsInv /\ Served => Ready
    BY DEF Ready, Typed
  <1>4. Spec => []Served
    BY ServedHolds
  <1>5. Spec => []ListsInv
    BY ListsInvHolds
  <1> QED BY <1>1, <1>2, <1>3, <1>4, <1>5, TypeCorrect, PTL DEF Spec

\* The record timer keeps the promises of TimerLifecycle, whatever calls nest,
\* fail, are cut off by a crash or come from a dialog that was left open: the
\* tuner is taken and given back at the stages of a timer's life
\* (RecordTimer.py:177-317), and a timer that holds one is never forgotten.
\* The two limits are those of ServicesFollowStages.
THEOREM LifecycleIsFollowed ==
    "retry" \notin UserOps /\ TypesStay => (Spec => FollowsLifecycle)
  <1> SUFFICES ASSUME "retry" \notin UserOps, TypesStay
               PROVE  Spec => FollowsLifecycle
    OBVIOUS
  <1>1. Init => Lifecycle!Init
    BY InitStages
  <1>2. Ready /\ StageInv /\ [Next]_vars
          => [Lifecycle!Next]_<<PhaseOf, recordings>>
    BY NextStages DEF Lives
  <1>3. TypeOK /\ TypeOK' /\ ListsInv /\ Served => Ready
    BY DEF Ready, Typed
  <1>4. Spec => []Served
    BY ServedHolds
  <1>5. Spec => []ListsInv
    BY ListsInvHolds
  <1>6. Spec => []StageInv
    BY StageInvHolds
  <1> QED BY <1>1, <1>2, <1>3, <1>4, <1>5, <1>6, TypeCorrect, PTL
          DEF Spec, FollowsLifecycle, Lifecycle!Spec

-----------------------------------------------------------------------------
(***************************************************************************)
(* 5. Activations that are refused.                                        *)
(***************************************************************************)

LEMMA BackoffIsPositive ==
    ASSUME NEW e \in Entries
    PROVE  /\ DoBackoff(e).backoff \in Nat \ {0}
           /\ DoBackoff(e).state = e.state
           /\ DoBackoff(e) \in Entries
  <1> DEFINE longer == IF e.backoff = 0 THEN BackoffFirst
                       ELSE IF 2 * e.backoff > BackoffMax THEN BackoffMax
                       ELSE 2 * e.backoff
  <1>1. longer \in Nat \ {0}
    BY EntryAssumption DEF Entries
  <1>2. DoBackoff(e) = [e EXCEPT !.backoff = longer]
    BY DEF DoBackoff
  <1>3. e \in Entries
    OBVIOUS
  <1> HIDE DEF longer
  <1> QED BY <1>1, <1>2, <1>3, DoBackoffType DEF Entries

\* A timer that has not ended is enqueued as it is.
LEMMA RequeueKeeps ==
    ASSUME TypeOK, NEW t \in Timers, NEW e, NEW k, Requeue(t, e, k),
           e.state < StateEnded
    PROVE  entry'[t] = e
  BY DEF Requeue, Enqueue, TypeOK

LEMMA ActivationBacksOff ==
    ASSUME TypeOK, "noservice" \notin Faults, NEW t \in Timers, NEW k,
           DoActivate(t, k), left' # left
    PROVE  GetNextActivation(entry'[t]) > now
  <1> DEFINE e == entry[t]
             refused == DoBackoff(e)
  <1>1. e \in Entries /\ now \in Int
    BY DEF TypeOK
  <1>2. /\ refused.backoff \in Nat \ {0} /\ refused.state = e.state
        /\ refused \in Entries
    BY <1>1, BackoffIsPositive
  <1> HIDE DEF refused
  <1>3. now + refused.backoff \in Int /\ now + refused.backoff > now
    BY <1>1, <1>2
  <1>4. CASE Prepare(t, k)
    <2> DEFINE x == [refused EXCEPT !.svc = FALSE,
                       !.start_prepare = now + refused.backoff]
    <2>1. e.state = StateWaiting /\ Requeue(t, x, k)
      BY <1>4 DEF Prepare, Fault, refused
    <2>2. x.state = StateWaiting /\ x.start_prepare = now + refused.backoff
      BY <1>2, <2>1 DEF Entries
    <2> HIDE DEF x
    <2>3. entry'[t] = x
      BY <2>1, <2>2, RequeueKeeps DEF StateWaiting, StateEnded
    <2> QED BY <1>3, <2>2, <2>3 DEF GetNextActivation
  <1>5. CASE Start(t, k)
    <2> DEFINE x == [refused EXCEPT !.begin = now + refused.backoff]
    <2>1. e.state = StatePrepared /\ Requeue(t, x, k)
      BY <1>5 DEF Start, refused
    <2>2. x.state = StatePrepared /\ x.begin = now + refused.backoff
      BY <1>2, <2>1 DEF Entries
    <2> HIDE DEF x
    <2>3. entry'[t] = x
      BY <2>1, <2>2, RequeueKeeps DEF StatePrepared, StateEnded
    <2> QED BY <1>3, <2>2, <2>3
               DEF GetNextActivation, StatePrepared, StateWaiting
  <1>6. ~Skip(t, k) /\ ~Stop(t, k)
    BY DEF Skip, Stop
  <1> QED BY <1>4, <1>5, <1>6 DEF DoActivate

\* Only an activation spends a fault.
LEMMA FaultsOfActivations ==
    ASSUME TypeOK, [Next]_vars, left'.fault # left.fault
    PROVE  ProcessActivation \/ ActivateChosen
  <1>1. left' # left
    OBVIOUS
  <1>2. \A what \in {"jump", "crash", "user"} : ~Spend(what)
    BY DEF Spend, TypeOK
  <1>3. ~UNCHANGED vars
    BY <1>1 DEF vars
  <1>4. ~Tick /\ ~SetClock /\ ~Timeout /\ ~Crash
    BY <1>1, <1>2 DEF Tick, SetClock, Timeout, Crash
  <1>5. \A op : ~UserTurn(op)
    BY <1>2 DEF UserTurn
  <1>6. \A x \in Timers : ~OnConflict(x)
    BY <1>2 DEF OnConflict
  <1>7. ~User
    BY <1>1, <1>5, <1>6
    DEF User, Record, InstantRecord, RemoveEntry, SetEnd, EditTimer,
        ToggleDisabledState, ToggleConflict, EditConflict, Cleanup, Shutdown,
        FinishEdit, Abandon, RetryRecord, RunningEventCallback
  <1>8. Handler
    BY <1>3, <1>4, <1>7 DEF Next
  <1> QED BY <1>1, <1>8
      DEF Handler, CalcNextActivation, ReEvaluate, SetNextActivation, Fatal,
          Truncate, Write, Boot, LoadTimer, AddRecord, LimitRecording,
          ExtendRecordings, RemoveProcessed, CheckEdited, RetimeChosen

\* An activation whose prepare or start fails is tried again later, not at once,
\* however often it fails (RecordTimer.py:209-233, 288-295).  Left out is a tuner
\* that cannot be had at all: it is asked for again and again within the second
\* (RecordTimer.py:191-193).
THEOREM RefusedIsTriedLater ==
    "noservice" \notin Faults => (Spec => RefusalBacksOff)
  <1> SUFFICES ASSUME "noservice" \notin Faults PROVE Spec => RefusalBacksOff
    OBVIOUS
  <1> DEFINE t == IF In("activate") THEN Top.t ELSE Head(timer_list)
  <1>1. TypeOK /\ [Next]_vars
          => (left'.fault # left.fault
                => GetNextActivation(entry'[t]) > now)
    <2> SUFFICES ASSUME TypeOK, [Next]_vars, left'.fault # left.fault
                 PROVE  GetNextActivation(entry'[t]) > now
      OBVIOUS
    <2>1. left' # left
      OBVIOUS
    <2>2. CASE ProcessActivation
      <3>1. ~In("activate") /\ t = Head(timer_list) /\ DoActivate(t, todo)
        BY <2>2 DEF ProcessActivation, In
      <3>2. t \in Timers
        BY <2>2, <3>1, SeqFacts DEF ProcessActivation, HeadDue, TypeOK
      <3> HIDE DEF t
      <3> QED BY <2>1, <3>1, <3>2, ActivationBacksOff
    <2>3. CASE ActivateChosen
      <3>1. In("activate") /\ t = Top.t /\ DoActivate(t, Rest)
        BY <2>3 DEF ActivateChosen
      <3>2. t \in Timers
        BY <3>1, TopOfKind DEF TypeOK, In
      <3> HIDE DEF t
      <3> QED BY <2>1, <3>1, <3>2, ActivationBacksOff
    <2> QED BY <2>2, <2>3, FaultsOfActivations
  <1>2. TypeOK /\ [Next]_vars
          => [left'.fault # left.fault
                => GetNextActivation(entry'[t]) > now]_vars
    BY <1>1
  <1> QED BY <1>2, TypeCorrect, PTL DEF Spec, RefusalBacksOff

-----------------------------------------------------------------------------
(***************************************************************************)
(* 6. Timers that are disabled.                                            *)
(***************************************************************************)

LEMMA ProcessRepeatedDays ==
    ASSUME NEW e \in Entries, NEW at, NEW findRunningEvent,
           NEW x \in ProcessRepeated(e, at, findRunningEvent)
    PROVE  SameDays(x, e)
  <1>1. x \in Entries
    BY ProcessRepeatedType
  <1>2. CASE e.repeated = {}
    BY <1>1, <1>2 DEF ProcessRepeated, SameDays
  <1>3. CASE e.repeated # {}
    <2>1. PICK k \in 0..MaxDays :
            x = TimeChanged(
                  [e EXCEPT !.begin = e.begin + Days(k),
                            !.end = IF e.begin + Days(k) = e.end + Days(k)
                                    THEN e.end + Days(k) + 1
                                    ELSE e.end + Days(k)])
      BY <1>3 DEF ProcessRepeated
    <2>2. x.repeated = e.repeated /\ x.disabled = e.disabled
      BY <2>1 DEF TimeChanged, Entries
    <2> QED BY <1>1, <2>2 DEF SameDays
  <1> QED BY <1>2, <1>3

Rests(e) == e.disabled => e.state # StateWaiting

\* A disabled timer does not wait in either list, nor anywhere else.
DisabledRests == \A t \in Timers : Rests(entry[t])

\* Every step keeps the one and does the other.
RestsOn ==
    \A t \in Timers : Rests(entry'[t]) /\ Begins(entry'[t], entry[t])

\* Most entries stay, or keep their state.
LEMMA RestsKept ==
    ASSUME DisabledRests,
           \A u \in Timers :
             \/ Rests(entry'[u]) /\ Begins(entry'[u], entry[u])
             \/ /\ entry'[u].state = entry[u].state
                /\ entry'[u].disabled = entry[u].disabled
    PROVE  RestsOn
  <1>1. ASSUME NEW u \in Timers
        PROVE  Rests(entry'[u]) /\ Begins(entry'[u], entry[u])
    <2>1. Rests(entry[u])
      BY DEF DisabledRests
    <2> QED BY <2>1 DEF Rests, Begins
  <1> QED BY <1>1 DEF RestsOn

\* One entry is replaced.
LEMMA RestsReplaced ==
    ASSUME TypeOK, DisabledRests, NEW t \in Timers, NEW e, Rests(e),
           Begins(e, entry[t]),
           entry' = [entry EXCEPT ![t] = e] \/ UNCHANGED entry
    PROVE  RestsOn
  <1>1. \A u \in Timers : entry'[u] = entry[u] \/ (u = t /\ entry'[u] = e)
    BY DEF TypeOK
  <1> QED BY <1>1, RestsKept

LEMMA RestsSame ==
    ASSUME DisabledRests, UNCHANGED entry
    PROVE  RestsOn
  BY RestsKept

LEMMA EnqueueRests ==
    ASSUME TypeOK, DisabledRests, NEW t \in Timers, NEW e, NEW active, NEW k,
           Enqueue(t, e, active, k), Rests(e), Begins(e, entry[t])
    PROVE  RestsOn
  BY RestsReplaced DEF Enqueue

LEMMA RetireRests ==
    ASSUME TypeOK, DisabledRests, NEW t \in Timers, NEW e \in Entries,
           NEW processed, NEW k, Retire(t, e, processed, k)
    PROVE  RestsOn
  <1> DEFINE ended == [e EXCEPT !.state = StateEnded]
  <1>1. entry' = [entry EXCEPT ![t] = ended]
    BY DEF Retire
  <1>2. ended.state = StateEnded
    BY DEF Entries
  <1>3. Rests(ended) /\ Begins(ended, entry[t])
    BY <1>2, StatesDiffer DEF Rests, Begins
  <1> HIDE DEF ended
  <1> QED BY <1>1, <1>3, RestsReplaced

LEMMA AddTimerEntryRests ==
    ASSUME TypeOK, DisabledRests, NEW t \in Timers, NEW e \in Entries,
           NEW active, NEW processed, NEW k, NEW noRecalc,
           AddTimerEntry(t, e, active, processed, k, noRecalc),
           Begins(e, entry[t])
    PROVE  RestsOn
  <1>1. PICK x \in ProcessRepeated(e, now, TRUE) :
          IF AlreadyPassed(x)
          THEN Retire(t, x, processed, k) /\ timer_list' = active
          ELSE /\ Enqueue(t, x, active, Recalc(k, noRecalc))
               /\ processed_timers' = processed
    BY DEF AddTimerEntry
  <1>2. x \in Entries
    BY ProcessRepeatedType
  <1>3. CASE AlreadyPassed(x)
    BY <1>1, <1>2, <1>3, RetireRests
  <1>4. CASE ~AlreadyPassed(x)
    <2>1. Rests(x)
      BY <1>4 DEF Rests, AlreadyPassed
    <2>2. x.state = e.state
      BY <1>1, ProcessRepeatedState
    <2>3. Begins(x, entry[t])
      BY <2>2 DEF Begins
    <2> QED BY <1>1, <1>4, <2>1, <2>3, EnqueueRests
  <1> QED BY <1>3, <1>4

LEMMA TimerTimeChangedRests ==
    ASSUME TypeOK, DisabledRests, NEW t \in Timers, NEW e \in Entries, NEW k,
           TimerTimeChanged(t, e, k), e.state = entry[t].state
    PROVE  RestsOn
  <1> DEFINE restored == IF e.state = StateEnded
                         THEN [TimeChanged(e) EXCEPT !.state = StateWaiting]
                         ELSE TimeChanged(e)
             active == IF e.state = StateEnded THEN timer_list
                       ELSE RemoveTimer(timer_list, t)
             processed == IF e.state = StateEnded
                          THEN RemoveTimer(processed_timers, t)
                          ELSE processed_timers
  <1>1. AddTimerEntry(t, restored, active, processed, k, FALSE)
    BY DEF TimerTimeChanged
  <1>2. restored \in Entries
    BY TimeChangedType, StateType
  <1>3. restored.state \in {e.state, StateWaiting}
    BY TimeChangedType DEF TimeChanged, Entries
  <1>4. Begins(restored, entry[t])
    BY <1>3, StatesDiffer DEF Begins
  <1> HIDE DEF restored, active, processed
  <1> QED BY <1>1, <1>2, <1>4, AddTimerEntryRests

LEMMA RequeueRests ==
    ASSUME TypeOK, DisabledRests, NEW t \in Timers, NEW e \in Entries, NEW k,
           Requeue(t, e, k), Rests(e), Begins(e, entry[t])
    PROVE  RestsOn
  <1> DEFINE active == RemoveTimer(timer_list, t)
  <1>1. CASE e.state < StateEnded
    BY <1>1, EnqueueRests DEF Requeue
  <1>2. CASE ~(e.state < StateEnded) /\ e.repeated # {}
    <2>1. PICK x \in ProcessRepeated(e, now, TRUE) :
            AddTimerEntry(t, [x EXCEPT !.state = StateWaiting], active,
                          processed_timers, k, FALSE)
      BY <1>2 DEF Requeue
    <2> DEFINE next == [x EXCEPT !.state = StateWaiting]
    <2>2. x \in Entries
      BY ProcessRepeatedType
    <2>3. next \in Entries /\ next.state = StateWaiting
      BY <2>2, StateType DEF Entries
    <2>4. Begins(next, entry[t])
      BY <2>3, StatesDiffer DEF Begins
    <2> HIDE DEF next, active
    <2> QED BY <2>1, <2>3, <2>4, AddTimerEntryRests DEF next
  <1>3. CASE ~(e.state < StateEnded) /\ e.repeated = {}
    BY <1>3, RetireRests DEF Requeue
  <1> QED BY <1>1, <1>2, <1>3

LEMMA ActivationRests ==
    ASSUME TypeOK, DisabledRests, NEW t \in Timers, NEW k, DoActivate(t, k)
    PROVE  RestsOn
  <1>1. PICK x \in Entries : Requeue(t, x, k) /\ Continues(x, entry[t])
    BY ActivationContinues
  <1>2. Rests(entry[t])
    BY DEF DisabledRests
  <1>3. Rests(x)
    BY <1>1, <1>2 DEF Rests, Continues, SameDays
  <1>4. Begins(x, entry[t])
    BY <1>1 DEF Continues
  <1> QED BY <1>1, <1>3, <1>4, RequeueRests

LEMMA BlankRests == Rests(Blank) /\ \A e : Begins(Blank, e)
  BY StatesDiffer DEF Rests, Begins, Blank, NewEntry, ResetState, TimeChanged

LEMMA RetimesRests ==
    ASSUME TypeOK, DisabledRests, Retimes
    PROVE  RestsOn
  <1>1. \/ UNCHANGED entry
        \/ \E t \in Timers, e \in Entries : \E k :
             TimerTimeChanged(t, e, k) /\ e.state = entry[t].state
    BY DEF Retimes, Retimed, SameService
  <1> QED BY <1>1, RestsSame, TimerTimeChangedRests

LEMMA LoadTimerRests ==
    ASSUME TypeOK, DisabledRests, LoadTimer
    PROVE  RestsOn
  <1> DEFINE s == file.timers[Top.n]
             e == NewEntry(s.begin, s.end, s.repeated, s.disabled, s.justplay)
  <1>1. CASE UNCHANGED entry
    BY <1>1, RestsSame
  <1>2. ASSUME Top.n <= Len(file.timers), NEW k,
               AddTimerEntry(s.t, TimeChanged(e), timer_list,
                             processed_timers, k, FALSE)
        PROVE  RestsOn
    <2>1. Top.n \in Nat \ {0} /\ file.timers \in Seq(SavedTimer)
      BY TopOfKind DEF LoadTimer, In, TypeOK
    <2>2. s \in SavedTimer
      BY <1>2, <2>1, SeqFacts
    <2>3. s.t \in Timers /\ e \in Entries
      BY <2>2, NewEntryType DEF SavedTimer
    <2>4. TimeChanged(e) \in Entries
      BY <2>3, TimeChangedType
    <2>5. TimeChanged(e).state = StateWaiting
      BY <2>3, TimeChangedService
      DEF SameService, NewEntry, ResetState, TimeChanged
    <2>6. Begins(TimeChanged(e), entry[s.t])
      BY <2>5, StatesDiffer DEF Begins
    <2> HIDE DEF e, s
    <2> QED BY <1>2, <2>3, <2>4, <2>6, AddTimerEntryRests
  <1> QED BY <1>1, <1>2 DEF LoadTimer

LEMMA AddRecordRests ==
    ASSUME TypeOK, DisabledRests, AddRecord
    PROVE  RestsOn
  <1>1. Top.t \in Timers
    BY TopOfKind DEF AddRecord, In, TypeOK
  <1>2. /\ TimeChanged(entry[Top.t]) \in Entries
        /\ Begins(TimeChanged(entry[Top.t]), entry[Top.t])
    BY <1>1, TypeParts, TimeChangedType, TimeChangedService
    DEF SameService, Begins
  <1>3. \/ AddTimerEntry(Top.t, TimeChanged(entry[Top.t]), timer_list,
                         processed_timers, Save \o Rest, FALSE)
        \/ entry' = [entry EXCEPT ![Top.t] = Blank]
        \/ UNCHANGED entry
    BY DEF AddRecord, Drop
  <1> QED BY <1>1, <1>2, <1>3, AddTimerEntryRests, RestsReplaced, BlankRests

LEMMA HandlerRests ==
    ASSUME TypeOK, DisabledRests, Handler
    PROVE  RestsOn
  <1>1. CASE \/ CalcNextActivation \/ SetNextActivation \/ Fatal \/ Truncate
             \/ Write
    <2>1. UNCHANGED entry
      BY <1>1 DEF CalcNextActivation, SetNextActivation, Fatal, Truncate, Write
    <2> QED BY <2>1, RestsSame
  <1>2. CASE ReEvaluate
    <2> DEFINE x == Head(Top.rest)
    <2>1. CASE UNCHANGED entry
      BY <2>1, RestsSame
    <2>2. ASSUME Top.rest # <<>>, NEW k,
                 AddTimerEntry(x, ResetState(entry[x]), timer_list,
                               processed_timers, k, TRUE)
          PROVE  RestsOn
      <3>1. Top.rest \in Seq(Timers)
        BY <1>2, TopOfKind DEF ReEvaluate, In, TypeOK
      <3>2. x \in Timers
        BY <2>2, <3>1, SeqFacts
      <3>3. ResetState(entry[x]) \in Entries
        BY <3>2, TypeParts, ResetStateType
      <3>4. ResetState(entry[x]).state = StateWaiting
        BY <3>2, TypeParts DEF ResetState, TimeChanged, Entries
      <3>5. Begins(ResetState(entry[x]), entry[x])
        BY <3>4, StatesDiffer DEF Begins
      <3> HIDE DEF x
      <3> QED BY <2>2, <3>2, <3>3, <3>5, AddTimerEntryRests
    <2> QED BY <1>2, <2>1, <2>2 DEF ReEvaluate
  <1>3. CASE ProcessActivation
    <2> DEFINE t == Head(timer_list)
    <2>1. t \in Timers /\ DoActivate(t, todo)
      BY <1>3, SeqFacts DEF ProcessActivation, HeadDue, TypeOK
    <2> HIDE DEF t
    <2> QED BY <2>1, ActivationRests
  <1>4. CASE ActivateChosen
    <2>1. Top.t \in Timers
      BY <1>4, TopOfKind DEF ActivateChosen, In, TypeOK
    <2> QED BY <1>4, <2>1, ActivationRests DEF ActivateChosen
  <1>5. CASE Boot
    <2>1. \A u \in Timers : Rests(entry'[u]) /\ Begins(entry'[u], entry[u])
      BY <1>5, BlankRests DEF Boot
    <2> QED BY <2>1, RestsKept
  <1>6. CASE RemoveProcessed
    <2>1. Top.t \in Timers
      BY <1>6, TopOfKind DEF RemoveProcessed, In, TypeOK
    <2> QED BY <1>6, <2>1, RestsReplaced, BlankRests DEF RemoveProcessed
  <1>7. CASE \/ LimitRecording \/ ExtendRecordings \/ CheckEdited
             \/ RetimeChosen
    BY <1>7, RetimesRests, LimitRecordingRetimes, ExtendRecordingsRetimes,
       CheckEditedRetimes, RetimeChosenRetimes
  <1> QED BY <1>1, <1>2, <1>3, <1>4, <1>5, <1>6, <1>7, LoadTimerRests,
             AddRecordRests
          DEF Handler

LEMMA EnteredRests ==
    ASSUME TypeOK, DisabledRests, NEW t \in Timers,
           Record(t) \/ InstantRecord(t)
    PROVE  RestsOn
  <1>1. CASE Record(t)
    <2>1. PICK new \in Templates :
            entry' = [entry EXCEPT ![t] = NewEntry(new.begin, new.end,
                        new.repeated, FALSE, new.justplay)]
      BY <1>1 DEF Record
    <2> DEFINE e == NewEntry(new.begin, new.end, new.repeated, FALSE,
                             new.justplay)
    <2>2. Rests(e) /\ Begins(e, entry[t])
      BY StatesDiffer DEF Rests, Begins, NewEntry, ResetState, TimeChanged
    <2> HIDE DEF e
    <2> QED BY <2>1, <2>2, RestsReplaced DEF e
  <1>2. CASE InstantRecord(t)
    <2>1. PICK end \in AutoEnds :
            entry' = [entry EXCEPT ![t] =
              [NewEntry(now, end, {}, FALSE, FALSE) EXCEPT !.dontSave = TRUE,
                 !.autoincrease = (end = now + AutoIncrease)]]
      BY <1>2 DEF InstantRecord
    <2> DEFINE e == [NewEntry(now, end, {}, FALSE, FALSE) EXCEPT
                       !.dontSave = TRUE,
                       !.autoincrease = (end = now + AutoIncrease)]
    <2>2. Rests(e) /\ Begins(e, entry[t])
      <3>1. e.disabled = FALSE
        BY DEF NewEntry, ResetState, TimeChanged
      <3>2. e.state = StateWaiting
        BY DEF NewEntry, ResetState, TimeChanged
      <3> QED BY <3>1, <3>2, StatesDiffer DEF Rests, Begins
    <2> HIDE DEF e
    <2> QED BY <2>1, <2>2, RestsReplaced DEF e
  <1> QED BY <1>1, <1>2

LEMMA RemoveEntryRests ==
    ASSUME TypeOK, DisabledRests, NEW t \in Timers, RemoveEntry(t)
    PROVE  RestsOn
  <1> DEFINE aborted == Abort(Withdraw(entry[t]), now)
  <1>1. aborted \in Entries
    BY AbortedType
  <1>2. \/ \E k : TimerTimeChanged(t, aborted, k)
        \/ aborted.state = StateEnded /\ entry' = [entry EXCEPT ![t] = aborted]
    BY DEF RemoveEntry
  <1>4. aborted.state = entry[t].state
    BY TypeParts DEF Abort, Withdraw, Entries
  <1> HIDE DEF aborted
  <1>3. aborted.state = StateEnded
          => Rests(aborted) /\ Begins(aborted, entry[t])
    BY StatesDiffer DEF Rests, Begins
  <1> QED BY <1>1, <1>2, <1>3, <1>4, TimerTimeChangedRests, RestsReplaced

LEMMA KeyGoRests ==
    ASSUME TypeOK, DisabledRests, NEW t \in Timers, KeyGo(t)
    PROVE  RestsOn
  <1>1. entry \in [Timers -> Entries]
    BY DEF TypeOK
  <1>2. \A u \in Timers : /\ entry'[u].state = entry[u].state
                          /\ entry'[u].disabled = entry[u].disabled
    BY <1>1 DEF KeyGo, Entries
  <1> QED BY <1>2, RestsKept

LEMMA RunningEventCallbackRests ==
    ASSUME TypeOK, DisabledRests, RunningEventCallback
    PROVE  RestsOn
  <1> DEFINE t == dialog.t
             enabled == [entry[t] EXCEPT !.disabled = FALSE]
  <1>1. t \in Timers /\ entry[t] \in Entries
    BY TypeParts DEF RunningEventCallback
  <1>2. /\ enabled \in Entries /\ enabled.disabled = FALSE
        /\ enabled.state = entry[t].state
    BY <1>1 DEF Entries
  <1>3. \/ UNCHANGED entry
        \/ \E x \in ProcessRepeated(enabled, now, FALSE) :
             entry' = [entry EXCEPT ![t] = x]
    BY DEF RunningEventCallback
  <1> HIDE DEF t, enabled
  <1>4. \A x \in ProcessRepeated(enabled, now, FALSE) :
          Rests(x) /\ Begins(x, entry[t])
    <2> SUFFICES ASSUME NEW x \in ProcessRepeated(enabled, now, FALSE)
                 PROVE  Rests(x) /\ Begins(x, entry[t])
      OBVIOUS
    <2>1. x.disabled = enabled.disabled
      BY <1>2, ProcessRepeatedDays DEF SameDays
    <2>2. x.state = enabled.state
      <3>1. enabled \in Entries /\ FALSE \in BOOLEAN
        BY <1>2
      <3> QED BY <3>1, ProcessRepeatedState
    <2>3. Rests(x)
      <3>1. enabled.disabled = FALSE
        BY <1>2
      <3> QED BY <2>1, <3>1 DEF Rests
    <2>4. Begins(x, entry[t])
      BY <1>2, <2>2 DEF Begins
    <2> QED BY <2>3, <2>4
  <1> QED BY <1>1, <1>3, <1>4, RestsSame, RestsReplaced

LEMMA UserRests ==
    ASSUME TypeOK, DisabledRests, "conflict" \notin UserOps, User
    PROVE  RestsOn
  <1>1. CASE Shutdown \/ FinishEdit \/ RetryRecord
    <2>1. UNCHANGED entry
      BY <1>1 DEF Shutdown, FinishEdit, RetryRecord
    <2> QED BY <2>1, RestsSame
  <1>2. ASSUME NEW t \in Timers, SetEnd(t) \/ ToggleDisabledState(t)
        PROVE  RestsOn
    <2>1. entry[t] \in Entries
      BY TypeParts
    <2>2. CASE SetEnd(t)
      <3>1. PICK end \in Int, growing \in BOOLEAN :
              TimerTimeChanged(t, [entry[t] EXCEPT !.autoincrease = growing,
                                                   !.end = end], <<>>)
        BY <2>2, SetEndChange
      <3>2. /\ [entry[t] EXCEPT !.autoincrease = growing, !.end = end]
                 \in Entries
            /\ [entry[t] EXCEPT !.autoincrease = growing, !.end = end].state
                 = entry[t].state
        BY <2>1 DEF Entries
      <3> QED BY <3>1, <3>2, TimerTimeChangedRests
    <2>3. CASE ToggleDisabledState(t)
      <3>1. PICK disabled \in BOOLEAN :
              TimerTimeChanged(t, [entry[t] EXCEPT !.disabled = disabled], <<>>)
        BY <2>3, ToggleChange
      <3>2. /\ [entry[t] EXCEPT !.disabled = disabled] \in Entries
            /\ [entry[t] EXCEPT !.disabled = disabled].state = entry[t].state
        BY <2>1 DEF Entries
      <3> QED BY <3>1, <3>2, TimerTimeChangedRests
    <2> QED BY <1>2, <2>2, <2>3
  <1>3. \A x : ~OnConflict(x)
    BY DEF OnConflict
  <1>4. CASE Cleanup
    <2>1. \A u \in Timers : entry'[u] = Blank \/ entry'[u] = entry[u]
      BY <1>4 DEF Cleanup
    <2> QED BY <2>1, BlankRests, RestsKept
  <1>5. CASE Abandon
    <2>1. \A u \in Timers : entry'[u] = Blank \/ entry'[u] = entry[u]
      BY <1>5 DEF Abandon, TypeOK
    <2> QED BY <2>1, BlankRests, RestsKept
  <1> QED BY <1>1, <1>2, <1>3, <1>4, <1>5, EnteredRests, RemoveEntryRests,
             KeyGoRests, RunningEventCallbackRests
          DEF User, EditTimer, ToggleConflict, EditConflict

\* For any timers, days and clock: a timer that is disabled where the timer list
\* shows it never waits to be activated: it has ended, or had its tuner before
\* (timer.py:169-176, TimerEdit.py:83-131).  And only a timer that waits is
\* given one.  Left out are the keys of the list of conflicts, which disable a
\* timer and leave it where it is (TimerEdit.py:386-413).
THEOREM DisabledTakesNoTuner ==
    "conflict" \notin UserOps
      => (Spec => []DisabledRests /\ DisabledNeverPrepared)
  <1> SUFFICES ASSUME "conflict" \notin UserOps
               PROVE  Spec => []DisabledRests /\ DisabledNeverPrepared
    OBVIOUS
  <1>1. Init => DisabledRests
    BY BlankRests DEF Init, DisabledRests
  <1>2. TypeOK /\ DisabledRests /\ [Next]_vars => RestsOn
    <2> SUFFICES ASSUME TypeOK, DisabledRests, [Next]_vars
                 PROVE  RestsOn
      OBVIOUS
    <2>1. CASE Tick \/ SetClock \/ Timeout \/ Crash \/ UNCHANGED vars
      <3>1. UNCHANGED entry
        BY <2>1 DEF Tick, SetClock, Timeout, Crash, vars, listVars
      <3> QED BY <3>1, RestsSame
    <2> QED BY <2>1, HandlerRests, UserRests DEF Next
  <1>3. RestsOn => DisabledRests'
    BY DEF RestsOn, DisabledRests, Rests
  <1>4. DisabledRests /\ RestsOn
          => \A t \in Timers :
         (/\ dialog = NoDialog /\ entry[t].disabled
          /\ entry[t].state # StatePrepared)
                 => entry'[t].state # StatePrepared
    BY DEF DisabledRests, Rests, RestsOn, Begins
  <1>5. TypeOK /\ DisabledRests /\ [Next]_vars => DisabledRests'
    BY <1>2, <1>3
  <1>6. TypeOK /\ DisabledRests /\ [Next]_vars
          => [\A t \in Timers :
         (/\ dialog = NoDialog /\ entry[t].disabled
          /\ entry[t].state # StatePrepared)
                  => entry'[t].state # StatePrepared]_vars
    BY <1>2, <1>4
  <1> QED BY <1>1, <1>5, <1>6, TypeCorrect, PTL DEF Spec, DisabledNeverPrepared

=============================================================================
