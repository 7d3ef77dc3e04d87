------------------------- MODULE MemoryEventsProofs --------------------------
(***************************************************************************)
(* Theorems about the memory tools, for any number of threads, spaces,     *)
(* addresses and callbacks: what the mutex protects stays consistent.      *)
(***************************************************************************)
EXTENDS MemoryEvents, DataFacts

Places == {"idle", "lock", "find", "account", "record"}

\* In these places a thread holds the mutex.
Inside == {"find", "account", "record"}

LineType == [time : Nat, size : Nat]

EventType ==
  [op : {"allocate", "deallocate"}, space : Nat, ptr : Addresses, size : Sizes, time : Nat]
  \cup [op : {"push", "pop"}, time : Nat]

Types ==
  /\ tool \in Tools
  /\ pc \in [Threads -> Places]
  /\ call \in [Threads -> Calls \cup {Idle}]
  /\ m \in Threads \cup {NoThread}
  /\ clock \in Nat
  /\ time \in [Threads -> Nat]
  /\ space_i \in [Threads -> Nat]
  /\ space_name \in Seq(SpaceNames)
  /\ space_size \in [1 .. MaxSpaces -> Nat]
  /\ space_size_track \in [1 .. MaxSpaces -> Seq(LineType)]
  /\ events \in Seq(EventType)

\* The mutex excludes, and a thread inside is in a callback.
Exclusion ==
  /\ \A t \in Threads : pc[t] \in Inside <=> m = t
  /\ \A t \in Threads : call[t] = Idle <=> pc[t] = "idle"
  /\ \A t \in Threads : pc[t] \in {"find", "account"} => call[t] \in MemoryCalls

\* What a thread found in the table is still true when it uses it.
FoundHolds ==
  \A t \in Threads : pc[t] = "account" =>
    /\ space_i[t] \in 1 .. num_spaces + 1
    /\ \A s \in 1 .. num_spaces : space_name[s] = call[t].space <=> s = space_i[t]

\* The thread inside has the latest reading; nothing is written with a later one.
ClockAhead ==
  /\ \A t \in Threads : time[t] <= clock
  /\ \A i \in DOMAIN events : events[i].time <= clock
  /\ \A s \in 1 .. MaxSpaces : \A i \in DOMAIN space_size_track[s] :
       space_size_track[s][i].time <= clock
  /\ \A t \in Threads : pc[t] \in Inside =>
       \A i \in DOMAIN events : events[i].time < time[t]
  /\ \A t \in Threads : pc[t] \in {"find", "account"} =>
       \A s \in 1 .. MaxSpaces : \A i \in DOMAIN space_size_track[s] :
         space_size_track[s][i].time < time[t]

Ordered ==
  /\ InTimeOrder(events)
  /\ \A s \in 1 .. MaxSpaces : InTimeOrder(space_size_track[s])

IInv == Types /\ Exclusion /\ SpacesDistinct /\ FoundHolds /\ ClockAhead /\ Ordered

-----------------------------------------------------------------------------
(* Lemmas                                                                  *)

\* A line that is later than all before it keeps a file in order.
LEMMA AppendInOrder ==
  ASSUME NEW S, NEW lines \in Seq(S), NEW line \in S,
         \A x \in S : x.time \in Nat,
         InTimeOrder(lines),
         \A i \in DOMAIN lines : lines[i].time < line.time
  PROVE  InTimeOrder(Append(lines, line))
<1> DEFINE longer == Append(lines, line)
<1> SUFFICES ASSUME NEW i \in DOMAIN longer, NEW j \in DOMAIN longer, i < j
             PROVE  longer[i].time < longer[j].time
  BY DEF InTimeOrder
<1>1. /\ Len(lines) \in Nat /\ DOMAIN lines = 1 .. Len(lines)
      /\ DOMAIN longer = 1 .. Len(lines) + 1
  OBVIOUS
<1>2. i \in DOMAIN lines /\ longer[i] = lines[i]
  BY <1>1
<1>3. CASE j \in DOMAIN lines
  <2>1. longer[j] = lines[j]
    BY <1>1, <1>3
  <2> QED BY <1>2, <1>3, <2>1 DEF InTimeOrder
<1>4. CASE j = Len(lines) + 1
  <2>1. longer[j] = line
    BY <1>4
  <2> QED BY <1>2, <2>1
<1> QED BY <1>1, <1>3, <1>4

\* Spaces without a name in common do not overrun the table.
LEMMA TableLargeEnough ==
  ASSUME NEW names \in Seq(SpaceNames),
         \A i, j \in 1 .. Len(names) : names[i] = names[j] => i = j
  PROVE  Len(names) <= MaxSpaces
<1> SUFFICES ASSUME Len(names) > MaxSpaces
             PROVE  FALSE
  BY MemoryEventsAssumption
<1>1. /\ Len(names) \in Nat
      /\ names \in [1 .. Len(names) -> SpaceNames]
  OBVIOUS
<1>2. IsFiniteSet(1 .. Len(names)) /\ Cardinality(1 .. Len(names)) = Len(names)
  BY <1>1, FS_Interval
<1>3. Cardinality(SpaceNames) \in Nat
  BY MemoryEventsAssumption, FS_CardinalityType
<1>4. Cardinality(SpaceNames) < Cardinality(1 .. Len(names))
  BY <1>1, <1>2, <1>3, MemoryEventsAssumption
<1>5. \E i, j \in 1 .. Len(names) : i # j /\ names[i] = names[j]
  BY <1>1, <1>2, <1>4, FS_PigeonHole, MemoryEventsAssumption
<1> QED BY <1>5

\* What the places of a thread say of its callback.
LEMMA CallFacts ==
  ASSUME Types, Exclusion, NEW t \in Threads, pc[t] \in {"find", "account"}
  PROVE  /\ call[t] \in MemoryCalls
         /\ call[t].op \in {"allocate", "deallocate"}
         /\ call[t].space \in SpaceNames
         /\ call[t].size \in Nat
BY MemoryEventsAssumption DEF Exclusion, MemoryCalls

\* A thread that accounts has found an entry of the table, or the one behind its
\* last.
LEMMA EntryInTable ==
  ASSUME IInv, NEW t \in Threads, pc[t] = "account"
  PROVE  space_i[t] \in 1 .. MaxSpaces
<1> USE DEF IInv
<1>1. CASE space_i[t] \in 1 .. num_spaces
  <2>1. num_spaces <= MaxSpaces
    BY TableLargeEnough DEF Types, SpacesDistinct, num_spaces
  <2> QED BY <1>1, <2>1, MemoryEventsAssumption DEF Types, num_spaces
<1>2. CASE space_i[t] = num_spaces + 1
  <2> DEFINE names == Append(space_name, call[t].space)
  <2>1. call[t].space \in SpaceNames
    BY CallFacts
  <2>2. names \in Seq(SpaceNames) /\ Len(names) = num_spaces + 1
    BY <2>1 DEF Types, num_spaces
  <2>3. \A s \in 1 .. num_spaces : space_name[s] # call[t].space
    BY <1>2 DEF FoundHolds, Types, num_spaces
  <2>4. \A i, j \in 1 .. Len(names) : names[i] = names[j] => i = j
    BY <2>2, <2>3 DEF Types, SpacesDistinct, num_spaces
  <2>5. num_spaces + 1 <= MaxSpaces
    BY <2>2, <2>4, TableLargeEnough
  <2> QED BY <1>2, <2>5, MemoryEventsAssumption DEF Types, num_spaces
<1> QED BY <1>1, <1>2 DEF FoundHolds, Types, num_spaces

-----------------------------------------------------------------------------

\* No thread is in a callback at first.
LEMMA InitIInv == Init => IInv
<1> SUFFICES ASSUME Init PROVE IInv
  OBVIOUS
<1>1. Types
  BY MemoryEventsAssumption DEF Init, Types, Places, Tools
<1>2. Exclusion
  BY MemoryEventsAssumption, IdleAssumption DEF Init, Exclusion, Inside
<1>3. SpacesDistinct /\ FoundHolds
  BY DEF Init, SpacesDistinct, FoundHolds, num_spaces
<1>4. ClockAhead
  BY MemoryEventsAssumption DEF Init, ClockAhead, Inside
<1>5. Ordered
  BY MemoryEventsAssumption DEF Init, Ordered, InTimeOrder
<1> QED BY <1>1, <1>2, <1>3, <1>4, <1>5 DEF IInv

\* Entering a callback moves no tool state.
LEMMA EnterIInv ==
  ASSUME IInv, NEW t \in Threads, NEW c \in Calls, Enter(t, c)
  PROVE  IInv'
<1> USE DEF IInv
<1>1. /\ pc' = [pc EXCEPT ![t] = "lock"]
      /\ call' = [call EXCEPT ![t] = c]
      /\ UNCHANGED <<tool, m, clock, time, space_i, tables, events, files, finalized>>
  BY DEF Enter
<1>2. Types'
  BY <1>1 DEF Types, Places, tables
<1>3. Exclusion'
  BY <1>1, IdleAssumption DEF Enter, Exclusion, Types, Inside
<1>4. SpacesDistinct'
  BY <1>1 DEF SpacesDistinct, num_spaces, tables
<1>5. FoundHolds'
  BY <1>1 DEF FoundHolds, Types, num_spaces, tables
<1>6. ClockAhead'
  BY <1>1 DEF ClockAhead, Types, Inside, tables
<1>7. Ordered'
  BY <1>1 DEF Ordered, InTimeOrder, tables
<1> QED BY <1>2, <1>3, <1>4, <1>5, <1>6, <1>7

\* The reading a thread takes under the mutex is later than every line.
LEMMA LockIInv ==
  ASSUME IInv, NEW t \in Threads, Lock(t)
  PROVE  IInv'
<1> USE DEF IInv
<1> DEFINE next == IF call[t] \in MemoryCalls THEN "find" ELSE "record"
<1>1. /\ pc[t] = "lock" /\ m = NoThread
      /\ pc' = [pc EXCEPT ![t] = next]
      /\ m' = t
      /\ clock' = clock + 1
      /\ time' = [time EXCEPT ![t] = clock + 1]
      /\ UNCHANGED <<tool, call, space_i, tables, events, files, host>>
  BY DEF Lock, LockIsFree
<1>2. Types'
  BY <1>1 DEF Types, Places, tables
<1>3. \A u \in Threads : pc[u] \notin Inside
  BY <1>1, MemoryEventsAssumption DEF Exclusion
<1>4. Exclusion'
  BY <1>1, <1>3 DEF Exclusion, Types, Inside
<1>5. SpacesDistinct'
  BY <1>1 DEF SpacesDistinct, num_spaces, tables
<1>6. FoundHolds'
  BY <1>1, <1>3 DEF FoundHolds, Types, num_spaces, tables
<1>7. ClockAhead'
  <2>1. \A u \in Threads : time'[u] <= clock'
    BY <1>1 DEF ClockAhead, Types
  <2>2. \A i \in DOMAIN events : events[i].time \in Nat /\ events[i].time < clock + 1
    BY DEF ClockAhead, Types, EventType
  <2>3. \A s \in 1 .. MaxSpaces : \A i \in DOMAIN space_size_track[s] :
          space_size_track[s][i].time \in Nat /\ space_size_track[s][i].time < clock + 1
    <3> TAKE s \in 1 .. MaxSpaces
    <3>1. space_size_track[s] \in Seq(LineType)
      BY DEF Types
    <3> TAKE i \in DOMAIN space_size_track[s]
    <3>2. space_size_track[s][i] \in LineType
      BY <3>1
    <3> QED BY <3>2 DEF ClockAhead, Types, LineType
  <2>4. \A u \in Threads : pc'[u] \in Inside => u = t /\ time'[u] = clock + 1
    BY <1>1, <1>3 DEF Types
  <2>5. /\ events' = events /\ space_size_track' = space_size_track /\ clock' = clock + 1
    BY <1>1 DEF tables
  <2>6. \A i \in DOMAIN events' : events'[i].time <= clock'
    BY <2>2, <2>5 DEF Types
  <2>7. \A s \in 1 .. MaxSpaces : \A i \in DOMAIN space_size_track'[s] :
          space_size_track'[s][i].time <= clock'
    BY <2>3, <2>5 DEF Types
  <2>8. \A u \in Threads : pc'[u] \in Inside =>
          \A i \in DOMAIN events' : events'[i].time < time'[u]
    BY <2>2, <2>4, <2>5
  <2>9. \A u \in Threads : pc'[u] \in {"find", "account"} =>
          \A s \in 1 .. MaxSpaces : \A i \in DOMAIN space_size_track'[s] :
            space_size_track'[s][i].time < time'[u]
    BY <2>3, <2>4, <2>5 DEF Inside
  <2> QED BY <2>1, <2>6, <2>7, <2>8, <2>9 DEF ClockAhead
<1>8. Ordered'
  BY <1>1 DEF Ordered, InTimeOrder, tables
<1> QED BY <1>2, <1>4, <1>5, <1>6, <1>7, <1>8

\* The space found is the only one of its name.
LEMMA FindIInv ==
  ASSUME IInv, NEW t \in Threads, FindSpace(t)
  PROVE  IInv'
<1> USE DEF IInv
<1> DEFINE found == IF Named(call[t].space) = {} THEN num_spaces + 1
                    ELSE Max(Named(call[t].space))
<1>1. /\ pc[t] = "find"
      /\ space_i' = [space_i EXCEPT ![t] = found]
      /\ pc' = [pc EXCEPT ![t] = "account"]
      /\ UNCHANGED <<tool, call, m, clock, time, tables, events, files, host>>
  BY DEF FindSpace
<1>2. num_spaces \in Nat
  BY DEF Types, num_spaces
<1>3. /\ found \in 1 .. num_spaces + 1
      /\ \A s \in 1 .. num_spaces : space_name[s] = call[t].space <=> s = found
  <2>1. CASE Named(call[t].space) = {}
    BY <1>2, <2>1 DEF Named
  <2>2. CASE Named(call[t].space) # {}
    <3>1. PICK s \in 1 .. num_spaces : space_name[s] = call[t].space
      BY <2>2 DEF Named
    <3>2. Named(call[t].space) = {s}
      BY <3>1 DEF Named, SpacesDistinct
    <3>3. Max({s}) = s
      BY <1>2 DEF Max
    <3> QED BY <1>2, <2>2, <3>1, <3>2, <3>3 DEF SpacesDistinct
  <2> QED BY <2>1, <2>2
<1> HIDE DEF found
<1>4. Types'
  BY <1>1, <1>2, <1>3 DEF Types, Places, tables
<1>5. Exclusion'
  BY <1>1 DEF Exclusion, Types, Inside
<1>6. SpacesDistinct'
  BY <1>1 DEF SpacesDistinct, num_spaces, tables
<1>7. FoundHolds'
  BY <1>1, <1>3 DEF FoundHolds, Types, num_spaces, tables
<1>8. ClockAhead'
  BY <1>1 DEF ClockAhead, Types, Inside, tables
<1>9. Ordered'
  BY <1>1 DEF Ordered, InTimeOrder, tables
<1> QED BY <1>4, <1>5, <1>6, <1>7, <1>8, <1>9

\* Before a name is added, the thread that adds it has found that it is not there;
\* and what is tracked is written with the thread's reading, the latest.
LEMMA AccountIInv ==
  ASSUME IInv, NEW t \in Threads, Account(t)
  PROVE  IInv'
<1> USE DEF IInv
<1> DEFINE e == space_i[t]
           size == NewSize(space_size[e], call[t])
           line == [time |-> time[t], size |-> size]
<1>1. /\ pc[t] = "account" /\ m = t
      /\ pc' = [pc EXCEPT ![t] = "record"]
      /\ space_name' = IF e = num_spaces + 1 THEN Append(space_name, call[t].space)
                       ELSE space_name
      /\ space_size' = [space_size EXCEPT ![e] = size]
      /\ UNCHANGED <<tool, call, m, clock, time, space_i, events, files, host>>
  BY DEF Account, Exclusion, Inside
<1>2. \/ space_size_track' = [space_size_track EXCEPT ![e] = Append(@, line)]
      \/ space_size_track' = space_size_track
  BY DEF Account
<1>3. /\ e \in 1 .. MaxSpaces
      /\ call[t].space \in SpaceNames
      /\ num_spaces \in Nat
      /\ e \in 1 .. num_spaces + 1
  BY <1>1, EntryInTable, CallFacts DEF Types, num_spaces, FoundHolds
<1>4. size \in Nat
  <2>1. space_size[e] \in Nat
    BY <1>3 DEF Types
  <2>2. call[t].size \in Nat /\ call[t].op \in {"allocate", "deallocate"}
    BY <1>1, CallFacts
  <2>3. CASE call[t].op = "allocate"
    <3>1. size = space_size[e] + call[t].size
      BY <2>3 DEF NewSize
    <3> QED BY <2>1, <2>2, <3>1
  <2>4. CASE call[t].op = "deallocate"
    <3>1. size = IF space_size[e] >= call[t].size THEN space_size[e] - call[t].size
                 ELSE space_size[e]
      BY <2>4 DEF NewSize
    <3> QED BY <2>1, <2>2, <3>1
  <2> QED BY <2>2, <2>3, <2>4
<1>5. line \in LineType
  BY <1>4 DEF Types, LineType
<1>6. \A s \in 1 .. MaxSpaces : space_size_track[s] \in Seq(LineType)
  BY DEF Types
<1>7. /\ space_size_track' \in [1 .. MaxSpaces -> Seq(LineType)]
      /\ \A s \in 1 .. MaxSpaces :
           \/ space_size_track'[s] = space_size_track[s]
           \/ s = e /\ space_size_track'[s] = Append(space_size_track[s], line)
  <2> HIDE DEF e, line
  <2>1. CASE space_size_track' = [space_size_track EXCEPT ![e] = Append(@, line)]
    BY <1>3, <1>5, <1>6, <2>1 DEF Types
  <2>2. CASE space_size_track' = space_size_track
    BY <2>2 DEF Types
  <2> QED BY <1>2, <2>1, <2>2
<1> HIDE DEF size, line
<1>8. Types'
  <2>1. space_name' \in Seq(SpaceNames)
    BY <1>1, <1>3 DEF Types
  <2>2. space_size' \in [1 .. MaxSpaces -> Nat]
    BY <1>1, <1>3, <1>4 DEF Types
  <2> QED BY <1>1, <1>7, <2>1, <2>2 DEF Types, Places
<1>9. Exclusion'
  BY <1>1 DEF Exclusion, Types, Inside
<1>10. SpacesDistinct'
  <2>1. CASE e = num_spaces + 1
    <3>1. \A s \in 1 .. num_spaces : space_name[s] # call[t].space
      BY <1>1, <1>3, <2>1 DEF FoundHolds
    <3>2. /\ num_spaces' = num_spaces + 1
          /\ \A s \in 1 .. num_spaces : space_name'[s] = space_name[s]
          /\ space_name'[num_spaces + 1] = call[t].space
      BY <1>1, <1>3, <2>1 DEF num_spaces, Types
    <3> QED BY <1>3, <3>1, <3>2 DEF SpacesDistinct
  <2>2. CASE e # num_spaces + 1
    BY <1>1, <2>2 DEF SpacesDistinct, num_spaces
  <2> QED BY <2>1, <2>2
<1>11. FoundHolds'
  <2>1. \A u \in Threads : pc'[u] # "account"
    BY <1>1 DEF Exclusion, Types, Inside
  <2> QED BY <2>1 DEF FoundHolds
<1>12. \A i \in DOMAIN space_size_track[e] : space_size_track[e][i].time < time[t]
  BY <1>1, <1>3 DEF ClockAhead
<1>13. ClockAhead'
  <2>1. \A u \in Threads : pc'[u] \notin {"find", "account"}
    BY <1>1 DEF Exclusion, Types, Inside
  <2>2. \A u \in Threads : pc'[u] \in Inside => pc[u] \in Inside
    BY <1>1 DEF Types, Inside
  <2>3. ASSUME NEW s \in 1 .. MaxSpaces, NEW i \in DOMAIN space_size_track'[s]
        PROVE  space_size_track'[s][i].time <= clock
    <3>1. CASE space_size_track'[s] = space_size_track[s]
      BY <3>1 DEF ClockAhead
    <3>2. CASE space_size_track'[s] = Append(space_size_track[s], line)
      <4>1. line.time <= clock
        BY DEF line, ClockAhead
      <4>2. \/ i \in DOMAIN space_size_track[s]
               /\ space_size_track'[s][i] = space_size_track[s][i]
            \/ space_size_track'[s][i] = line
        BY <1>5, <1>6, <3>2
      <4> QED BY <4>1, <4>2 DEF ClockAhead
    <3> QED BY <1>7, <3>1, <3>2
  <2> QED BY <1>1, <2>1, <2>2, <2>3 DEF ClockAhead
<1>14. Ordered'
  <2>1. ASSUME NEW s \in 1 .. MaxSpaces PROVE InTimeOrder(space_size_track'[s])
    <3>1. CASE space_size_track'[s] = space_size_track[s]
      BY <3>1 DEF Ordered
    <3>2. CASE s = e /\ space_size_track'[s] = Append(space_size_track[s], line)
      <4>1. line.time = time[t]
        BY DEF line
      <4>2. InTimeOrder(space_size_track[s])
        BY DEF Ordered
      <4>3. \A x \in LineType : x.time \in Nat
        BY DEF LineType
      <4> QED BY <1>5, <1>6, <1>12, <3>2, <4>1, <4>2, <4>3, AppendInOrder
    <3> QED BY <1>7, <3>1, <3>2
  <2> QED BY <1>1, <2>1 DEF Ordered, InTimeOrder
<1> QED BY <1>8, <1>9, <1>10, <1>11, <1>13, <1>14

\* The event is written with the thread's reading as well.
LEMMA RecordIInv ==
  ASSUME IInv, NEW t \in Threads, Record(t)
  PROVE  IInv'
<1> USE DEF IInv
<1>1. /\ pc[t] = "record" /\ m = t
      /\ pc' = [pc EXCEPT ![t] = "idle"]
      /\ call' = [call EXCEPT ![t] = Idle]
      /\ m' = NoThread
      /\ events' = Append(events, EventOf(t)) \/ events' = events
      /\ UNCHANGED <<tool, clock, time, space_i, tables, files>>
  BY DEF Record, Unlocked, Exclusion, Inside
<1>2. EventOf(t) \in EventType /\ EventOf(t).time = time[t]
  <2>1. call[t] \in Calls
    BY <1>1 DEF Exclusion, Types
  <2>2. CASE call[t] \in MemoryCalls
    BY <2>2 DEF EventOf, MemoryCalls, EventType, Types
  <2>3. CASE call[t] \notin MemoryCalls
    BY <2>1, <2>3 DEF EventOf, Calls, RegionCalls, EventType, Types
  <2> QED BY <2>2, <2>3
<1> DEFINE event == EventOf(t)
<1> HIDE DEF event
<1>3. events \in Seq(EventType) /\ event \in EventType /\ event.time = time[t]
  BY <1>2 DEF Types, event
<1>4. events' = Append(events, event) \/ events' = events
  BY <1>1 DEF event
<1>5. events' \in Seq(EventType)
  BY <1>3, <1>4
<1>6. Types'
  BY <1>1, <1>5 DEF Types, Places, tables
<1>7. Exclusion'
  BY <1>1, MemoryEventsAssumption DEF Exclusion, Types, Inside
<1>8. SpacesDistinct'
  BY <1>1 DEF SpacesDistinct, num_spaces, tables
<1>9. FoundHolds'
  BY <1>1 DEF FoundHolds, Types, num_spaces, tables
<1>10. \A i \in DOMAIN events' :
        \/ i \in DOMAIN events /\ events'[i] = events[i]
        \/ events'[i].time = time[t]
  BY <1>3, <1>4
<1>11. \A u \in Threads : pc'[u] \notin Inside
  BY <1>1 DEF Exclusion, Types, Inside
<1>12. ClockAhead'
  BY <1>1, <1>10, <1>11 DEF ClockAhead, Inside, tables
<1>13. InTimeOrder(events')
  <2>1. \A x \in EventType : x.time \in Nat
    BY DEF EventType
  <2>2. \A i \in DOMAIN events : events[i].time < EventOf(t).time
    BY <1>1, <1>2 DEF ClockAhead, Inside
  <2>3. events \in Seq(EventType) /\ InTimeOrder(events)
    BY DEF Types, Ordered
  <2> QED BY <1>1, <1>2, <2>1, <2>2, <2>3, AppendInOrder
<1>14. Ordered'
  BY <1>1, <1>13 DEF Ordered, InTimeOrder, tables
<1> QED BY <1>6, <1>7, <1>8, <1>9, <1>12, <1>14

\* The invariant reads no other variables.
LEMMA StutterIInv ==
  ASSUME IInv, UNCHANGED <<tool, pc, call, m, clock, time, space_i, tables, events>>
  PROVE  IInv'
BY DEF IInv, Types, Exclusion, SpacesDistinct, FoundHolds, ClockAhead, Ordered, InTimeOrder,
       num_spaces, tables

\* IInv is inductive.
LEMMA IInvAlways == Spec => []IInv
<1>1. IInv /\ [Next]_vars => IInv'
  <2> SUFFICES ASSUME IInv, [Next]_vars PROVE IInv'
    OBVIOUS
  <2>1. CASE Finalize
    BY <2>1, StutterIInv DEF Finalize
  <2>2. CASE UNCHANGED vars
    BY <2>2, StutterIInv DEF vars
  <2> QED BY <2>1, <2>2, EnterIInv, LockIInv, FindIInv, AccountIInv, RecordIInv DEF Next
<1> QED BY InitIInv, <1>1, PTL DEF Spec

-----------------------------------------------------------------------------
(* Theorems                                                                *)

\* The variables keep their types and the table is never overrun
\* (kp_memory_events.cpp:20-30, 102-109).
THEOREM TypeCorrect == Spec => []MemTypeOK
<1>1. IInv => MemTypeOK
  <2> SUFFICES ASSUME IInv PROVE MemTypeOK
    OBVIOUS
  <2>1. num_spaces <= MaxSpaces
    BY TableLargeEnough DEF IInv, Types, SpacesDistinct, num_spaces
  <2> QED BY <2>1 DEF IInv, Types, Exclusion, MemTypeOK
<1> QED BY <1>1, IInvAlways, PTL

\* However many threads are the first to name a space, it gets one entry
\* (kp_memory_events.cpp:102-109).
THEOREM OneEntryPerSpace == Spec => []SpacesDistinct
<1>1. IInv => SpacesDistinct
  BY DEF IInv
<1> QED BY <1>1, IInvAlways, PTL

\* Both files are in the order of time, however the threads race for the mutex
\* (kp_memory_events.cpp:98-100).
THEOREM FilesInTimeOrder == Spec => []LinesInTimeOrder
<1>1. IInv => LinesInTimeOrder
  <2> SUFFICES ASSUME IInv PROVE LinesInTimeOrder
    OBVIOUS
  <2>1. num_spaces <= MaxSpaces
    BY TableLargeEnough DEF IInv, Types, SpacesDistinct, num_spaces
  <2>2. num_spaces \in Nat
    BY DEF IInv, Types, num_spaces
  <2> QED BY <2>1, <2>2, MemoryEventsAssumption DEF IInv, Ordered, LinesInTimeOrder
<1> QED BY <1>1, IInvAlways, PTL

-----------------------------------------------------------------------------
(* The memory tools implement MemoryAccount: every callback takes effect   *)
(* at one moment, in Account for memory and in Lock for a region.          *)

\* The entries behind the last space have not been used.
Unused ==
  \A s \in num_spaces + 1 .. MaxSpaces :
    space_size[s] = 0 /\ space_size_track[s] = << >>

\* The lines in the log, and the one to be written next, are about known spaces.
SpacesKnown ==
  /\ \A i \in DOMAIN events : events[i].op \in {"allocate", "deallocate"} =>
       events[i].space \in 1 .. num_spaces
  /\ \A t \in Threads : pc[t] = "record" /\ call[t] \in MemoryCalls =>
       space_i[t] \in 1 .. num_spaces /\ space_name[space_i[t]] = call[t].space

\* Every file has a high water mark, which the size does not exceed.
Marked ==
  \A s \in 1 .. MaxSpaces :
    \E x \in {0} \cup SizesOf(space_size_track[s]) :
      /\ \A y \in {0} \cup SizesOf(space_size_track[s]) : x >= y
      /\ space_size[s] <= x

RInv == IInv /\ Unused /\ SpacesKnown /\ Marked

\* The high water mark of a file is the largest size in it, or 0.
LEMMA HighWaterIs ==
  ASSUME NEW track \in Seq(LineType), NEW x \in {0} \cup SizesOf(track),
         \A y \in {0} \cup SizesOf(track) : x >= y
  PROVE  HighWater(track) = x
<1> DEFINE S == {0} \cup SizesOf(track)
<1>1. S \subseteq Nat
  <2>1. \A i \in DOMAIN track : track[i] \in LineType
    OBVIOUS
  <2> QED BY <2>1 DEF SizesOf, LineType
<1>2. \A z \in S : (\A y \in S : z >= y) => z = x
  BY <1>1
<1>3. Max(S) = x
  BY <1>2 DEF Max
<1> QED BY <1>3 DEF HighWater

\* What a new line does to the high water mark.
LEMMA HighWaterAppend ==
  ASSUME NEW track \in Seq(LineType), NEW line \in LineType,
         NEW x \in {0} \cup SizesOf(track),
         \A y \in {0} \cup SizesOf(track) : x >= y
  PROVE  LET z == IF line.size > x THEN line.size ELSE x
         IN /\ z \in {0} \cup SizesOf(Append(track, line))
            /\ \A y \in {0} \cup SizesOf(Append(track, line)) : z >= y
            /\ HighWater(Append(track, line)) = z
<1> DEFINE longer == Append(track, line)
           z == IF line.size > x THEN line.size ELSE x
<1>1. /\ longer \in Seq(LineType)
      /\ DOMAIN longer = DOMAIN track \cup {Len(track) + 1}
      /\ \A i \in DOMAIN track : longer[i] = track[i]
      /\ longer[Len(track) + 1] = line
  OBVIOUS
<1>2. SizesOf(longer) = SizesOf(track) \cup {line.size}
  BY <1>1 DEF SizesOf
<1>3. {0} \cup SizesOf(track) \subseteq Nat /\ line.size \in Nat
  <2>1. \A i \in DOMAIN track : track[i] \in LineType
    OBVIOUS
  <2> QED BY <2>1 DEF SizesOf, LineType
<1>4. /\ z \in {0} \cup SizesOf(longer)
      /\ \A y \in {0} \cup SizesOf(longer) : z >= y
  BY <1>2, <1>3
<1>5. HighWater(longer) = z
  BY <1>1, <1>4, HighWaterIs
<1> QED BY <1>4, <1>5

\* The entry of a name is the one the name is in.
LEMMA EntryIs ==
  ASSUME SpacesDistinct, NEW s \in 1 .. num_spaces
  PROVE  Entry(space_name[s]) = s
BY DEF SpacesDistinct, Entry

\* A step that leaves the table and the lines alone leaves the account alone.
LEMMA AccountKept ==
  ASSUME UNCHANGED <<tables, events>>
  PROVE  Usage' = Usage /\ Peak' = Peak /\ Written' = Written
BY DEF Usage, Peak, Written, SpacesNamed, Entry, CallOf, num_spaces, tables

-----------------------------------------------------------------------------

\* The tables start empty.
LEMMA InitRInv == Init => RInv
<1> SUFFICES ASSUME Init PROVE RInv
  OBVIOUS
<1>1. Unused /\ SpacesKnown
  BY MemoryEventsAssumption DEF Init, Unused, SpacesKnown, num_spaces
<1>2. \A s \in 1 .. MaxSpaces : SizesOf(space_size_track[s]) = {}
  BY MemoryEventsAssumption DEF Init, SizesOf
<1>3. Marked
  BY <1>2 DEF Init, Marked
<1> QED BY InitIInv, <1>1, <1>3 DEF RInv

\* So does the abstract account.
LEMMA InitRefines == Init => Atomic!Init
<1> SUFFICES ASSUME Init PROVE Atomic!Init
  OBVIOUS
<1>1. Doing = [t \in Threads |-> Idle]
  BY DEF Init, Doing
<1>2. SpacesNamed = {}
  BY DEF Init, SpacesNamed, num_spaces
<1>3. Usage = EmptyMap /\ Peak = EmptyMap
  BY <1>2 DEF Usage, Peak, EmptyMap
<1>4. LogNow = << >>
  BY DEF Init, LogNow, Written
<1>5. files = EmptyMap
  BY DEF Init
<1>6. (tool = "memory-events") \in BOOLEAN
  OBVIOUS
<1> QED BY <1>1, <1>3, <1>4, <1>5, <1>6 DEF Atomic!Init, Atomic!EmptyMap, EmptyMap

\* A call starts in the account when it starts in the tool.
LEMMA EnterRefines ==
  ASSUME RInv, NEW t \in Threads, NEW c \in Calls, Enter(t, c)
  PROVE  RInv' /\ Atomic!Enter(t, c)
<1> USE DEF RInv
<1>1. /\ pc[t] = "idle" /\ call[t] = Idle
      /\ pc' = [pc EXCEPT ![t] = "lock"]
      /\ call' = [call EXCEPT ![t] = c]
      /\ UNCHANGED <<tool, m, tables, events, files>>
  BY DEF Enter, IInv, Exclusion
<1>2. pc \in [Threads -> Places] /\ call \in [Threads -> Calls \cup {Idle}]
  BY DEF IInv, Types
<1>3. Unused' /\ Marked'
  BY <1>1 DEF Unused, Marked, num_spaces, tables
<1>4. SpacesKnown'
  BY <1>1, <1>2 DEF SpacesKnown, Enter, num_spaces, tables
<1>5. Doing[t] = Idle /\ Doing' = [Doing EXCEPT ![t] = c]
  BY <1>1, <1>2 DEF Doing
<1>6. LogNow' = LogNow
  <2>1. m # t
    BY <1>1 DEF IInv, Exclusion, Inside
  <2>2. m # NoThread => m \in Threads /\ pc'[m] = pc[m] /\ call'[m] = call[m]
    BY <1>1, <1>2, <2>1 DEF IInv, Types
  <2> QED BY <1>1, <2>2, AccountKept DEF LogNow
<1>7. Atomic!Enter(t, c)
  BY <1>1, <1>5, <1>6, AccountKept DEF Atomic!Enter, Atomic!account
<1> QED BY <1>3, <1>4, <1>7, EnterIInv

\* What the abstract account sees of a step: nothing.
AccountStutters ==
  UNCHANGED <<Doing, tool = "memory-events", Usage, Peak, LogNow, files>>

\* A region takes effect when it has the mutex; memory does not yet.
LEMMA LockRefines ==
  ASSUME RInv, NEW t \in Threads, Lock(t)
  PROVE  RInv' /\ (Atomic!Effect(t) \/ AccountStutters)
<1> USE DEF RInv
<1> DEFINE next == IF call[t] \in MemoryCalls THEN "find" ELSE "record"
<1>1. /\ pc[t] = "lock" /\ m = NoThread /\ m' = t
      /\ pc' = [pc EXCEPT ![t] = next]
      /\ UNCHANGED <<tool, call, space_i, tables, events, files, host>>
  BY DEF Lock, LockIsFree
<1>2. pc \in [Threads -> Places] /\ call[t] \in Calls
  BY <1>1 DEF IInv, Types, Exclusion
<1>3. Unused' /\ Marked'
  BY <1>1 DEF Unused, Marked, num_spaces, tables
<1>4. SpacesKnown'
  BY <1>1, <1>2 DEF SpacesKnown, num_spaces, tables
<1>5. LogNow = Written /\ t # NoThread
  BY <1>1, MemoryEventsAssumption DEF LogNow
<1>6. Usage' = Usage /\ Peak' = Peak /\ Written' = Written
  BY <1>1, AccountKept
<1>7. CASE call[t] \in MemoryCalls
  <2>1. pc'[t] = "find" /\ Doing' = Doing
    BY <1>1, <1>2, <1>7 DEF Doing
  <2>2. LogNow' = LogNow
    BY <1>1, <1>5, <1>6, <2>1 DEF LogNow
  <2> QED BY <1>1, <1>3, <1>4, <1>6, <2>1, <2>2, LockIInv DEF AccountStutters
<1>8. CASE call[t] \notin MemoryCalls
  <2>1. pc'[t] = "record" /\ Doing[t] = call[t] /\ Doing' = [Doing EXCEPT ![t] = Recorded]
    BY <1>1, <1>2, <1>8 DEF Doing
  <2>2. LogNow' = IF tool = "memory-events" THEN Append(LogNow, Doing[t]) ELSE LogNow
    BY <1>1, <1>5, <1>6, <2>1 DEF LogNow
  <2>3. ~ Atomic!MovesMemory(Doing[t])
    BY <1>2, <1>8, <2>1 DEF Calls, RegionCalls, Atomic!MovesMemory
  <2>4. Atomic!Take(Doing[t])
    BY <1>6, <2>3 DEF Atomic!Take
  <2>5. Doing[t] \in Calls
    BY <1>2, <2>1
  <2> QED BY <1>1, <1>3, <1>4, <2>1, <2>2, <2>4, <2>5, LockIInv DEF Atomic!Effect
<1> QED BY <1>7, <1>8

\* The search of the table is invisible to the account.
LEMMA FindRefines ==
  ASSUME RInv, NEW t \in Threads, FindSpace(t)
  PROVE  RInv' /\ AccountStutters
<1> USE DEF RInv
<1>1. /\ pc[t] = "find" /\ m = t
      /\ pc' = [pc EXCEPT ![t] = "account"]
      /\ UNCHANGED <<tool, call, m, tables, events, files>>
  BY DEF FindSpace, IInv, Exclusion, Inside
<1>2. pc \in [Threads -> Places] /\ space_i \in [Threads -> Nat]
  BY DEF IInv, Types
<1>3. Unused' /\ Marked'
  BY <1>1 DEF Unused, Marked, num_spaces, tables
<1>4. \A u \in Threads : pc'[u] # "record"
  BY <1>1, <1>2 DEF IInv, Exclusion, Inside
<1>5. SpacesKnown'
  BY <1>1, <1>4 DEF SpacesKnown, num_spaces, tables
<1>6. Doing' = Doing
  BY <1>1, <1>2 DEF Doing
<1>7. LogNow' = LogNow
  BY <1>1, <1>2, AccountKept DEF LogNow
<1> QED BY <1>1, <1>3, <1>5, <1>6, <1>7, FindIInv, AccountKept DEF AccountStutters

\* The entries of a table, by name, when the table is read after a step.
LEMMA EntriesAfter ==
  ASSUME SpacesDistinct'
  PROVE  \A s \in 1 .. num_spaces' : Entry(space_name[s])' = s
BY DEF SpacesDistinct, Entry

\* What a thread that accounts does to the entry it found, and to no other.
LEMMA AccountChanges ==
  ASSUME RInv, NEW t \in Threads, Account(t)
  PROVE  LET c == call[t]  s == space_i[t]
         IN /\ s \in 1 .. MaxSpaces /\ s \in 1 .. num_spaces'
            /\ num_spaces' = IF s = num_spaces + 1 THEN s ELSE num_spaces
            /\ \A i \in 1 .. num_spaces : space_name'[i] = space_name[i]
            /\ space_name'[s] = c.space
            /\ SpacesNamed' = SpacesNamed \cup {c.space}
            /\ \A i \in 1 .. num_spaces : i # s => space_name[i] # c.space
<1> USE DEF RInv, IInv
<1> DEFINE c == call[t]  s == space_i[t]
<1>1. pc[t] = "account"
  BY DEF Account
<1>2. /\ s \in 1 .. MaxSpaces
      /\ num_spaces \in Nat
      /\ s \in 1 .. num_spaces + 1
      /\ c.space \in SpaceNames
      /\ \A i \in 1 .. num_spaces : space_name[i] = c.space <=> i = s
  BY <1>1, EntryInTable, CallFacts DEF Types, num_spaces, FoundHolds
<1>3. space_name' = IF s = num_spaces + 1 THEN Append(space_name, c.space) ELSE space_name
  BY DEF Account
<1>4. /\ num_spaces' = IF s = num_spaces + 1 THEN s ELSE num_spaces
      /\ \A i \in 1 .. num_spaces : space_name'[i] = space_name[i]
      /\ space_name'[s] = c.space
  <2>1. CASE s = num_spaces + 1
    <3>1. /\ num_spaces' = num_spaces + 1
          /\ \A i \in 1 .. num_spaces : space_name'[i] = space_name[i]
          /\ space_name'[num_spaces + 1] = c.space
      BY <1>2, <1>3, <2>1 DEF Types, num_spaces
    <3> QED BY <1>2, <2>1, <3>1
  <2>2. CASE s # num_spaces + 1
    <3>1. space_name' = space_name /\ num_spaces' = num_spaces
      BY <1>3, <2>2 DEF num_spaces
    <3> HIDE DEF c, s
    <3>2. s \in 1 .. num_spaces
      BY <1>2, <2>2
    <3> QED BY <1>2, <2>2, <3>1, <3>2
  <2> QED BY <2>1, <2>2
<1> HIDE DEF c, s
<1>5. SpacesNamed' = SpacesNamed \cup {c.space}
  BY <1>2, <1>4 DEF SpacesNamed
<1> QED BY <1>2, <1>4, <1>5 DEF c, s

\* The high water mark of every entry is that of its lines, and not below its size.
LEMMA MarkedIs ==
  ASSUME RInv, NEW s \in 1 .. MaxSpaces
  PROVE  LET high == HighWater(space_size_track[s])
         IN /\ high \in {0} \cup SizesOf(space_size_track[s])
            /\ \A y \in {0} \cup SizesOf(space_size_track[s]) : high >= y
            /\ high \in Nat /\ space_size[s] <= high
<1>1. space_size_track[s] \in Seq(LineType)
  BY DEF RInv, IInv, Types
<1>2. PICK x \in {0} \cup SizesOf(space_size_track[s]) :
        /\ \A y \in {0} \cup SizesOf(space_size_track[s]) : x >= y
        /\ space_size[s] <= x
  BY DEF RInv, Marked
<1>3. HighWater(space_size_track[s]) = x
  BY <1>1, <1>2, HighWaterIs
<1>4. x \in Nat
  <2>1. \A i \in DOMAIN space_size_track[s] : space_size_track[s][i] \in LineType
    BY <1>1
  <2> QED BY <2>1 DEF SizesOf, LineType
<1> QED BY <1>2, <1>3, <1>4

\* What it does to the size and the high water mark of that entry: the same as
\* the account does by name.
LEMMA AccountSizes ==
  ASSUME RInv, NEW t \in Threads, Account(t)
  PROVE  LET c == call[t]  s == space_i[t]  high == HighWater(space_size_track[s])
             size == NewSize(space_size[s], c)
             line == [time |-> time[t], size |-> size]
         IN /\ size \in Nat /\ line \in LineType /\ high \in Nat
            /\ space_size_track'[s] \in {Append(space_size_track[s], line), space_size_track[s]}
            /\ HighWater(space_size_track'[s]) = IF size > high THEN size ELSE high
            /\ \E x \in {0} \cup SizesOf(space_size_track'[s]) :
                 /\ \A y \in {0} \cup SizesOf(space_size_track'[s]) : x >= y
                 /\ size <= x
<1> USE DEF RInv, IInv
<1> DEFINE c == call[t]  s == space_i[t]  track == space_size_track[s]  high == HighWater(track)
           size == NewSize(space_size[s], c)
           line == [time |-> time[t], size |-> size]
<1>1. pc[t] = "account"
  BY DEF Account
<1>2. /\ s \in 1 .. MaxSpaces
      /\ c.op \in {"allocate", "deallocate"} /\ c.size \in Nat
      /\ space_size[s] \in Nat /\ time[t] \in Nat
      /\ track \in Seq(LineType)
  BY <1>1, EntryInTable, CallFacts DEF Types
<1>3. /\ high \in {0} \cup SizesOf(track)
      /\ \A y \in {0} \cup SizesOf(track) : high >= y
      /\ high \in Nat /\ space_size[s] <= high
  BY <1>2, MarkedIs
<1>4. space_size_track' = IF IsTracked(c, space_size[s])
                          THEN [space_size_track EXCEPT ![s] = Append(@, line)]
                          ELSE space_size_track
  BY DEF Account
<1>5. space_size_track'[s] = IF IsTracked(c, space_size[s]) THEN Append(track, line) ELSE track
  BY <1>2, <1>4 DEF Types
<1>6. /\ size \in Nat
      /\ ~ IsTracked(c, space_size[s]) => size = space_size[s]
  <2>1. CASE c.op = "allocate"
    <3>1. size = space_size[s] + c.size
      BY <2>1 DEF NewSize
    <3> QED BY <1>2, <2>1, <3>1 DEF IsTracked
  <2>2. CASE c.op = "deallocate"
    <3>1. size = IF space_size[s] >= c.size THEN space_size[s] - c.size ELSE space_size[s]
      BY <2>2 DEF NewSize
    <3> QED BY <1>2, <2>2, <3>1 DEF IsTracked
  <2> QED BY <1>2, <2>1, <2>2
<1>7. line \in LineType /\ line.size = size
  BY <1>2, <1>6 DEF LineType
<1> HIDE DEF c, s, track, high, size, line
<1> DEFINE new == space_size_track'[s]
           z == IF size > high THEN size ELSE high
<1>8. new \in {Append(track, line), track}
  BY <1>5
<1>9. /\ HighWater(new) = z
      /\ z \in {0} \cup SizesOf(new)
      /\ \A y \in {0} \cup SizesOf(new) : z >= y
  <2>1. CASE IsTracked(c, space_size[s])
    BY <1>2, <1>3, <1>5, <1>7, <2>1, HighWaterAppend
  <2>2. CASE ~ IsTracked(c, space_size[s])
    <3>1. z = high /\ new = track
      BY <1>2, <1>3, <1>5, <1>6, <2>2
    <3> QED BY <1>3, <3>1 DEF high
  <2> QED BY <2>1, <2>2
<1>10. size <= z
  BY <1>3, <1>6
<1> QED BY <1>3, <1>6, <1>7, <1>8, <1>9, <1>10 DEF c, s, track, high, size, line

\* A memory callback takes effect when the table is changed.
LEMMA AccountRefines ==
  ASSUME RInv, NEW t \in Threads, Account(t)
  PROVE  RInv' /\ Atomic!Effect(t)
<1> DEFINE c == call[t]  s == space_i[t]  high == HighWater(space_size_track[s])
           size == NewSize(space_size[s], c)
           line == [time |-> time[t], size |-> size]
<1>1. /\ pc[t] = "account" /\ m = t
      /\ pc' = [pc EXCEPT ![t] = "record"]
      /\ space_size' = [space_size EXCEPT ![s] = size]
      /\ UNCHANGED <<tool, call, m, space_i, events, files>>
  BY DEF Account, RInv, IInv, Exclusion, Inside
<1>2. space_size_track' = IF IsTracked(c, space_size[s])
                          THEN [space_size_track EXCEPT ![s] = Append(@, line)]
                          ELSE space_size_track
  BY DEF Account
<1>3. /\ pc \in [Threads -> Places] /\ space_size \in [1 .. MaxSpaces -> Nat]
      /\ DOMAIN space_size_track = 1 .. MaxSpaces /\ num_spaces \in Nat
      /\ c \in MemoryCalls
  BY <1>1, CallFacts DEF RInv, IInv, Types, num_spaces
<1>4. /\ s \in 1 .. MaxSpaces /\ s \in 1 .. num_spaces'
      /\ num_spaces' = IF s = num_spaces + 1 THEN s ELSE num_spaces
      /\ \A i \in 1 .. num_spaces : space_name'[i] = space_name[i]
      /\ space_name'[s] = c.space
      /\ SpacesNamed' = SpacesNamed \cup {c.space}
      /\ \A i \in 1 .. num_spaces : i # s => space_name[i] # c.space
  BY AccountChanges
<1>5. /\ size \in Nat /\ line \in LineType /\ high \in Nat
      /\ HighWater(space_size_track'[s]) = IF size > high THEN size ELSE high
      /\ \E x \in {0} \cup SizesOf(space_size_track'[s]) :
           /\ \A y \in {0} \cup SizesOf(space_size_track'[s]) : x >= y
           /\ size <= x
  BY AccountSizes
<1>6. /\ space_size'[s] = size
      /\ \A i \in 1 .. MaxSpaces : i # s =>
           space_size'[i] = space_size[i] /\ space_size_track'[i] = space_size_track[i]
  BY <1>1, <1>2, <1>3, <1>4
<1>7. /\ SpacesDistinct /\ SpacesDistinct' /\ IInv'
      /\ num_spaces <= MaxSpaces
  <2>1. IInv'
    BY AccountIInv DEF RInv
  <2>2. SpacesDistinct /\ SpacesDistinct'
    BY <2>1 DEF RInv, IInv
  <2>3. num_spaces <= MaxSpaces
    BY TableLargeEnough DEF RInv, IInv, Types, SpacesDistinct, num_spaces
  <2> QED BY <2>1, <2>2, <2>3
<1> HIDE DEF c, s, high, size, line
<1>8. RInv'
  <2>1. Unused'
    BY <1>3, <1>4, <1>6, MemoryEventsAssumption DEF Unused, RInv
  <2>2. Marked'
    BY <1>5, <1>6 DEF Marked, RInv
  <2>3. \A u \in Threads : pc'[u] = "record" => u = t
    BY <1>1, <1>3 DEF RInv, IInv, Exclusion, Inside
  <2>4. 1 .. num_spaces \subseteq 1 .. num_spaces'
    BY <1>3, <1>4
  <2>5. SpacesKnown'
    BY <1>1, <1>4, <2>3, <2>4 DEF SpacesKnown, RInv, c, s
  <2> QED BY <1>7, <2>1, <2>2, <2>5 DEF RInv
<1>9. \A i \in 1 .. num_spaces' : Entry(space_name[i])' = i
  BY <1>7, EntriesAfter
<1>10. \A i \in 1 .. num_spaces : Entry(space_name[i]) = i
  BY <1>7, EntryIs
<1>11. Atomic!Of(Usage, c.space) = space_size[s] /\ Atomic!Of(Peak, c.space) = high
  <2>1. CASE s \in 1 .. num_spaces
    <3>1. space_name[s] = c.space /\ c.space \in SpacesNamed
      BY <1>4, <2>1 DEF SpacesNamed
    <3>2. Entry(c.space) = s
      BY <1>10, <2>1, <3>1
    <3> QED BY <3>1, <3>2 DEF Atomic!Of, Usage, Peak, high
  <2>2. CASE s \notin 1 .. num_spaces
    <3>1. s = num_spaces + 1
      BY <1>3, <1>4, <2>2
    <3>2. c.space \notin SpacesNamed
      BY <1>3, <1>4, <3>1 DEF SpacesNamed
    <3>3. space_size[s] = 0 /\ space_size_track[s] = << >>
      BY <1>3, <1>4, <3>1 DEF Unused, RInv
    <3>4. high = 0
      <4>1. SizesOf(<< >>) = {}
        BY DEF SizesOf
      <4>2. << >> \in Seq(LineType)
        OBVIOUS
      <4>3. 0 \in {0} \cup SizesOf(<< >>) /\ \A y \in {0} \cup SizesOf(<< >>) : 0 >= y
        BY <4>1
      <4>4. HighWater(<< >>) = 0
        BY <4>2, <4>3, HighWaterIs
      <4> QED BY <3>3, <4>4 DEF high
    <3> QED BY <3>2, <3>3, <3>4 DEF Atomic!Of, Usage, Peak
  <2> QED BY <2>1, <2>2
<1>12. Atomic!MovesMemory(c) /\ Atomic!Balance(c) = size
  <2>1. c.op \in {"allocate", "deallocate"} /\ c.size \in Nat
    BY <1>3, MemoryEventsAssumption DEF MemoryCalls
  <2>2. space_size[s] \in Nat
    BY <1>3, <1>4
  <2>3. Atomic!MovesMemory(c)
    BY <2>1 DEF Atomic!MovesMemory
  <2>4. CASE c.op = "allocate"
    <3>1. Atomic!Balance(c) = Atomic!Of(Usage, c.space) + c.size
      BY <2>4 DEF Atomic!Balance
    <3>2. NewSize(space_size[s], c) = space_size[s] + c.size
      BY <2>4 DEF NewSize
    <3> QED BY <1>11, <2>3, <3>1, <3>2 DEF size, c, s
  <2>5. CASE c.op = "deallocate"
    <3>1. Atomic!Balance(c) = IF c.size <= Atomic!Of(Usage, c.space)
                              THEN Atomic!Of(Usage, c.space) - c.size
                              ELSE Atomic!Of(Usage, c.space)
      BY <2>5 DEF Atomic!Balance
    <3>2. NewSize(space_size[s], c) = IF space_size[s] >= c.size THEN space_size[s] - c.size
                                      ELSE space_size[s]
      BY <2>5 DEF NewSize
    <3>3. Atomic!Balance(c) = NewSize(space_size[s], c)
      BY <1>11, <2>1, <2>2, <3>1, <3>2
    <3> QED BY <2>3, <3>3 DEF size, c, s
  <2> QED BY <2>1, <2>4, <2>5
<1> DEFINE mark == IF size > high THEN size ELSE high
<1>13. ASSUME NEW n \in SpacesNamed'
       PROVE  /\ space_size'[Entry(n)'] = IF n = c.space THEN size ELSE Usage[n]
              /\ HighWater(space_size_track'[Entry(n)']) = IF n = c.space THEN mark ELSE Peak[n]
  <2>1. PICK i \in 1 .. num_spaces' : n = space_name'[i]
    BY DEF SpacesNamed
  <2>2. Entry(n)' = i
    BY <1>9, <2>1
  <2>3. CASE i = s
    BY <1>4, <1>5, <1>6, <2>1, <2>2, <2>3
  <2>4. CASE i # s
    <3>1. i \in 1 .. num_spaces /\ i \in 1 .. MaxSpaces
      BY <1>3, <1>4, <1>7, <2>4, MemoryEventsAssumption
    <3>2. n = space_name[i] /\ n # c.space /\ n \in SpacesNamed
      BY <1>4, <2>1, <2>4, <3>1 DEF SpacesNamed
    <3>3. Entry(n) = i
      BY <1>10, <3>1, <3>2
    <3>4. Usage[n] = space_size[i] /\ Peak[n] = HighWater(space_size_track[i])
      BY <3>2, <3>3 DEF Usage, Peak
    <3> QED BY <1>6, <2>2, <2>4, <3>1, <3>2, <3>4
  <2> QED BY <2>3, <2>4
<1>14. Usage' = Atomic!Assign(Usage, c.space, size)
  BY <1>4, <1>13 DEF Usage, Atomic!Assign
<1>15. Peak' = Atomic!Assign(Peak, c.space, mark)
  BY <1>4, <1>13 DEF Peak, Atomic!Assign
<1>16. Atomic!Take(c)
  BY <1>11, <1>12, <1>14, <1>15 DEF Atomic!Take
<1>17. Written' = Written
  <2>1. \A i \in DOMAIN events : CallOf(events[i])' = CallOf(events[i])
    BY <1>1, <1>4 DEF CallOf, SpacesKnown, RInv
  <2> QED BY <1>1, <2>1 DEF Written
<1>18. LogNow' = IF tool = "memory-events" THEN Append(LogNow, c) ELSE LogNow
  <2>1. m # NoThread
    BY <1>1, MemoryEventsAssumption
  <2>2. pc'[t] = "record"
    BY <1>1, <1>3
  <2> QED BY <1>1, <1>17, <2>1, <2>2 DEF LogNow, c
<1>19. /\ Doing[t] = c /\ Doing[t] \in Calls
       /\ Doing' = [Doing EXCEPT ![t] = Recorded]
  BY <1>1, <1>3 DEF Doing, Calls, c
<1> QED BY <1>1, <1>8, <1>16, <1>18, <1>19 DEF Atomic!Effect

\* The log gets the line that the account has logged already.
LEMMA RecordRefines ==
  ASSUME RInv, NEW t \in Threads, Record(t)
  PROVE  RInv' /\ Atomic!Return(t)
<1>1. /\ pc[t] = "record" /\ m = t /\ m' = NoThread
      /\ pc' = [pc EXCEPT ![t] = "idle"]
      /\ call' = [call EXCEPT ![t] = Idle]
      /\ events' = IF tool = "memory-events" THEN Append(events, EventOf(t)) ELSE events
      /\ UNCHANGED <<tool, space_i, tables, files>>
  BY DEF Record, Unlocked, RInv, IInv, Exclusion, Inside
<1>2. /\ pc \in [Threads -> Places] /\ call \in [Threads -> Calls \cup {Idle}]
      /\ events \in Seq(EventType)
      /\ space_i \in [Threads -> Nat]
      /\ t # NoThread
      /\ call[t] \in Calls
  BY <1>1, MemoryEventsAssumption DEF RInv, IInv, Types, Exclusion
<1>3. IInv'
  BY RecordIInv DEF RInv
<1>4. Unused' /\ Marked'
  BY <1>1 DEF Unused, Marked, RInv, num_spaces, tables
<1> DEFINE event == EventOf(t)
<1>5. /\ CallOf(event) = call[t]
      /\ event.op \in {"allocate", "deallocate"} => event.space \in 1 .. num_spaces
  <2>1. CASE call[t] \in MemoryCalls
    <3>1. /\ event = [op |-> call[t].op, space |-> space_i[t], ptr |-> call[t].ptr,
                      size |-> call[t].size, time |-> time[t]]
          /\ call[t] = [op |-> call[t].op, space |-> call[t].space, ptr |-> call[t].ptr,
                        size |-> call[t].size]
          /\ call[t].op \in {"allocate", "deallocate"}
      BY <2>1 DEF EventOf, MemoryCalls
    <3>2. space_i[t] \in 1 .. num_spaces /\ space_name[space_i[t]] = call[t].space
      BY <1>1, <2>1 DEF SpacesKnown, RInv
    <3> QED BY <3>1, <3>2 DEF CallOf
  <2>2. CASE call[t] \notin MemoryCalls
    <3>1. /\ event = [op |-> call[t].op, time |-> time[t]]
          /\ call[t] = [op |-> call[t].op]
          /\ call[t].op \notin {"allocate", "deallocate"}
      BY <1>2, <2>2 DEF EventOf, Calls, RegionCalls
    <3> QED BY <3>1 DEF CallOf
  <2> QED BY <2>1, <2>2
<1>6. event \in EventType
  <2>1. time[t] \in Nat
    BY DEF RInv, IInv, Types
  <2>2. CASE call[t] \in MemoryCalls
    BY <1>2, <2>1, <2>2 DEF EventOf, MemoryCalls, EventType
  <2>3. CASE call[t] \notin MemoryCalls
    BY <1>2, <2>1, <2>3 DEF EventOf, Calls, RegionCalls, EventType
  <2> QED BY <2>2, <2>3
<1> HIDE DEF event
<1>7. \/ events' = events
      \/ /\ Len(events) \in Nat /\ DOMAIN events = 1 .. Len(events)
         /\ DOMAIN events' = 1 .. Len(events) + 1
         /\ \A i \in DOMAIN events : events'[i] = events[i]
         /\ events'[Len(events) + 1] = event
  BY <1>1, <1>2, <1>6 DEF event
<1>8. SpacesKnown'
  <2>1. \A u \in Threads : pc'[u] # "record"
    BY <1>1, <1>2 DEF RInv, IInv, Exclusion, Inside
  <2>2. space_name' = space_name /\ num_spaces' = num_spaces
    BY <1>1 DEF tables, num_spaces
  <2>3. \A i \in DOMAIN events' : events'[i].op \in {"allocate", "deallocate"} =>
          events'[i].space \in 1 .. num_spaces
    <3>1. CASE events' = events
      BY <3>1 DEF SpacesKnown, RInv
    <3>2. CASE events' # events
      <4> TAKE i \in DOMAIN events'
      <4>1. i \in DOMAIN events \/ i = Len(events) + 1
        BY <1>7, <3>2
      <4> QED BY <1>5, <1>7, <3>2, <4>1 DEF SpacesKnown, RInv
    <3> QED BY <3>1, <3>2
  <2> QED BY <2>1, <2>2, <2>3 DEF SpacesKnown
<1>9. LogNow' = LogNow
  <2>1. LogNow' = Written'
    BY <1>1 DEF LogNow
  <2>2. CASE tool # "memory-events"
    <3>1. Written' = Written
      BY <1>1, <2>2, AccountKept
    <3> QED BY <1>1, <2>1, <2>2, <3>1 DEF LogNow
  <2>3. CASE tool = "memory-events"
    <3>1. LogNow = Append(Written, call[t])
      BY <1>1, <1>2, <2>3 DEF LogNow
    <3>2. events' = Append(events, event)
      BY <1>1, <2>3 DEF event
    <3>3. /\ Len(events) \in Nat /\ DOMAIN events = 1 .. Len(events)
          /\ DOMAIN events' = 1 .. Len(events) + 1
          /\ \A i \in DOMAIN events : events'[i] = events[i]
          /\ events'[Len(events) + 1] = event
      BY <1>2, <1>6, <3>2
    <3>4. PICK k \in Nat : k = Len(events) + 1
      BY <3>3
    <3>5. /\ DOMAIN events = 1 .. k - 1 /\ DOMAIN events' = 1 .. k
          /\ events'[k] = event
      BY <3>3, <3>4
    <3>6. (CallOf(events[k]))' = call[t]
      BY <1>1, <1>5, <3>5 DEF CallOf, tables
    <3>7. \A i \in 1 .. k - 1 : (CallOf(events[i]))' = Written[i]
      BY <1>1, <3>3, <3>5 DEF Written, CallOf, tables
    <3>8. Written \in Seq({Written[i] : i \in DOMAIN events}) /\ Len(Written) = k - 1
      BY <3>3, <3>4 DEF Written
    <3>9. Append(Written, call[t]) =
            [i \in 1 .. k |-> IF i = k THEN call[t] ELSE Written[i]]
      BY <3>8
    <3>10. \A i \in 1 .. k : (CallOf(events[i]))' = IF i = k THEN call[t] ELSE Written[i]
      BY <3>6, <3>7
    <3>11. Written' = Append(Written, call[t])
      BY <3>5, <3>9, <3>10 DEF Written
    <3> QED BY <2>1, <3>1, <3>11
  <2> QED BY <2>2, <2>3
<1>10. Usage' = Usage /\ Peak' = Peak
  BY <1>1 DEF Usage, Peak, SpacesNamed, Entry, num_spaces, tables
<1>11. Doing[t] = Recorded /\ Doing' = [Doing EXCEPT ![t] = Idle]
  BY <1>1, <1>2 DEF Doing
<1> QED BY <1>1, <1>3, <1>4, <1>8, <1>9, <1>10, <1>11 DEF RInv, Atomic!Return, Atomic!account

\* Every file ends with the high water mark of its space.
LEMMA FinalizeRefines ==
  ASSUME RInv, Finalize
  PROVE  RInv' /\ Atomic!Close
<1>1. /\ \A t \in Threads : pc[t] = "idle"
      /\ files' = [n \in {space_name[s] : s \in 1 .. num_spaces} |->
                     HighWater(space_size_track[Max({s \in 1 .. num_spaces : space_name[s] = n})])]
      /\ UNCHANGED <<tool, pc, call, m, clock, time, space_i, tables, events>>
  BY DEF Finalize
<1>2. IInv'
  BY <1>1, StutterIInv DEF RInv
<1>3. Unused' /\ SpacesKnown' /\ Marked'
  BY <1>1 DEF Unused, SpacesKnown, Marked, RInv, num_spaces, tables
<1>4. \A t \in Threads : Doing[t] = Idle
  BY <1>1 DEF Doing, RInv, IInv, Exclusion
<1>5. \A n \in SpacesNamed : Max({s \in 1 .. num_spaces : space_name[s] = n}) = Entry(n)
  <2> SUFFICES ASSUME NEW n \in SpacesNamed
               PROVE  Max({s \in 1 .. num_spaces : space_name[s] = n}) = Entry(n)
    OBVIOUS
  <2>1. PICK i \in 1 .. num_spaces : space_name[i] = n
    BY DEF SpacesNamed
  <2>2. {s \in 1 .. num_spaces : space_name[s] = n} = {i}
    BY <2>1 DEF RInv, IInv, SpacesDistinct
  <2>3. Max({i}) = i
    <3>1. num_spaces \in Nat
      BY DEF RInv, IInv, Types, num_spaces
    <3> QED BY <3>1 DEF Max
  <2>4. Entry(n) = i
    BY <2>1, EntryIs DEF RInv, IInv
  <2> QED BY <2>2, <2>3, <2>4
<1>6. files' = Peak
  BY <1>1, <1>5 DEF Peak, SpacesNamed
<1>7. Doing' = Doing /\ LogNow' = LogNow /\ Usage' = Usage /\ Peak' = Peak
  BY <1>1, AccountKept DEF Doing, LogNow
<1> QED BY <1>1, <1>2, <1>3, <1>4, <1>6, <1>7 DEF RInv, Atomic!Close

\* A step of the host alone is no step of the account.
LEMMA StutterRefines ==
  ASSUME RInv, UNCHANGED vars
  PROVE  RInv' /\ AccountStutters
<1>1. IInv'
  BY StutterIInv DEF RInv, vars
<1>2. Unused' /\ SpacesKnown' /\ Marked'
  BY DEF Unused, SpacesKnown, Marked, RInv, num_spaces, tables, vars
<1>3. AccountStutters
  BY AccountKept DEF AccountStutters, Doing, LogNow, vars
<1> QED BY <1>1, <1>2, <1>3 DEF RInv

-----------------------------------------------------------------------------

\* What the account sees of the tool.
abstract == <<Doing, tool = "memory-events", <<Usage, Peak, LogNow, files>>>>

\* RInv is inductive, and every step is one of the account or none.
LEMMA StepRefines == RInv /\ [Next]_vars => RInv' /\ [Atomic!Next]_abstract
<1> SUFFICES ASSUME RInv, [Next]_vars
             PROVE  RInv' /\ [Atomic!Next]_abstract
  OBVIOUS
<1>1. AccountStutters => UNCHANGED abstract
  BY DEF AccountStutters, abstract
<1>2. ASSUME NEW t \in Threads, NEW c \in Calls, Enter(t, c)
      PROVE  RInv' /\ Atomic!Next
  BY <1>2, EnterRefines DEF Atomic!Next
<1>3. ASSUME NEW t \in Threads, Lock(t)
      PROVE  RInv' /\ (Atomic!Next \/ AccountStutters)
  BY <1>3, LockRefines DEF Atomic!Next
<1>4. ASSUME NEW t \in Threads, FindSpace(t)
      PROVE  RInv' /\ AccountStutters
  BY <1>4, FindRefines
<1>5. ASSUME NEW t \in Threads, Account(t)
      PROVE  RInv' /\ Atomic!Next
  BY <1>5, AccountRefines DEF Atomic!Next
<1>6. ASSUME NEW t \in Threads, Record(t)
      PROVE  RInv' /\ Atomic!Next
  BY <1>6, RecordRefines DEF Atomic!Next
<1>7. CASE Finalize
  BY <1>7, FinalizeRefines DEF Atomic!Next
<1>8. CASE UNCHANGED vars
  BY <1>1, <1>8, StutterRefines
<1> QED BY <1>1, <1>2, <1>3, <1>4, <1>5, <1>6, <1>7, <1>8 DEF Next

\* The callbacks of any number of threads take effect one at a time, each between
\* its start and its return, and what a file says of a space is its peak
\* (kp_memory_events.cpp:96-152, kp_memory_usage.cpp:36-115).
THEOREM ActsAtomically == Spec => OneAtATime
BY InitRInv, InitRefines, StepRefines, PTL DEF Spec, OneAtATime, Atomic!Spec, Atomic!account, abstract

-----------------------------------------------------------------------------
(* The sizes of the spaces are those of the memory the host holds there.   *)

\* The host has memory that the tool has not added yet, or has already
\* subtracted: an allocation until Account, a deallocation from then on.
Pending(place, c) ==
  /\ c \in MemoryCalls
  /\ IF c.op = "allocate" THEN place \in {"lock", "find", "account"} ELSE place = "record"

Unaccounted(a) == \E t \in Threads : Pending(pc[t], call[t]) /\ call[t].ptr = a

Accounted(name) ==
  {a \in DOMAIN memory : memory[a].seen /\ memory[a].space = name /\ ~ Unaccounted(a)}

HeldSizes == [a \in DOMAIN memory |-> memory[a].size]

Remembered ==
  /\ IsFiniteSet(DOMAIN memory)
  /\ \A a \in DOMAIN memory :
       memory[a].space \in SpaceNames /\ memory[a].size \in Sizes /\ memory[a].seen \in BOOLEAN

\* The host has the memory its callbacks are about, and never two of them about
\* the same.
Announced ==
  /\ \A t \in Threads : call[t] \in MemoryCalls =>
       /\ call[t].ptr \in DOMAIN memory
       /\ memory[call[t].ptr].space = call[t].space
       /\ memory[call[t].ptr].size = call[t].size
       /\ call[t].op = "allocate" \/ ~ unseenFreed => memory[call[t].ptr].seen
  /\ \A t, u \in Threads :
       call[t] \in MemoryCalls /\ call[u] \in MemoryCalls /\ t # u => call[t].ptr # call[u].ptr

\* A space has the sizes of what is accounted there, and one that is not in the
\* table has nothing.
Balanced ==
  ~ unseenFreed =>
    /\ \A s \in 1 .. num_spaces : space_size[s] = SumOver(HeldSizes, Accounted(space_name[s]))
    /\ \A n \in SpaceNames : (\A s \in 1 .. num_spaces : space_name[s] # n) => Accounted(n) = {}

UInv == IInv /\ Remembered /\ Announced /\ Balanced

\* The host starts with nothing, and so do the tables.
LEMMA InitUInv == Init => UInv
<1> SUFFICES ASSUME Init PROVE UInv
  OBVIOUS
<1>1. \A t \in Threads : call[t] \notin MemoryCalls
  BY IdleAssumption DEF Init, Calls
<1>2. Remembered /\ \A a \in DOMAIN memory : ~ memory[a].seen
  <2>1. CASE memory = EmptyMap
    BY <2>1, FS_EmptySet DEF Remembered, EmptyMap
  <2>2. CASE memory # EmptyMap
    <3>1. PICK a : memory \in [{a} -> [space : SpaceNames, size : Sizes, seen : {FALSE}]]
      BY <2>2, Zenon DEF Init
    <3>2. DOMAIN memory = {a} /\ memory[a] \in [space : SpaceNames, size : Sizes, seen : {FALSE}]
      BY <3>1
    <3>3. IsFiniteSet({a})
      BY FS_Singleton
    <3> QED BY <3>2, <3>3 DEF Remembered
  <2> QED BY <2>1, <2>2
<1>3. Announced
  BY <1>1 DEF Announced
<1>4. Balanced
  <2>1. \A n \in SpaceNames : Accounted(n) = {}
    BY <1>2 DEF Accounted
  <2>2. num_spaces = 0
    BY DEF Init, num_spaces
  <2> QED BY <2>1, <2>2 DEF Balanced
<1> QED BY <1>2, <1>3, <1>4, InitIInv DEF UInv

\* What is accounted has finitely many elements, all with a natural size.
LEMMA AccountedFinite ==
  ASSUME Remembered, NEW n
  PROVE  /\ IsFiniteSet(Accounted(n))
         /\ Accounted(n) \subseteq DOMAIN memory
         /\ \A a \in DOMAIN memory : HeldSizes[a] = memory[a].size /\ HeldSizes[a] \in Nat
<1>1. Accounted(n) \subseteq DOMAIN memory
  BY DEF Accounted
<1> QED BY <1>1, FS_Subset, MemoryEventsAssumption DEF Remembered, HeldSizes

\* A step that changes no size and accounts for the same memory keeps the balance.
LEMMA SameBalance ==
  ASSUME Remembered, Remembered', Balanced,
         ~ unseenFreed' => ~ unseenFreed,
         space_name' = space_name, space_size' = space_size, IInv,
         \A a \in DOMAIN memory \cap DOMAIN memory' : memory'[a] = memory[a],
         \A n \in SpaceNames : Accounted(n)' = Accounted(n)
  PROVE  Balanced'
<1> SUFFICES ASSUME ~ unseenFreed' PROVE
      /\ \A s \in 1 .. num_spaces' :
           space_size'[s] = SumOver(HeldSizes', Accounted(space_name[s])')
      /\ \A n \in SpaceNames : (\A s \in 1 .. num_spaces' : space_name'[s] # n) => Accounted(n)' = {}
  BY DEF Balanced
<1>1. num_spaces' = num_spaces /\ \A s \in 1 .. num_spaces : space_name[s] \in SpaceNames
  BY DEF num_spaces, IInv, Types
<1>2. \A n \in SpaceNames : (\A s \in 1 .. num_spaces' : space_name'[s] # n) => Accounted(n)' = {}
  BY <1>1 DEF Balanced
<1>3. ASSUME NEW n \in SpaceNames
      PROVE  SumOver(HeldSizes', Accounted(n)) = SumOver(HeldSizes, Accounted(n))
  <2> DEFINE A == Accounted(n)
             f == HeldSizes
             g == HeldSizes'
  <2>1. IsFiniteSet(A) /\ A \subseteq DOMAIN memory /\ A \subseteq DOMAIN memory'
    <3>1. Accounted(n)' \subseteq DOMAIN memory'
      BY DEF Accounted
    <3> QED BY <3>1, AccountedFinite
  <2>2. \A a \in A : f[a] = g[a]
    BY <2>1 DEF HeldSizes
  <2> HIDE DEF A, f, g
  <2>3. SumOver(g, A) = SumOver(f, A)
    BY <2>1, <2>2, SumAgree
  <2> QED BY <2>3 DEF A, f, g
<1>4. ASSUME NEW s \in 1 .. num_spaces'
      PROVE  space_size'[s] = SumOver(HeldSizes', Accounted(space_name[s])')
  <2>1. space_size[s] = SumOver(HeldSizes, Accounted(space_name[s]))
    BY <1>1 DEF Balanced
  <2>2. space_name[s] \in SpaceNames
    BY <1>1
  <2> QED BY <1>3, <2>1, <2>2
<1> QED BY <1>2, <1>4

\* A step of one thread changes what is unaccounted only by its own memory.
LEMMA UnaccountedSame ==
  ASSUME IInv, NEW t \in Threads, NEW x, NEW y, NEW a,
         pc' = [pc EXCEPT ![t] = x], call' = [call EXCEPT ![t] = y],
         Pending(x, y) /\ y.ptr = a <=> Pending(pc[t], call[t]) /\ call[t].ptr = a
  PROVE  Unaccounted(a)' <=> Unaccounted(a)
<1>1. pc'[t] = x /\ call'[t] = y
  BY DEF IInv, Types
<1>2. \A u \in Threads : u # t => pc'[u] = pc[u] /\ call'[u] = call[u]
  BY DEF IInv, Types
<1>3. \A u \in Threads :
        Pending(pc'[u], call'[u]) /\ call'[u].ptr = a <=> Pending(pc[u], call[u]) /\ call[u].ptr = a
  <2> TAKE u \in Threads
  <2>1. CASE u = t
    BY <1>1, <2>1, Zenon
  <2>2. CASE u # t
    BY <1>2, <2>2, Zenon
  <2> QED BY <2>1, <2>2
<1> QED BY <1>3, Zenon DEF Unaccounted

\* A thread that goes on with its callback and does not reach its effect leaves
\* every account as it is.
LEMMA GoesOn ==
  ASSUME UInv, NEW t \in Threads, NEW x,
         pc' = [pc EXCEPT ![t] = x],
         UNCHANGED <<call, memory, unseenFreed, space_name, space_size>>,
         Pending(x, call[t]) <=> Pending(pc[t], call[t])
  PROVE  Remembered' /\ Announced' /\ Balanced'
<1> USE DEF UInv
<1>1. Remembered' /\ Announced'
  BY DEF Remembered, Announced
<1>2. \A a : Unaccounted(a)' <=> Unaccounted(a)
  <2> TAKE a
  <2> DEFINE y == call[t]
  <2>1. call' = [call EXCEPT ![t] = y]
    BY DEF IInv, Types
  <2>2. Pending(x, y) /\ y.ptr = a <=> Pending(pc[t], call[t]) /\ call[t].ptr = a
    OBVIOUS
  <2> HIDE DEF y
  <2> QED BY <2>1, <2>2, UnaccountedSame
<1>3. \A n \in SpaceNames : Accounted(n)' = Accounted(n)
  BY <1>2 DEF Accounted
<1> QED BY <1>1, <1>3, SameBalance

\* Taking the mutex changes no size.
LEMMA LockUInv ==
  ASSUME UInv, NEW t \in Threads, Lock(t)
  PROVE  UInv'
<1> DEFINE x == IF call[t] \in MemoryCalls THEN "find" ELSE "record"
<1>1. /\ pc[t] = "lock"
      /\ pc' = [pc EXCEPT ![t] = x]
      /\ UNCHANGED <<call, memory, unseenFreed, space_name, space_size>>
  BY DEF Lock, host, tables
<1>2. Pending(x, call[t]) <=> Pending(pc[t], call[t])
  BY <1>1 DEF Pending
<1> HIDE DEF x
<1> QED BY <1>1, <1>2, GoesOn, LockIInv DEF UInv

\* Nor does the search of the table.
LEMMA FindUInv ==
  ASSUME UInv, NEW t \in Threads, FindSpace(t)
  PROVE  UInv'
<1>1. /\ pc[t] = "find"
      /\ pc' = [pc EXCEPT ![t] = "account"]
      /\ UNCHANGED <<call, memory, unseenFreed, space_name, space_size>>
  BY DEF FindSpace, host, tables
<1>2. Pending("account", call[t]) <=> Pending(pc[t], call[t])
  BY <1>1 DEF Pending
<1> QED BY <1>1, <1>2, GoesOn, FindIInv DEF UInv

\* What a host announces is not accounted before the tool accounts for it.
LEMMA EnterUInv ==
  ASSUME UInv, NEW t \in Threads, NEW c \in Calls, Enter(t, c)
  PROVE  UInv'
<1> USE DEF UInv
<1>1. /\ pc[t] = "idle"
      /\ pc' = [pc EXCEPT ![t] = "lock"]
      /\ call' = [call EXCEPT ![t] = c]
      /\ UNCHANGED <<space_name, space_size>>
      /\ Reports(c)
  BY DEF Enter, tables
<1>2. call[t] = Idle /\ call[t] \notin MemoryCalls /\ ~ Pending(pc[t], call[t])
  BY <1>1, IdleAssumption DEF IInv, Exclusion, Calls, Pending
<1>3. call'[t] = c /\ \A u \in Threads : u # t => call'[u] = call[u]
  BY <1>1 DEF IInv, Types
<1>4. IInv'
  BY EnterIInv
<1>5. CASE c \in RegionCalls
  <2>1. memory' = memory /\ unseenFreed' = unseenFreed
    BY <1>1, <1>5 DEF Reports, RegionCalls
  <2>2. c \notin MemoryCalls
    BY <1>5 DEF RegionCalls, MemoryCalls
  <2>3. \A a : Unaccounted(a)' <=> Unaccounted(a)
    <3> TAKE a
    <3>1. ~ Pending("lock", c)
      BY <2>2 DEF Pending
    <3> QED BY <1>1, <1>2, <3>1, UnaccountedSame
  <2>4. \A n \in SpaceNames : Accounted(n)' = Accounted(n)
    BY <2>1, <2>3 DEF Accounted
  <2>5. Remembered' /\ Announced'
    BY <1>3, <2>1, <2>2 DEF Remembered, Announced
  <2> QED BY <1>1, <1>4, <2>1, <2>4, <2>5, SameBalance
<1>6. CASE c \in MemoryCalls /\ c.op = "allocate"
  <2>1. /\ c.ptr \notin DOMAIN memory
        /\ memory' = Assign(memory, c.ptr, [space |-> c.space, size |-> c.size, seen |-> TRUE])
        /\ unseenFreed' = unseenFreed
    BY <1>1, <1>6 DEF Reports
  <2>2. /\ DOMAIN memory' = DOMAIN memory \cup {c.ptr}
        /\ \A a \in DOMAIN memory : memory'[a] = memory[a]
        /\ memory'[c.ptr] = [space |-> c.space, size |-> c.size, seen |-> TRUE]
    BY <2>1 DEF Assign
  <2> DEFINE new == [space |-> c.space, size |-> c.size, seen |-> TRUE]
  <2>9. new.space = c.space /\ new.size = c.size /\ new.seen
    OBVIOUS
  <2>10. memory'[c.ptr].space = c.space /\ memory'[c.ptr].size = c.size /\ memory'[c.ptr].seen = TRUE
    <3>1. memory'[c.ptr] = new
      BY <2>2
    <3>2. new.seen = TRUE
      OBVIOUS
    <3> HIDE DEF new
    <3> QED BY <2>9, <3>1, <3>2, Zenon
  <2> HIDE DEF new
  <2>3. c.space \in SpaceNames /\ c.size \in Sizes
    BY <1>6 DEF MemoryCalls
  <2>4. Remembered'
    <3>1. IsFiniteSet(DOMAIN memory')
      BY <2>2, FS_AddElement DEF Remembered
    <3>2. \A a \in DOMAIN memory' :
            memory'[a].space \in SpaceNames /\ memory'[a].size \in Sizes /\ memory'[a].seen \in BOOLEAN
      <4> TAKE a \in DOMAIN memory'
      <4>1. CASE a = c.ptr
        BY <2>3, <2>10, <4>1, Zenon
      <4>2. CASE a # c.ptr
        BY <2>2, <4>2 DEF Remembered
      <4> QED BY <4>1, <4>2
    <3> QED BY <3>1, <3>2 DEF Remembered
  <2>5. Announced'
    <3>1. \A u \in Threads : u # t /\ call[u] \in MemoryCalls =>
            call[u].ptr \in DOMAIN memory /\ call[u].ptr # c.ptr
      BY <2>1 DEF Announced
    <3>2. ASSUME NEW u \in Threads, call'[u] \in MemoryCalls
          PROVE  /\ call'[u].ptr \in DOMAIN memory'
                 /\ memory'[call'[u].ptr].space = call'[u].space
                 /\ memory'[call'[u].ptr].size = call'[u].size
                 /\ call'[u].op = "allocate" \/ ~ unseenFreed' => memory'[call'[u].ptr].seen
      <4>1. CASE u = t
        <5>1. c.ptr \in DOMAIN memory'
          BY <2>2
        <5>2. call'[u] = c
          BY <1>3, <4>1
        <5>3. memory'[c.ptr].seen
          BY <2>10, Zenon
        <5>4. memory'[call'[u].ptr].seen
          BY <5>2, <5>3, Zenon
        <5>5. memory'[call'[u].ptr].space = call'[u].space /\ memory'[call'[u].ptr].size = call'[u].size
          BY <2>10, <5>2, Zenon
        <5>6. call'[u].ptr \in DOMAIN memory'
          BY <5>1, <5>2, Zenon
        <5> QED BY <5>4, <5>5, <5>6, Zenon
      <4>2. CASE u # t
        <5>1. call'[u] = call[u] /\ unseenFreed' = unseenFreed
          BY <1>3, <2>1, <4>2
        <5>2. call[u].ptr \in DOMAIN memory /\ memory'[call[u].ptr] = memory[call[u].ptr]
          BY <2>2, <3>1, <3>2, <4>2, <5>1
        <5>3. call'[u].ptr \in DOMAIN memory'
          BY <2>2, <5>1, <5>2
        <5>4. /\ memory[call[u].ptr].space = call[u].space
              /\ memory[call[u].ptr].size = call[u].size
              /\ call[u].op = "allocate" \/ ~ unseenFreed => memory[call[u].ptr].seen
          <6>1. call[u] \in MemoryCalls
            BY <3>2, <5>1
          <6> QED BY <6>1 DEF Announced
        <5> QED BY <5>1, <5>2, <5>3, <5>4, Zenon
      <4> QED BY <4>1, <4>2
    <3>3. ASSUME NEW u \in Threads, NEW v \in Threads,
                 call'[u] \in MemoryCalls, call'[v] \in MemoryCalls, u # v
          PROVE  call'[u].ptr # call'[v].ptr
      <4>1. CASE u = t \/ v = t
        BY <1>3, <3>1, <3>3, <4>1
      <4>2. CASE u # t /\ v # t
        BY <1>3, <3>3, <4>2 DEF Announced
      <4> QED BY <4>1, <4>2
    <3> QED BY <3>2, <3>3 DEF Announced
  <2>6. Unaccounted(c.ptr)'
    <3>1. Pending("lock", c) /\ pc'[t] = "lock"
      BY <1>1, <1>6 DEF Pending, IInv, Types
    <3> QED BY <1>3, <3>1 DEF Unaccounted
  <2>7. ASSUME NEW a \in DOMAIN memory PROVE Unaccounted(a)' <=> Unaccounted(a)
    <3>1. a # c.ptr
      BY <2>1
    <3> QED BY <1>1, <1>2, <3>1, UnaccountedSame
  <2>8. \A n \in SpaceNames : Accounted(n)' = Accounted(n)
    BY <2>1, <2>2, <2>6, <2>7 DEF Accounted
  <2> QED BY <1>1, <1>4, <2>1, <2>2, <2>4, <2>5, <2>8, SameBalance
<1>7. CASE c \in MemoryCalls /\ c.op = "deallocate"
  <2>1. /\ c.ptr \in DOMAIN memory
        /\ ~ InCallback(c.ptr)
        /\ c.space = memory[c.ptr].space /\ c.size = memory[c.ptr].size
        /\ unseenFreed' = (unseenFreed \/ ~ memory[c.ptr].seen)
        /\ memory' = memory
    BY <1>1, <1>7 DEF Reports
  <2>2. \A a : Unaccounted(a)' <=> Unaccounted(a)
    <3> TAKE a
    <3>1. ~ Pending("lock", c)
      BY <1>7 DEF Pending
    <3> QED BY <1>1, <1>2, <3>1, UnaccountedSame
  <2>3. \A n \in SpaceNames : Accounted(n)' = Accounted(n)
    BY <2>1, <2>2 DEF Accounted
  <2>4. Remembered'
    BY <2>1 DEF Remembered
  <2>5. Announced'
    <3>1. \A u \in Threads : call[u] \in MemoryCalls => call[u].ptr # c.ptr
      BY <2>1 DEF InCallback
    <3>2. ~ unseenFreed' => ~ unseenFreed /\ memory[c.ptr].seen
      BY <2>1 DEF Remembered
    <3> QED BY <1>2, <1>3, <1>7, <2>1, <3>1, <3>2 DEF Announced
  <2>6. ~ unseenFreed' => ~ unseenFreed
    BY <2>1
  <2> QED BY <1>1, <1>4, <2>1, <2>3, <2>4, <2>5, <2>6, SameBalance
<1>8. c \in RegionCalls \/ (c \in MemoryCalls /\ c.op \in {"allocate", "deallocate"})
  BY DEF Calls, MemoryCalls
<1> QED BY <1>5, <1>6, <1>7, <1>8

\* What a host gives back has been subtracted before.
LEMMA RecordUInv ==
  ASSUME UInv, NEW t \in Threads, Record(t)
  PROVE  UInv'
<1> USE DEF UInv
<1> DEFINE c == call[t]
<1>1. /\ pc[t] = "record"
      /\ pc' = [pc EXCEPT ![t] = "idle"]
      /\ call' = [call EXCEPT ![t] = Idle]
      /\ memory' = IF c.op = "deallocate" THEN Erase(memory, c.ptr) ELSE memory
      /\ UNCHANGED <<space_name, space_size, unseenFreed>>
  BY DEF Record, tables
<1>2. ~ Pending("idle", Idle) /\ Idle \notin MemoryCalls
  BY IdleAssumption DEF Pending, Calls
<1>3. call'[t] = Idle /\ \A u \in Threads : u # t => call'[u] = call[u]
  BY <1>1 DEF IInv, Types
<1>4. IInv'
  BY RecordIInv
<1>5. c \in Calls
  BY <1>1 DEF IInv, Types, Exclusion
<1>6. CASE c.op = "deallocate"
  <2>1. c \in MemoryCalls
    BY <1>5, <1>6 DEF Calls, RegionCalls
  <2>2. c.ptr \in DOMAIN memory
    BY <2>1 DEF Announced
  <2>3. /\ DOMAIN memory' = DOMAIN memory \ {c.ptr}
        /\ \A a \in DOMAIN memory' : memory'[a] = memory[a]
    BY <1>1, <1>6 DEF Erase
  <2>4. Remembered'
    BY <2>3, FS_RemoveElement, FS_Subset DEF Remembered
  <2>5. Announced'
    <3>1. \A u \in Threads : u # t /\ call[u] \in MemoryCalls => call[u].ptr # c.ptr
      BY <2>1 DEF Announced
    <3> HIDE DEF c
    <3> QED BY <1>1, <1>2, <1>3, <2>3, <3>1 DEF Announced
  <2>6. Unaccounted(c.ptr)
    <3>1. Pending(pc[t], c)
      BY <1>1, <1>6, <2>1 DEF Pending
    <3> QED BY <3>1 DEF Unaccounted
  <2>7. ASSUME NEW a \in DOMAIN memory' PROVE Unaccounted(a)' <=> Unaccounted(a)
    <3>1. a # c.ptr
      BY <2>3
    <3> QED BY <1>1, <1>2, <3>1, UnaccountedSame
  <2>8. \A n \in SpaceNames : Accounted(n)' = Accounted(n)
    BY <2>3, <2>6, <2>7 DEF Accounted
  <2> QED BY <1>1, <1>4, <2>3, <2>4, <2>5, <2>8, SameBalance
<1>7. CASE c.op # "deallocate"
  <2>1. memory' = memory /\ unseenFreed' = unseenFreed
    BY <1>1, <1>7
  <2>2. ~ Pending(pc[t], c)
    BY <1>1, <1>7 DEF Pending, MemoryCalls
  <2>3. \A a : Unaccounted(a)' <=> Unaccounted(a)
    <3> TAKE a
    <3> QED BY <1>1, <1>2, <2>2, UnaccountedSame
  <2>4. \A n \in SpaceNames : Accounted(n)' = Accounted(n)
    BY <2>1, <2>3 DEF Accounted
  <2>5. Remembered' /\ Announced'
    BY <1>2, <1>3, <2>1 DEF Remembered, Announced
  <2> QED BY <1>1, <1>4, <2>1, <2>4, <2>5, SameBalance
<1> QED BY <1>6, <1>7

\* The size of a space changes by what the callback is about, which was not yet
\* accounted for, or was.
LEMMA AccountUInv ==
  ASSUME UInv, Unused, NEW t \in Threads, Account(t)
  PROVE  UInv'
<1> USE DEF UInv
<1> DEFINE c == call[t]
           e == space_i[t]
           used == space_size[e]
           size == NewSize(used, c)
           n == c.space
<1>1. /\ pc[t] = "account"
      /\ pc' = [pc EXCEPT ![t] = "record"]
      /\ space_name' = IF e = num_spaces + 1 THEN Append(space_name, n) ELSE space_name
      /\ space_size' = [space_size EXCEPT ![e] = size]
      /\ UNCHANGED <<call, memory, unseenFreed>>
  BY DEF Account, host
<1>2. IInv' /\ Remembered' /\ Announced'
  <2>1. IInv'
    BY AccountIInv
  <2> QED BY <1>1, <2>1 DEF Remembered, Announced
<1> SUFFICES ASSUME ~ unseenFreed
             PROVE  /\ \A s \in 1 .. num_spaces' :
                         space_size'[s] = SumOver(HeldSizes', Accounted(space_name[s])')
                    /\ \A k \in SpaceNames :
                         (\A s \in 1 .. num_spaces' : space_name'[s] # k) => Accounted(k)' = {}
  BY <1>1, <1>2 DEF Balanced
<1>3. /\ c \in MemoryCalls /\ c.op \in {"allocate", "deallocate"} /\ n \in SpaceNames
      /\ c.size \in Nat \ {0}
      /\ e \in 1 .. MaxSpaces /\ e \in 1 .. num_spaces + 1 /\ num_spaces \in Nat
      /\ used \in Nat
      /\ \A s \in 1 .. num_spaces : space_name[s] = n <=> s = e
      /\ \A s \in 1 .. num_spaces : space_name[s] \in SpaceNames
  <2>1. /\ c \in MemoryCalls /\ c.op \in {"allocate", "deallocate"} /\ n \in SpaceNames
        /\ c.size \in Nat
    BY <1>1, CallFacts DEF IInv
  <2>2. c.size \in Sizes
    BY <2>1 DEF MemoryCalls
  <2>3. e \in 1 .. MaxSpaces
    BY <1>1, EntryInTable
  <2>4. /\ e \in 1 .. num_spaces + 1 /\ num_spaces \in Nat
        /\ \A s \in 1 .. num_spaces : space_name[s] = n <=> s = e
        /\ \A s \in 1 .. num_spaces : space_name[s] \in SpaceNames
    BY <1>1 DEF IInv, FoundHolds, Types, num_spaces
  <2>5. used \in Nat
    BY <2>3 DEF IInv, Types
  <2> QED BY <2>1, <2>2, <2>3, <2>4, <2>5, MemoryEventsAssumption
<1> DEFINE a == c.ptr
<1>4. /\ a \in DOMAIN memory /\ memory[a].space = n /\ memory[a].size = c.size /\ memory[a].seen
      /\ HeldSizes[a] = c.size
  <2>1. a \in DOMAIN memory /\ memory[a].space = n /\ memory[a].size = c.size /\ memory[a].seen
    BY <1>3 DEF Announced
  <2> QED BY <2>1 DEF HeldSizes
<1>5. HeldSizes' = HeldSizes
  BY <1>1 DEF HeldSizes
<1>6. \A k \in SpaceNames \ {n} : Accounted(k)' = Accounted(k)
  <2>1. ASSUME NEW b \in DOMAIN memory, b # a PROVE Unaccounted(b)' <=> Unaccounted(b)
    <3> DEFINE y == c
    <3>1. call' = [call EXCEPT ![t] = y]
      BY <1>1 DEF IInv, Types
    <3>2. y.ptr # b
      BY <2>1
    <3> HIDE DEF y
    <3>3. Pending("record", y) /\ y.ptr = b <=> Pending(pc[t], call[t]) /\ call[t].ptr = b
      BY <3>2 DEF y
    <3> QED BY <1>1, <3>1, <3>3, UnaccountedSame
  <2> QED BY <1>1, <1>4, <2>1 DEF Accounted
<1>7. Accounted(n)' \ {a} = Accounted(n) \ {a}
  <2>1. ASSUME NEW b \in DOMAIN memory, b # a PROVE Unaccounted(b)' <=> Unaccounted(b)
    <3> DEFINE y == c
    <3>1. call' = [call EXCEPT ![t] = y]
      BY <1>1 DEF IInv, Types
    <3>2. y.ptr # b
      BY <2>1
    <3> HIDE DEF y
    <3>3. Pending("record", y) /\ y.ptr = b <=> Pending(pc[t], call[t]) /\ call[t].ptr = b
      BY <3>2 DEF y
    <3> QED BY <1>1, <3>1, <3>3, UnaccountedSame
  <2> QED BY <1>1, <2>1 DEF Accounted
<1>8. \A u \in Threads : u # t => ~ (call[u] \in MemoryCalls /\ call[u].ptr = a)
  BY <1>3 DEF Announced
<1>9. (a \in Accounted(n) <=> c.op = "deallocate") /\ (a \in Accounted(n)' <=> c.op = "allocate")
  <2>1. Unaccounted(a) <=> Pending(pc[t], c)
    BY <1>8 DEF Unaccounted, Pending
  <2>2. Unaccounted(a)' <=> Pending("record", c)
    <3>1. pc'[t] = "record" /\ call' = call
      BY <1>1 DEF IInv, Types
    <3>2. \A u \in Threads : Pending(pc'[u], call'[u]) /\ call'[u].ptr = a => u = t
      BY <1>8, <3>1 DEF Pending
    <3> QED BY <3>1, <3>2 DEF Unaccounted
  <2>3. (Pending(pc[t], c) <=> c.op = "allocate") /\ (Pending("record", c) <=> c.op = "deallocate")
    BY <1>1, <1>3 DEF Pending
  <2> QED BY <1>1, <1>3, <1>4, <2>1, <2>2, <2>3 DEF Accounted
<1>10. used = SumOver(HeldSizes, Accounted(n))
  <2>1. CASE e \in 1 .. num_spaces
    BY <1>3, <2>1 DEF Balanced
  <2>2. CASE e = num_spaces + 1
    <3>1. used = 0
      BY <1>3, <2>2 DEF Unused
    <3>2. Accounted(n) = {}
      BY <1>3, <2>2 DEF Balanced
    <3> QED BY <3>1, <3>2, SumEmpty
  <2> QED BY <1>3, <2>1, <2>2
<1>11. size = SumOver(HeldSizes, Accounted(n)')
  <2> DEFINE A == Accounted(n)
             B == Accounted(n)'
             g == HeldSizes
  <2>1. /\ IsFiniteSet(A) /\ A \subseteq DOMAIN memory
        /\ \A b \in DOMAIN memory : g[b] \in Nat
    BY AccountedFinite
  <2>2. CASE c.op = "allocate"
    <3>1. a \notin A /\ B = A \cup {a}
      BY <1>7, <1>9, <2>2
    <3>2. \A b \in A \cup {a} : g[b] \in Int
      BY <1>4, <2>1
    <3>3. size = used + c.size
      BY <2>2 DEF NewSize
    <3>4. g[a] = c.size
      BY <1>4
    <3> HIDE DEF A, B, g, a
    <3>5. SumOver(g, A \cup {a}) = SumOver(g, A) + g[a]
      BY <2>1, <3>1, <3>2, SumAdd
    <3>6. used = SumOver(g, A)
      BY <1>10 DEF A, g
    <3>7. size = SumOver(g, B)
      BY <3>1, <3>3, <3>4, <3>5, <3>6
    <3> QED BY <3>7 DEF B, g
  <2>3. CASE c.op = "deallocate"
    <3>1. a \in A /\ B = A \ {a}
      BY <1>7, <1>9, <2>3
    <3>2. \A b \in A : g[b] \in Int /\ g[b] \in Nat
      BY <2>1
    <3>3. size = IF used >= c.size THEN used - c.size ELSE used
      BY <2>3 DEF NewSize
    <3>4. g[a] = c.size
      BY <1>4
    <3> HIDE DEF A, B, g, a
    <3>5. SumOver(g, A) = g[a] + SumOver(g, A \ {a})
      BY <2>1, <3>1, <3>2, SumWithout
    <3>6. used = SumOver(g, A)
      BY <1>10 DEF A, g
    <3>7. SumOver(g, B) \in Nat
      <4>1. IsFiniteSet(B) /\ \A b \in B : g[b] \in Nat
        BY <2>1, <3>1, <3>2, FS_Subset
      <4> QED BY <4>1, SumNat
    <3>8. used = c.size + SumOver(g, B)
      BY <3>1, <3>4, <3>5, <3>6
    <3>9. size = SumOver(g, B)
      BY <1>3, <3>3, <3>7, <3>8
    <3> QED BY <3>9 DEF B, g
  <2> QED BY <1>3, <2>2, <2>3
<1>12. /\ num_spaces' = IF e = num_spaces + 1 THEN num_spaces + 1 ELSE num_spaces
       /\ \A s \in 1 .. num_spaces : space_name'[s] = space_name[s]
       /\ e \in 1 .. num_spaces' /\ space_name'[e] = n
  <2>1. space_name \in Seq(SpaceNames) /\ n \in SpaceNames
    BY <1>3 DEF Types, IInv
  <2>2. CASE e = num_spaces + 1
    BY <1>1, <1>3, <2>1, <2>2 DEF num_spaces
  <2>3. CASE e # num_spaces + 1
    BY <1>1, <1>3, <2>3 DEF num_spaces
  <2> QED BY <2>2, <2>3
<1>13. /\ space_size'[e] = size
       /\ \A s \in 1 .. MaxSpaces : s # e => space_size'[s] = space_size[s]
  BY <1>1, <1>3 DEF IInv, Types
<1>14. num_spaces <= MaxSpaces
  BY TableLargeEnough DEF IInv, Types, SpacesDistinct, num_spaces
<1> HIDE DEF size, used, c, e, n, a
<1>15. ASSUME NEW s \in 1 .. num_spaces'
       PROVE  space_size'[s] = SumOver(HeldSizes', Accounted(space_name[s])')
  <2>1. CASE s = e
    <3>1. n' = n
      BY <1>1 DEF n, c
    <3>2. space_name'[s] = n'
      BY <1>12, <2>1, <3>1
    <3>3. Accounted(space_name[s])' = Accounted(n)'
      BY <3>2
    <3> QED BY <1>5, <1>11, <1>13, <2>1, <3>3
  <2>2. CASE s # e
    <3>1. s \in 1 .. num_spaces
      BY <1>3, <1>12, <2>2
    <3>2. space_name'[s] = space_name[s] /\ space_name[s] \in SpaceNames \ {n}
      BY <1>3, <1>12, <2>2, <3>1
    <3>3. space_size'[s] = space_size[s]
      BY <1>3, <1>13, <1>14, <2>2, <3>1, MemoryEventsAssumption
    <3>4. space_size[s] = SumOver(HeldSizes, Accounted(space_name[s]))
      BY <3>1 DEF Balanced
    <3>5. PICK k \in SpaceNames \ {n} : k = space_name[s] /\ k = space_name'[s]
      BY <3>2
    <3>6. Accounted(k)' = Accounted(k)
      BY <1>6
    <3>7. Accounted(space_name[s])' = Accounted(k)'
      BY <3>5
    <3>8. Accounted(space_name[s]) = Accounted(k)
      BY <3>5
    <3> QED BY <1>5, <3>3, <3>4, <3>6, <3>7, <3>8, Zenon
  <2> QED BY <2>1, <2>2
<1>16. ASSUME NEW k \in SpaceNames, \A s \in 1 .. num_spaces' : space_name'[s] # k
       PROVE  Accounted(k)' = {}
  <2>1. k # n /\ \A s \in 1 .. num_spaces : space_name[s] # k
    BY <1>3, <1>12, <1>16
  <2> QED BY <1>6, <2>1 DEF Balanced
<1> QED BY <1>15, <1>16

\* A step that touches no callback, memory or table keeps the balance.
LEMMA StutterUInv ==
  ASSUME UInv, IInv', UNCHANGED <<pc, call, memory, unseenFreed, space_name, space_size>>
  PROVE  UInv'
<1> USE DEF UInv
<1>1. Remembered' /\ Announced'
  BY DEF Remembered, Announced
<1>2. \A n \in SpaceNames : Accounted(n)' = Accounted(n)
  BY DEF Accounted, Unaccounted
<1> QED BY <1>1, <1>2, SameBalance

\* While no thread is in a callback, the size of every space is that of the memory
\* the host has allocated there: however the callbacks of any number of threads
\* interleave, none is added or subtracted twice or lost, and no deallocation is
\* passed over because more seems to be freed than there is
\* (kp_memory_events.cpp:111 and 132-133, kp_memory_usage.cpp).
THEOREM UsageOfHost == Spec => []UsageIsTrue
<1>1. RInv /\ UInv /\ [Next]_vars => UInv'
  <2> SUFFICES ASSUME RInv, UInv, [Next]_vars PROVE UInv'
    OBVIOUS
  <2>1. RInv'
    BY StepRefines
  <2>2. Unused /\ IInv'
    BY <2>1 DEF RInv
  <2>3. CASE Finalize
    BY <2>2, <2>3, StutterUInv DEF Finalize, tables
  <2>4. CASE UNCHANGED vars
    BY <2>2, <2>4, StutterUInv DEF vars, tables, host
  <2> QED BY <2>2, <2>3, <2>4, EnterUInv, LockUInv, FindUInv, AccountUInv, RecordUInv DEF Next
<1>2. UInv => UsageIsTrue
  <2> SUFFICES ASSUME UInv, Quiet, ~ unseenFreed
               PROVE  /\ \A s \in 1 .. num_spaces : space_size[s] = Live(space_name[s])
                      /\ \A n \in SpaceNames : Live(n) > 0 =>
                           \E s \in 1 .. num_spaces : space_name[s] = n
    BY DEF UsageIsTrue
  <2>1. \A a : ~ Unaccounted(a)
    BY IdleAssumption DEF UInv, IInv, Exclusion, Quiet, Unaccounted, Pending, Calls
  <2>2. \A n : Live(n) = SumOver(HeldSizes, Accounted(n))
    BY <2>1 DEF Live, HeldSizes, Accounted
  <2>3. \A s \in 1 .. num_spaces : space_size[s] = Live(space_name[s])
    BY <2>2 DEF UInv, Balanced
  <2>4. ASSUME NEW n \in SpaceNames, Live(n) > 0, \A s \in 1 .. num_spaces : space_name[s] # n
        PROVE  FALSE
    <3>1. Accounted(n) = {}
      BY <2>4 DEF UInv, Balanced
    <3>2. Live(n) = 0
      BY <2>2, <3>1, SumEmpty
    <3> QED BY <2>4, <3>2
  <2> QED BY <2>3, <2>4
<1> QED BY InitRInv, InitUInv, StepRefines, <1>1, <1>2, PTL DEF Spec

=============================================================================
