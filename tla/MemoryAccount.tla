--------------------------- MODULE MemoryAccount ----------------------------
(***************************************************************************)
(* What the memory tools promise (src/profiling/memory-events,             *)
(* src/profiling/memory-usage): whatever threads report allocations at the *)
(* same time, every callback takes effect at once, at one moment between   *)
(* its start and its return, on an account kept by the names of spaces.    *)
(* There are no locks, no tables and no indices here.                      *)
(***************************************************************************)
EXTENDS Integers, Sequences, Maps

CONSTANTS
  Threads, (* threads of the host                        *)
  Calls,   (* the callbacks they may be in               *)
  Idle,    (* no callback                                *)
  Recorded (* in a callback that has taken effect        *)

VARIABLES
  doing,   (* what each thread is doing                  *)
  logging, (* the tool writes a log of the events        *)
  usage,   (* space -> bytes in use                      *)
  peak,    (* space -> the most it ever had              *)
  log,     (* the events in the order they took effect   *)
  report   (* space -> the high water mark reported      *)

account == <<usage, peak, log, report>>

Init ==
  /\ doing = [t \in Threads |-> Idle]
  /\ logging \in BOOLEAN
  /\ usage = EmptyMap
  /\ peak = EmptyMap
  /\ log = << >>
  /\ report = EmptyMap

Enter(t, call) ==
  /\ doing[t] = Idle
  /\ doing' = [doing EXCEPT ![t] = call]
  /\ UNCHANGED <<logging, account>>

Of(map, space) == IF space \in DOMAIN map THEN map[space] ELSE 0

\* Memory the tool has not seen cannot be taken off.
Balance(call) ==
  LET used == Of(usage, call.space)
  IN CASE call.op = "allocate"   -> used + call.size
       [] call.op = "deallocate" -> IF call.size <= used THEN used - call.size ELSE used

MovesMemory(call) == call.op \in {"allocate", "deallocate"}

Take(call) ==
  IF MovesMemory(call)
  THEN /\ usage' = Assign(usage, call.space, Balance(call))
       /\ peak' = Assign(peak, call.space,
                    IF Balance(call) > Of(peak, call.space) THEN Balance(call)
                    ELSE Of(peak, call.space))
  ELSE UNCHANGED <<usage, peak>>

Effect(t) ==
  /\ doing[t] \in Calls
  /\ Take(doing[t])
  /\ log' = IF logging THEN Append(log, doing[t]) ELSE log
  /\ doing' = [doing EXCEPT ![t] = Recorded]
  /\ UNCHANGED <<logging, report>>

Return(t) ==
  /\ doing[t] = Recorded
  /\ doing' = [doing EXCEPT ![t] = Idle]
  /\ UNCHANGED <<logging, account>>

Close ==
  /\ \A t \in Threads : doing[t] = Idle
  /\ report' = peak
  /\ UNCHANGED <<doing, logging, usage, peak, log>>

Next ==
  \/ \E t \in Threads, call \in Calls : Enter(t, call)
  \/ \E t \in Threads : Effect(t)
  \/ \E t \in Threads : Return(t)
  \/ Close

Spec == Init /\ [][Next]_<<doing, logging, account>>

=============================================================================
