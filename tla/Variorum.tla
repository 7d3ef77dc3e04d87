------------------------------ MODULE Variorum ------------------------------
(***************************************************************************)
(* The Variorum connector,                                                 *)
(* src/profiling/variorum-connector/variorum-connector.cpp: the power of   *)
(* the GPU is read at the begin and at the end of a kernel, and the energy *)
(* between the two readings is written.                                    *)
(*                                                                         *)
(* One function is called for both, and goes by which of its two pairs of  *)
(* variables are still 0.  A reading may lack the power, the time or the   *)
(* whole socket, and its power may be 0.                                   *)
(***************************************************************************)
EXTENDS HostTrace

CONSTANT Powers (* powers that may be read, in Watt; 0 for an idle device *)

VARIABLES
  global_power,       (* the first and the second reading, 0 for none        *)
  global_time,        (* their times                                         *)
  global_kernel_name,
  global_filename,    (* where records go; "" until create_file              *)
  records,            (* in the file: [name, from, to, energy]               *)
  missed,             (* a reading had no power, or a power of 0             *)
  untimed             (* numbers of the records with a power that had no     *)
                      (* time; this and missed are history variables         *)

powerVars == <<global_power, global_time, global_kernel_name, global_filename, records, missed,
               untimed>>

\* What the JSON may hold: the power and the timestamp of socket_0 may be missing.
Readings ==
  [socket : {TRUE}, timestamp : BOOLEAN, gpu : {TRUE}, power : Powers] \cup
  [socket : {TRUE}, timestamp : BOOLEAN, gpu : {FALSE}] \cup
  [socket : {FALSE}, timestamp : {FALSE}, gpu : {FALSE}]

\* create_file is called by the library's init.
InitPower(file) ==
  /\ global_power = <<0, 0>>
  /\ global_time = <<0, 0>>
  /\ global_kernel_name = ""
  /\ global_filename = file
  /\ records = << >>
  /\ missed = FALSE
  /\ untimed = {}

\* The first value that is still 0 is set, or else the second.
Noted(pair, value) == IF pair[1] = 0 THEN <<value, pair[2]>> ELSE <<pair[1], value>>

\* Mutant: the times are kept for the next kernel.
TimesKept(times) == times

TimesReset(times) == <<0, 0>>

\* The average is taken of whole Watts.
Energy(power, time) == ((power[1] + power[2]) \div 2) * (time[2] - time[1])

BothRead(power, time) == power[1] # 0 /\ power[2] # 0

\* json_integer_value of a timestamp that is missing is 0.
Timestamp(reading, now) == IF reading.timestamp THEN now ELSE 0

\* A power that counts, without its time.
LacksTime(reading) == reading.gpu /\ reading.power # 0 /\ ~ reading.timestamp

\* variorum_call for the kernel called name.
variorum_call(name, reading, now) ==
  LET time  == IF reading.socket THEN Noted(global_time, Timestamp(reading, now))
                                 ELSE global_time
      power == IF reading.gpu THEN Noted(global_power, reading.power) ELSE global_power
  IN /\ global_kernel_name' = name
     /\ missed' = (missed \/ ~ reading.gpu \/ reading.power = 0)
     /\ untimed' = IF LacksTime(reading) THEN untimed \cup {Len(records) + 1} ELSE untimed
     /\ IF BothRead(power, time)
        THEN /\ records' = IF global_filename = "" THEN records
                           ELSE Append(records, [name |-> name, from |-> time[1], to |-> time[2],
                                                 energy |-> Energy(power, time)])
             /\ global_power' = <<0, 0>>
             /\ global_time' = TimesReset(time)
        ELSE /\ global_power' = power
             /\ global_time' = time
             /\ UNCHANGED records
     /\ UNCHANGED global_filename

\* Timestamps are later at a begin than at the ends before it, and the other way
\* round; ends that follow each other may have the same one.
BeginTime(at) == 2 * at + 1
EndTime       == 2 * begun

PowerBegin(name, reading) == variorum_call(name, reading, BeginTime(begun))

PowerEnd(reading) == variorum_call(global_kernel_name, reading, EndTime)

-----------------------------------------------------------------------------
(* Properties                                                              *)

\* No energy is counted twice, and none for no time: however kernels overlap, and
\* whichever readings lack the socket or the power, the records are of periods one
\* after the other, each with a begin before its end.  Only a record one of whose two
\* powers had no time may end at 0, and have an energy of 0 or less; the periods of
\* all the others stay apart (lines 64-142).
PeriodsApart ==
  /\ \A i \in DOMAIN records : i \notin untimed => records[i].to # 0
  /\ \A i \in DOMAIN records : records[i].to # 0 =>
       0 < records[i].from /\ records[i].from <= records[i].to
  /\ \A i, j \in DOMAIN records : i < j /\ records[i].to # 0 /\ records[j].to # 0 =>
       records[i].to <= records[j].from

\* While no kernel begins within another and no power is missing or 0, the end of a
\* kernel writes the record of that kernel, and no other step writes any.  The record
\* is from the kernel's begin to its end, unless one of its times was missing
\* (lines 64-142 and 176-208).
WritesKernel ==
  LET kernels == OpenKinds(KernelKinds)
      ends    == Len(OpenKinds(KernelKinds)') < Len(kernels)
  IN ~ missed' /\ "kernels" \notin slips' /\ global_filename # "" =>
       IF ~ ends THEN records' = records
       ELSE /\ Len(records') = Len(records) + 1
            /\ Last(records').name = Last(kernels).name
            /\ Len(records') \notin untimed' =>
                 <<Last(records').from, Last(records').to>> = <<BeginTime(Last(kernels).at), EndTime>>

=============================================================================
