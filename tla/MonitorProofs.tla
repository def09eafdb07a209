---------------------------- MODULE MonitorProofs ----------------------------
(***************************************************************************)
(* Proofs about the monitor's log, its readers, and the records of the     *)
(* exchange rate canister: for every number of pairs, heartbeats and       *)
(* callers, however the calls between the two canisters end and whenever   *)
(* either is upgraded.                                                     *)
(***************************************************************************)
EXTENDS MonitorProperties, SumTheorems, SequenceTheorems

EntryType ==
    [pair : ToSet(MonitoredPairs), timestamp : Nat, result : Results \cup {"CallError"},
     epoch : Nat]

(* Types, and what goes with them: a batch is at one of its requests, and  *)
(* entries are not empty, so there are at most as many as bytes.           *)
TypeInv ==
    /\ TypeOK
    /\ \A h \in Heartbeats : IsSampling(h) => batches[h].next >= 1
    /\ upgrades \in [xrc : Nat, monitor : Nat]
    /\ entries \in Seq(EntryType) /\ Len(entries) <= Used

(* The size of a log, entry by entry. *)
SizesOf(log) == [i \in DOMAIN log |-> SizeOf[log[i].result]]

LEMMA SizeOfLog ==
    ASSUME NEW log \in Seq(EntryType)
    PROVE  /\ SumFunction(SizesOf(log)) \in Nat
           /\ \A entry \in EntryType :
                 /\ SizeOf[entry.result] \in Nat \ {0}
                 /\ SumFunction(SizesOf(Append(log, entry)))
                        = SumFunction(SizesOf(log)) + SizeOf[entry.result]
<1>1. \A entry \in EntryType : SizeOf[entry.result] \in Nat \ {0}
  BY MonitorAssumption DEF EntryType
<1> DEFINE n == Len(log)
           sizes == SizesOf(log)
<1>2. n \in Nat /\ IsFiniteSet(1..n) /\ DOMAIN log = 1..n
  BY FS_Interval
<1>3. /\ SumFunction(sizes) = SumFunctionOnSet(sizes, 1..n)
      /\ \A i \in 1..n : sizes[i] \in Nat /\ sizes[i] = SizeOf[log[i].result]
  BY <1>1, <1>2 DEF SumFunction, SizesOf
<1> HIDE DEF n, sizes
<1>4. SumFunction(sizes) \in Nat
  BY <1>2, <1>3, SumNat
<1>5. ASSUME NEW entry \in EntryType
      PROVE  SumFunction(SizesOf(Append(log, entry))) = SumFunction(sizes) + SizeOf[entry.result]
  <2> DEFINE longer == Append(log, entry)
             more == SizesOf(longer)
  <2>1. /\ DOMAIN longer = (1..n) \cup {n + 1} /\ n + 1 \notin 1..n
        /\ longer[n + 1] = entry /\ \A i \in 1..n : longer[i] = log[i]
    BY <1>2, AppendProperties DEF n
  <2> HIDE DEF longer
  <2>2. /\ SumFunction(more) = SumFunctionOnSet(more, (1..n) \cup {n + 1})
        /\ more[n + 1] = SizeOf[entry.result]
        /\ \A i \in 1..n : more[i] = sizes[i]
    BY <1>3, <2>1 DEF SumFunction, SizesOf
  <2> HIDE DEF more
  <2>3. \A i \in (1..n) \cup {n + 1} : more[i] \in Int
    BY <1>1, <1>3, <2>2
  <2>4. SumFunctionOnSet(more, (1..n) \cup {n + 1}) = SumFunctionOnSet(more, 1..n) + more[n + 1]
    BY <1>2, <2>1, <2>3, SumAdd
  <2>5. SumFunctionOnSet(more, 1..n) = SumFunctionOnSet(sizes, 1..n)
    BY <1>2, <1>3, <2>2, SumSame
  <2> QED
    BY <1>3, <2>2, <2>4, <2>5 DEF more, longer
<1> QED
  BY <1>1, <1>4, <1>5 DEF sizes

LEMMA MinuteProperties ==
    \A t \in Nat : /\ MinuteOf(t) \in Nat
                   /\ t >= ONE_MINUTE_SECONDS => MinuteOf(t) >= ONE_MINUTE_SECONDS
                   /\ \A u \in Nat : t <= u => MinuteOf(t) <= MinuteOf(u)
BY DEF MinuteOf, ONE_MINUTE_SECONDS

(* A pair has one place in a batch. *)
LEMMA Positions ==
    /\ Len(MonitoredPairs) \in Nat \ {0}
    /\ \A i \in 1..Len(MonitoredPairs) :
          MonitoredPairs[i] \in ToSet(MonitoredPairs) /\ Position(MonitoredPairs[i]) = i
<1>1. /\ Len(MonitoredPairs) \in Nat \ {0} /\ DOMAIN MonitoredPairs = 1..Len(MonitoredPairs)
  BY MonitorAssumption, EmptySeq
<1>2. ASSUME NEW i \in 1..Len(MonitoredPairs)
      PROVE  MonitoredPairs[i] \in ToSet(MonitoredPairs) /\ Position(MonitoredPairs[i]) = i
  BY <1>1, MonitorAssumption DEF ToSet, Position, IsInjective
<1> QED
  BY <1>1, <1>2

-----------------------------------------------------------------------------
(* What a step does to the batches and to the log *)

(* A batch is at its n-th request. *)
LEMMA BatchType ==
    ASSUME TypeInv, NEW h \in Heartbeats, IsSampling(h)
    PROVE  /\ batches[h].start \in Nat /\ batches[h].next \in 1..Len(MonitoredPairs)
           /\ calls[h] # NoCall
BY DEF TypeInv, TypeOK

LEMMA AnsweredCall ==
    ASSUME TypeInv, NEW h \in Heartbeats, calls[h].phase = "answered"
    PROVE  IsSampling(h) /\ Entry(batches[h], calls[h].result) \in EntryType
<1>1. IsSampling(h) /\ calls[h].result \in Results \cup {"CallError"}
  BY DEF TypeInv, TypeOK, Callers, Call, NoCall
<1>2. batches[h].start \in Nat /\ batches[h].next \in 1..Len(MonitoredPairs)
  BY <1>1, BatchType
<1>3. Before(batches[h].start, ONE_MINUTE_SECONDS) \in Nat
  BY <1>2 DEF Before, ONE_MINUTE_SECONDS
<1>4. MonitoredPairs[batches[h].next] \in ToSet(MonitoredPairs)
  BY <1>2, Positions
<1> QED
  BY <1>1, <1>3, <1>4 DEF Entry, EntryType, TypeInv

(* The log grows by one entry, which there is room for, or stays.          *)
LEMMA AppendedCases ==
    ASSUME TypeInv, NEW entry \in EntryType, entries' = Appended(entry)
    PROVE  /\ entries' = entries \/ entries' = Append(entries, entry)
           /\ entries' \in Seq(EntryType) /\ Len(entries') <= Used' /\ Used' <= LogCapacity
<1>1. entries \in Seq(EntryType) /\ Len(entries) <= Used /\ Used <= LogCapacity
  BY DEF TypeInv, TypeOK
<1>2. /\ Used = SumFunction(SizesOf(entries)) /\ Used' = SumFunction(SizesOf(entries'))
      /\ Used \in Nat
  BY <1>1, SizeOfLog DEF Used, SizesOf
<1>3. CASE Used + SizeOf[entry.result] <= LogCapacity
  <2>1. entries' = Append(entries, entry)
    BY <1>3 DEF Appended
  <2>2. /\ SizeOf[entry.result] \in Nat \ {0}
        /\ SumFunction(SizesOf(entries')) = SumFunction(SizesOf(entries)) + SizeOf[entry.result]
    BY <1>1, <2>1, SizeOfLog
  <2>3. entries' \in Seq(EntryType) /\ Len(entries') = Len(entries) + 1
    BY <1>1, <2>1, AppendProperties
  <2>4. Len(entries) \in Nat
    BY <1>1
  <2> HIDE DEF Used
  <2> QED
    BY <1>1, <1>2, <1>3, <2>1, <2>2, <2>3, <2>4
<1>4. CASE ~ (Used + SizeOf[entry.result] <= LogCapacity)
  <2>1. entries' = entries
    BY <1>4 DEF Appended
  <2> QED
    BY <1>1, <2>1 DEF Used
<1> QED
  BY <1>3, <1>4

(* A batch that begins: none was under way, and it was due. *)
Begins(h) ==
    /\ ~IsSampling(h) /\ ~isCallingXrc /\ MinuteOf(now) >= nextCallAt
    /\ isCallingXrc' = TRUE
    /\ batches' = [batches EXCEPT ![h] = [start |-> MinuteOf(now), next |-> 1]]
    /\ UNCHANGED <<now, nextCallAt, entries, pages, upgrades>>

(* One that goes on to its next request. *)
GoesOn(h) ==
    /\ batches[h].next # Len(MonitoredPairs)
    /\ batches' = [batches EXCEPT ![h].next = @ + 1]
    /\ UNCHANGED <<isCallingXrc, nextCallAt>>

(* One that ends, in order or because its callback traps. *)
Completes(h) ==
    /\ isCallingXrc' = FALSE /\ nextCallAt' = batches[h].start + 5 * ONE_MINUTE_SECONDS
    /\ batches' = [batches EXCEPT ![h] = NoBatch]

Breaks(h) ==
    /\ batches' = [batches EXCEPT ![h] = NoBatch]
    /\ UNCHANGED <<isCallingXrc, nextCallAt>>

KeepsBatches == UNCHANGED <<isCallingXrc, nextCallAt, batches, entries, upgrades>>

(* The kinds of step, as the monitor sees them. *)
MonitorSteps ==
    \/ \E h \in Heartbeats : Begins(h)
    \/ \E h \in Heartbeats :
          /\ IsSampling(h) /\ calls[h].phase = "answered"
          /\ entries' = Appended(Entry(batches[h], calls[h].result))
          /\ GoesOn(h) \/ Completes(h)
          /\ UNCHANGED <<now, pages, upgrades>>
    \/ \E h \in Heartbeats :
          /\ IsSampling(h)
          /\ Completes(h) \/ Breaks(h)
          /\ UNCHANGED <<now, entries, pages, upgrades>>
    \/ KeepsBatches /\ UNCHANGED <<now, pages>>
    \/ /\ \A h \in Heartbeats : ~IsSampling(h)
       /\ isCallingXrc' = FALSE /\ nextCallAt' = 0
       /\ upgrades' = [upgrades EXCEPT !.monitor = @ + 1]
       /\ UNCHANGED <<now, batches, entries, pages>>
    \/ /\ upgrades' = [upgrades EXCEPT !.xrc = @ + 1]
       /\ UNCHANGED <<now, isCallingXrc, nextCallAt, batches, entries, pages>>
    \/ /\ \E limit \in Limits : Read(limit)
       /\ KeepsBatches /\ UNCHANGED now
    \/ /\ now' \in Moments /\ now' > now
       /\ KeepsBatches /\ UNCHANGED pages

LEMMA StepKinds ==
    ASSUME TypeInv, [Next]_vars
    PROVE  MonitorSteps
<1> USE DEF MonitorSteps, monitorVars, xrcVars
<1>1. ASSUME NEW h \in Heartbeats, Heartbeat(h)
      PROVE  MonitorSteps
  <2>1. h \in Free
    BY <1>1 DEF Heartbeat
  <2> QED
    BY <1>1, <2>1 DEF Heartbeat, IsDue, Begins, Free
<1>2. ASSUME NEW h \in Heartbeats, Record(h) \/ Abandon(h) \/ TrapMonitor(h)
      PROVE  MonitorSteps
  <2>1. IsSampling(h) /\ calls[h].phase = "answered"
    BY <1>2, AnsweredCall DEF Record, Abandon, TrapMonitor
  <2>2. CASE Record(h)
    BY <2>1, <2>2 DEF Record, Finish, GoesOn, Completes
  <2>3. CASE Abandon(h)
    BY <2>1, <2>3 DEF Abandon, Finish, Completes
  <2>4. CASE TrapMonitor(h)
    BY <2>1, <2>4 DEF TrapMonitor, Breaks
  <2> QED
    BY <1>2, <2>2, <2>3, <2>4
<1>3. ASSUME NEW h \in Heartbeats, CallFails(h) \/ Receive(h)
      PROVE  MonitorSteps
  BY <1>3 DEF CallFails, Receive, Arrive, KeepsBatches
<1>4. ASSUME NEW caller \in Callers,
             \/ RequestOf(caller) \/ TrapXrc(caller)
             \/ \E result \in Results : ReplyTo(caller, result)
      PROVE  MonitorSteps
  BY <1>4 DEF RequestOf, Arrive, TrapXrc, ReplyTo, KeepsBatches
<1>5. CASE UpgradeXrc
  BY <1>5 DEF UpgradeXrc
<1>6. CASE UpgradeMonitor
  BY <1>6 DEF UpgradeMonitor
<1>7. ASSUME NEW limit \in Limits, Read(limit)
      PROVE  MonitorSteps
  BY <1>7 DEF Read, KeepsBatches
<1>8. CASE Tick
  BY <1>8 DEF Tick, KeepsBatches
<1>9. CASE UNCHANGED vars
  BY <1>9 DEF vars, KeepsBatches
<1> QED
  BY <1>1, <1>2, <1>3, <1>4, <1>5, <1>6, <1>7, <1>8, <1>9 DEF Next

-----------------------------------------------------------------------------
(* Types *)

LEMMA CallTypes ==
    /\ NoCall \in Call /\ Sent \in Call /\ Open \in Call
    /\ \A result \in Results \cup {"CallError"} : Answered(result) \in Call
    /\ Sent # NoCall /\ Open # NoCall /\ \A result : Answered(result) # NoCall
    /\ Sent # Open /\ \A result : Answered(result) # Open
    /\ \A result : Answered(result).phase = "answered"
    /\ NoCall.phase # "answered" /\ Sent.phase # "answered" /\ Open.phase # "answered"
BY DEF Call, NoCall, Sent, Open, Answered

(* A step leaves the calls and the batches as they are, or changes those   *)
(* of one caller.                                                          *)
LEMMA CallsTyped ==
    ASSUME TypeInv, [Next]_vars
    PROVE  /\ calls' \in [Callers -> Call]
           /\ \A h \in Heartbeats : IsSampling(h)' <=> calls'[h] # NoCall
<1>1. /\ calls \in [Callers -> Call] /\ DOMAIN batches = Heartbeats
      /\ \A h \in Heartbeats : (batches[h] # NoBatch <=> calls[h] # NoCall) /\ h \in Callers
      /\ Heartbeats \cap Others = {}
  BY MonitorAssumption DEF TypeInv, TypeOK, Callers, IsSampling
<1> USE CallTypes DEF IsSampling, monitorVars, xrcVars
<1> SUFFICES /\ calls' \in [Callers -> Call]
             /\ \A h \in Heartbeats : batches'[h] # NoBatch <=> calls'[h] # NoCall
  OBVIOUS
<1>2. ASSUME NEW caller \in Callers, NEW call \in Call,
             calls' = [calls EXCEPT ![caller] = call], UNCHANGED batches,
             calls[caller] # NoCall, call # NoCall
      PROVE  /\ calls' \in [Callers -> Call]
             /\ \A h \in Heartbeats : batches'[h] # NoBatch <=> calls'[h] # NoCall
  BY <1>1, <1>2
<1>3. ASSUME NEW h \in Heartbeats, NEW call \in Call, NEW batch,
             calls' = [calls EXCEPT ![h] = call], batches' = [batches EXCEPT ![h] = batch],
             call = NoCall <=> batch = NoBatch
      PROVE  /\ calls' \in [Callers -> Call]
             /\ \A g \in Heartbeats : batches'[g] # NoBatch <=> calls'[g] # NoCall
  BY <1>1, <1>3
<1>4. \A result \in Results : result \in Results \cup {"CallError"}
  OBVIOUS
<1>5. ASSUME NEW h \in Heartbeats, Heartbeat(h)
      PROVE  /\ calls' \in [Callers -> Call]
             /\ \A g \in Heartbeats : batches'[g] # NoBatch <=> calls'[g] # NoCall
  <2>1. [start |-> MinuteOf(now), next |-> 1] # NoBatch
    BY DEF NoBatch
  <2> QED
    BY <1>3, <1>5, <2>1 DEF Heartbeat
<1>6. ASSUME NEW h \in Heartbeats, CallFails(h) \/ Receive(h)
      PROVE  /\ calls' \in [Callers -> Call]
             /\ \A g \in Heartbeats : batches'[g] # NoBatch <=> calls'[g] # NoCall
  BY <1>1, <1>2, <1>6 DEF CallFails, Receive, Arrive
<1>7. ASSUME NEW h \in Heartbeats, Record(h)
      PROVE  /\ calls' \in [Callers -> Call]
             /\ \A g \in Heartbeats : batches'[g] # NoBatch <=> calls'[g] # NoCall
  <2>1. batches[h] \in [start : Nat, next : 1..Len(MonitoredPairs)]
    BY <1>7, AnsweredCall, BatchType DEF Record, TypeInv, TypeOK
  <2>2. CASE batches[h].next = Len(MonitoredPairs)
    BY <1>3, <1>7, <2>2 DEF Record, Finish
  <2>3. CASE batches[h].next # Len(MonitoredPairs)
    <3> DEFINE batch == [batches[h] EXCEPT !.next = @ + 1]
    <3>1. batch # NoBatch
      BY <2>1 DEF NoBatch
    <3>2. batches' = [batches EXCEPT ![h] = batch] /\ calls' = [calls EXCEPT ![h] = Sent]
      BY <1>7, <2>3 DEF Record
    <3> HIDE DEF batch
    <3> QED
      BY <1>3, <3>1, <3>2
  <2> QED
    BY <2>2, <2>3
<1>8. ASSUME NEW h \in Heartbeats, Abandon(h) \/ TrapMonitor(h)
      PROVE  /\ calls' \in [Callers -> Call]
             /\ \A g \in Heartbeats : batches'[g] # NoBatch <=> calls'[g] # NoCall
  BY <1>3, <1>8 DEF Abandon, TrapMonitor, Finish
<1>9. ASSUME NEW caller \in Callers,
             \/ RequestOf(caller) \/ TrapXrc(caller)
             \/ \E result \in Results : ReplyTo(caller, result)
      PROVE  /\ calls' \in [Callers -> Call]
             /\ \A g \in Heartbeats : batches'[g] # NoBatch <=> calls'[g] # NoCall
  <2>1. CASE RequestOf(caller)
    BY <1>1, <2>1 DEF RequestOf, Arrive
  <2>2. ASSUME NEW result \in Results \cup {"CallError"}, calls[caller] = Open,
               calls' = [calls EXCEPT ![caller] = Return(caller, result)], UNCHANGED batches
        PROVE  /\ calls' \in [Callers -> Call]
               /\ \A g \in Heartbeats : batches'[g] # NoBatch <=> calls'[g] # NoCall
    BY <1>1, <2>2 DEF Return
  <2> QED
    BY <1>4, <1>9, <2>1, <2>2 DEF TrapXrc, ReplyTo
<1>10. CASE UNCHANGED <<calls, batches>>
  BY <1>1, <1>10
<1> QED
  BY <1>5, <1>6, <1>7, <1>8, <1>9, <1>10
     DEF Next, vars, UpgradeXrc, UpgradeMonitor, Read, Tick

LEMMA BatchesTyped ==
    ASSUME TypeInv, [Next]_vars
    PROVE  /\ batches' \in [Heartbeats -> [start : Nat, next : 0..Len(MonitoredPairs)]]
           /\ \A h \in Heartbeats : IsSampling(h)' => batches'[h].next >= 1
           /\ now' \in Moments /\ isCallingXrc' \in BOOLEAN /\ nextCallAt' \in Nat
           /\ upgrades' \in [xrc : Nat, monitor : Nat]
<1> DEFINE Batch == [start : Nat, next : 0..Len(MonitoredPairs)]
<1>1. /\ batches \in [Heartbeats -> Batch]
      /\ \A h \in Heartbeats : batches[h] # NoBatch => batches[h].next >= 1
      /\ now \in Moments /\ isCallingXrc \in BOOLEAN /\ nextCallAt \in Nat
      /\ upgrades \in [xrc : Nat, monitor : Nat]
  BY DEF TypeInv, TypeOK, IsSampling
<1>2. Len(MonitoredPairs) \in Nat \ {0} /\ MinuteOf(now) \in Nat
  BY <1>1, Positions, MinuteProperties, MonitorAssumption
<1>3. NoBatch \in Batch /\ [start |-> MinuteOf(now), next |-> 1] \in Batch
  BY <1>2 DEF NoBatch
<1>4. SUFFICES /\ batches' \in [Heartbeats -> Batch]
               /\ \A h \in Heartbeats : batches'[h] # NoBatch => batches'[h].next >= 1
               /\ now' \in Moments /\ isCallingXrc' \in BOOLEAN /\ nextCallAt' \in Nat
               /\ upgrades' \in [xrc : Nat, monitor : Nat]
  BY DEF IsSampling
<1>5. ASSUME NEW h \in Heartbeats, Begins(h)
      PROVE  /\ batches' \in [Heartbeats -> Batch]
             /\ \A g \in Heartbeats : batches'[g] # NoBatch => batches'[g].next >= 1
             /\ isCallingXrc' \in BOOLEAN /\ nextCallAt' \in Nat
  BY <1>1, <1>3, <1>5 DEF Begins
<1>6. ASSUME NEW h \in Heartbeats, GoesOn(h)
      PROVE  /\ batches' \in [Heartbeats -> Batch]
             /\ \A g \in Heartbeats : batches'[g] # NoBatch => batches'[g].next >= 1
             /\ isCallingXrc' \in BOOLEAN /\ nextCallAt' \in Nat
  <2>1. batches[h] \in Batch /\ batches[h].next # Len(MonitoredPairs)
    BY <1>1, <1>6 DEF GoesOn
  <2>2. /\ [batches[h] EXCEPT !.next = @ + 1] \in Batch
        /\ [batches[h] EXCEPT !.next = @ + 1].next >= 1
    BY <1>2, <2>1
  <2> DEFINE next == [batches[h] EXCEPT !.next = @ + 1]
  <2>3. batches' = [batches EXCEPT ![h] = next]
    BY <1>6 DEF GoesOn
  <2> HIDE DEF next, Batch
  <2>4. next \in Batch /\ next.next >= 1
    BY <2>2 DEF next
  <2> QED
    BY <1>1, <1>6, <2>3, <2>4 DEF GoesOn
<1>7. ASSUME NEW h \in Heartbeats, Completes(h) \/ Breaks(h)
      PROVE  /\ batches' \in [Heartbeats -> Batch]
             /\ \A g \in Heartbeats : batches'[g] # NoBatch => batches'[g].next >= 1
             /\ isCallingXrc' \in BOOLEAN /\ nextCallAt' \in Nat
  <2>1. batches[h].start + 5 * ONE_MINUTE_SECONDS \in Nat
    BY <1>1 DEF ONE_MINUTE_SECONDS
  <2> QED
    BY <1>1, <1>3, <1>7, <2>1 DEF Completes, Breaks
<1>8. upgrades' \in [xrc : Nat, monitor : Nat]
  <2>1. /\ [upgrades EXCEPT !.monitor = @ + 1] \in [xrc : Nat, monitor : Nat]
        /\ [upgrades EXCEPT !.xrc = @ + 1] \in [xrc : Nat, monitor : Nat]
    BY <1>1
  <2>2. \/ UNCHANGED upgrades
        \/ upgrades' = [upgrades EXCEPT !.monitor = @ + 1]
        \/ upgrades' = [upgrades EXCEPT !.xrc = @ + 1]
    BY StepKinds DEF MonitorSteps, Begins, KeepsBatches
  <2> QED
    BY <1>1, <2>1, <2>2
<1>9. now' \in Moments
  BY <1>1, StepKinds DEF MonitorSteps, Begins, KeepsBatches
<1>10. \/ \E h \in Heartbeats : Begins(h) \/ GoesOn(h) \/ Completes(h) \/ Breaks(h)
       \/ UNCHANGED <<isCallingXrc, nextCallAt, batches>>
       \/ isCallingXrc' = FALSE /\ nextCallAt' = 0 /\ UNCHANGED batches
  BY StepKinds DEF MonitorSteps, KeepsBatches
<1> HIDE DEF Batch
<1>11. /\ batches' \in [Heartbeats -> Batch]
       /\ \A g \in Heartbeats : batches'[g] # NoBatch => batches'[g].next >= 1
       /\ isCallingXrc' \in BOOLEAN /\ nextCallAt' \in Nat
  <2>1. CASE \E h \in Heartbeats : Begins(h) \/ GoesOn(h) \/ Completes(h) \/ Breaks(h)
    BY <1>5, <1>6, <1>7, <2>1
  <2>2. CASE UNCHANGED <<isCallingXrc, nextCallAt, batches>>
    BY <1>1, <2>2
  <2>3. CASE isCallingXrc' = FALSE /\ nextCallAt' = 0 /\ UNCHANGED batches
    BY <1>1, <2>3
  <2> QED
    BY <1>10, <2>1, <2>2, <2>3
<1> QED
  BY <1>8, <1>9, <1>11

LEMMA LogTyped ==
    ASSUME TypeInv, [Next]_vars
    PROVE  entries' \in Seq(EntryType) /\ Len(entries') <= Used' /\ Used' <= LogCapacity
<1>1. CASE UNCHANGED entries
  BY <1>1 DEF TypeInv, TypeOK, Used
<1>2. ASSUME NEW h \in Heartbeats, calls[h].phase = "answered",
             entries' = Appended(Entry(batches[h], calls[h].result))
      PROVE  entries' \in Seq(EntryType) /\ Len(entries') <= Used' /\ Used' <= LogCapacity
  BY <1>2, AnsweredCall, AppendedCases
<1> QED
  BY <1>1, <1>2, StepKinds DEF MonitorSteps, Begins, KeepsBatches

LEMMA TypeInvStep == TypeInv /\ [Next]_vars => TypeInv'
<1> SUFFICES ASSUME TypeInv, [Next]_vars PROVE TypeInv'
  OBVIOUS
<1>1. stuck' \in BOOLEAN
  BY DEF TypeInv, TypeOK, Next, vars, monitorVars, xrcVars, Heartbeat, CallFails, Receive, Arrive,
         Record, Abandon, TrapMonitor, RequestOf, TrapXrc, ReplyTo, UpgradeXrc, UpgradeMonitor,
         Read, Tick
<1> QED
  BY <1>1, CallsTyped, BatchesTyped, LogTyped DEF TypeInv, TypeOK

LEMMA TypeInvInit == Init => TypeInv
<1> SUFFICES ASSUME Init PROVE TypeInv
  OBVIOUS
<1>1. NoBatch \in [start : Nat, next : 0..Len(MonitoredPairs)]
  BY Positions DEF NoBatch
<1>2. Used = 0
  <2>1. DOMAIN entries = {}
    BY DEF Init
  <2> QED
    BY <2>1, SumEmpty DEF Used, SumFunction
<1>3. entries \in Seq(EntryType) /\ Len(entries) = 0
  BY DEF Init
<1>4. /\ batches = [h \in Heartbeats |-> NoBatch] /\ calls = [c \in Callers |-> NoCall]
      /\ now \in Moments /\ isCallingXrc = FALSE /\ nextCallAt = 0 /\ stuck = FALSE
      /\ upgrades = [xrc |-> 0, monitor |-> 0]
  BY DEF Init
<1>5. \A h \in Heartbeats : ~IsSampling(h) /\ calls[h] = NoCall
  BY <1>4 DEF IsSampling, Callers
<1>6. /\ batches \in [Heartbeats -> [start : Nat, next : 0..Len(MonitoredPairs)]]
      /\ calls \in [Callers -> Call]
  BY <1>1, <1>4, CallTypes
<1> HIDE DEF Used
<1>7. Len(entries) <= Used /\ Used <= LogCapacity
  BY <1>2, <1>3, MonitorAssumption
<1>8. TypeOK
  BY <1>4, <1>5, <1>6, <1>7 DEF TypeOK
<1> QED
  BY <1>3, <1>4, <1>5, <1>7, <1>8 DEF TypeInv

LEMMA TypeInvariant == Spec => []TypeInv
BY TypeInvInit, TypeInvStep, PTL DEF Spec

(* Every variable of the monitor has its type, a heartbeat has a call      *)
(* under way exactly while it samples, and the log fits into its memory,   *)
(* whatever the entries and whatever room there is (state.rs).             *)
THEOREM TypeCorrect == Spec => []TypeOK
<1>1. TypeInv => TypeOK
  BY DEF TypeInv
<1> QED
  BY <1>1, TypeInvariant, PTL

-----------------------------------------------------------------------------
(* The order of the log *)

(* One batch at a time: the flag is up as long as a batch is under way.    *)
OneBatch ==
    /\ \A h \in Heartbeats : IsSampling(h) =>
          /\ isCallingXrc
          /\ ONE_MINUTE_SECONDS <= batches[h].start /\ batches[h].start <= MinuteOf(now)
    /\ \A g, h \in Heartbeats : IsSampling(g) /\ IsSampling(h) => g = h

(* When the batch of an entry began. *)
StartOf(entry) == entry.timestamp + ONE_MINUTE_SECONDS

(* An entry lies behind what the batch under way adds, and behind what the *)
(* next batch will add.                                                    *)
IsBehind(entry) ==
    /\ entry.epoch <= upgrades.monitor
    /\ StartOf(entry) <= MinuteOf(now)
    /\ entry.epoch = upgrades.monitor /\ ~isCallingXrc =>
          StartOf(entry) + 5 * ONE_MINUTE_SECONDS <= nextCallAt
    /\ \A h \in Heartbeats : IsSampling(h) =>
          IF entry.epoch < upgrades.monitor THEN StartOf(entry) <= batches[h].start
          ELSE \/ StartOf(entry) = batches[h].start /\ Position(entry.pair) < batches[h].next
               \/ StartOf(entry) + 5 * ONE_MINUTE_SECONDS <= batches[h].start

LogBehind == \A i \in DOMAIN entries : IsBehind(entries[i])

OrderInv == OneBatch /\ LogBehind /\ LogInOrder

(* The batches after a step. *)
LEMMA BatchesAfter ==
    ASSUME TypeInv, NEW h \in Heartbeats
    PROVE  /\ Begins(h) => /\ batches'[h] = [start |-> MinuteOf(now), next |-> 1] /\ IsSampling(h)'
                           /\ \A g \in Heartbeats \ {h} : batches'[g] = batches[g]
           /\ GoesOn(h) => /\ batches'[h].start = batches[h].start
                           /\ batches'[h].next = batches[h].next + 1
                           /\ \A g \in Heartbeats \ {h} : batches'[g] = batches[g]
           /\ Completes(h) \/ Breaks(h) =>
                 /\ ~IsSampling(h)'
                 /\ \A g \in Heartbeats \ {h} : batches'[g] = batches[g]
<1>1. batches \in [Heartbeats -> [start : Nat, next : 0..Len(MonitoredPairs)]]
  BY DEF TypeInv, TypeOK
<1>2. [start |-> MinuteOf(now), next |-> 1] # NoBatch
  BY DEF NoBatch
<1>3. ASSUME Begins(h)
      PROVE  /\ batches'[h] = [start |-> MinuteOf(now), next |-> 1] /\ IsSampling(h)'
             /\ \A g \in Heartbeats \ {h} : batches'[g] = batches[g]
  BY <1>1, <1>2, <1>3 DEF Begins, IsSampling
<1>4. ASSUME GoesOn(h)
      PROVE  /\ batches'[h].start = batches[h].start
             /\ batches'[h].next = batches[h].next + 1
             /\ \A g \in Heartbeats \ {h} : batches'[g] = batches[g]
  <2>1. batches[h] \in [start : Nat, next : 0..Len(MonitoredPairs)]
    BY <1>1
  <2>2. /\ [batches[h] EXCEPT !.next = @ + 1].start = batches[h].start
        /\ [batches[h] EXCEPT !.next = @ + 1].next = batches[h].next + 1
    BY <2>1
  <2> QED
    BY <1>1, <1>4, <2>2 DEF GoesOn
<1>5. ASSUME Completes(h) \/ Breaks(h)
      PROVE  ~IsSampling(h)' /\ \A g \in Heartbeats \ {h} : batches'[g] = batches[g]
  BY <1>1, <1>5 DEF Completes, Breaks, IsSampling
<1> QED
  BY <1>3, <1>4, <1>5

(* The kinds of step again, as the batches and the time see them. *)
LEMMA BatchSteps ==
    ASSUME TypeInv, [Next]_vars
    PROVE  /\ now \in Nat /\ now >= ONE_MINUTE_SECONDS /\ now' \in Nat
           /\ \/ \E h \in Heartbeats : Begins(h)
              \/ \E h \in Heartbeats :
                    /\ IsSampling(h)
                    /\ GoesOn(h) \/ Completes(h) \/ Breaks(h)
                    /\ UNCHANGED <<now, upgrades>>
              \/ /\ UNCHANGED <<isCallingXrc, nextCallAt, batches>> /\ now' >= now
                 /\ upgrades'.monitor = upgrades.monitor
              \/ /\ \A h \in Heartbeats : ~IsSampling(h)
                 /\ upgrades'.monitor = upgrades.monitor + 1
                 /\ UNCHANGED <<now, batches>>
<1>1. now \in Nat /\ now >= ONE_MINUTE_SECONDS /\ now' \in Nat
  BY BatchesTyped, MonitorAssumption DEF TypeInv, TypeOK
<1>2. UNCHANGED now \/ now' > now => now' >= now
  BY <1>1
<1>3. /\ [upgrades EXCEPT !.monitor = @ + 1].monitor = upgrades.monitor + 1
      /\ [upgrades EXCEPT !.xrc = @ + 1].monitor = upgrades.monitor
  BY DEF TypeInv
<1> QED
  BY <1>1, <1>2, <1>3, StepKinds DEF MonitorSteps, KeepsBatches

LEMMA OneBatchStep == TypeInv /\ OneBatch /\ [Next]_vars => OneBatch'
<1> SUFFICES ASSUME TypeInv, OneBatch, [Next]_vars PROVE OneBatch'
  OBVIOUS
<1>1. now \in Nat /\ now >= ONE_MINUTE_SECONDS /\ now' \in Nat
  BY BatchSteps
<1>2. MinuteOf(now) \in Nat /\ MinuteOf(now) >= ONE_MINUTE_SECONDS
  BY <1>1, MinuteProperties
<1>3. \A h \in Heartbeats : IsSampling(h) => batches[h].start \in Nat
  BY BatchType
<1>4. ASSUME NEW h \in Heartbeats, Begins(h)
      PROVE  OneBatch'
  <2>1. \A g \in Heartbeats : ~IsSampling(g)
    BY <1>4 DEF OneBatch, Begins
  <2>2. MinuteOf(now)' = MinuteOf(now)
    BY <1>4 DEF Begins, MinuteOf
  <2> QED
    BY <1>2, <1>4, <2>1, <2>2, BatchesAfter DEF OneBatch, IsSampling, Begins
<1>5. ASSUME NEW h \in Heartbeats, IsSampling(h), GoesOn(h), UNCHANGED now
      PROVE  OneBatch'
  <2>1. MinuteOf(now)' = MinuteOf(now)
    BY <1>5 DEF MinuteOf
  <2> QED
    BY <1>5, <2>1, BatchesAfter DEF OneBatch, IsSampling, GoesOn
<1>6. ASSUME NEW h \in Heartbeats, IsSampling(h), Completes(h) \/ Breaks(h), UNCHANGED now
      PROVE  OneBatch'
  <2>1. \A g \in Heartbeats : ~IsSampling(g)'
    BY <1>6, BatchesAfter DEF OneBatch, IsSampling
  <2> QED
    BY <2>1 DEF OneBatch
<1>7. CASE UNCHANGED <<isCallingXrc, batches>> /\ now' >= now
  <2>1. MinuteOf(now') \in Nat /\ MinuteOf(now) <= MinuteOf(now')
    BY <1>1, <1>7, MinuteProperties
  <2>2. MinuteOf(now)' = MinuteOf(now')
    BY DEF MinuteOf
  <2> QED
    BY <1>2, <1>3, <1>7, <2>1, <2>2 DEF OneBatch, IsSampling
<1>8. CASE (\A h \in Heartbeats : ~IsSampling(h)) /\ UNCHANGED batches
  BY <1>8 DEF OneBatch, IsSampling
<1> QED
  BY <1>4, <1>5, <1>6, <1>7, <1>8, BatchSteps

(* An entry of a batch: it lies behind the batch once that has gone on, or *)
(* has ended.                                                              *)
LEMMA NewEntry ==
    ASSUME TypeInv, OneBatch, NEW h \in Heartbeats, IsSampling(h), NEW result
    PROVE  LET entry == Entry(batches[h], result)
           IN  /\ entry.epoch = upgrades.monitor /\ StartOf(entry) = batches[h].start
               /\ Position(entry.pair) = batches[h].next
<1>1. /\ batches[h].start \in Nat /\ batches[h].next \in 1..Len(MonitoredPairs)
      /\ batches[h].start >= ONE_MINUTE_SECONDS
  BY BatchType DEF OneBatch
<1>2. Before(batches[h].start, ONE_MINUTE_SECONDS) + ONE_MINUTE_SECONDS = batches[h].start
  BY <1>1 DEF Before, ONE_MINUTE_SECONDS
<1> QED
  BY <1>1, <1>2, Positions DEF Entry, StartOf

LEMMA EntryNumbers ==
    ASSUME NEW entry \in EntryType
    PROVE  /\ entry.epoch \in Nat /\ entry.timestamp \in Nat /\ StartOf(entry) \in Nat
           /\ Position(entry.pair) \in 1..Len(MonitoredPairs)
<1>1. /\ entry.timestamp \in Nat /\ entry.epoch \in Nat
      /\ entry.pair \in ToSet(MonitoredPairs)
  BY DEF EntryType
<1>2. PICK k \in 1..Len(MonitoredPairs) : entry.pair = MonitoredPairs[k]
  BY <1>1, MonitorAssumption DEF ToSet
<1> QED
  BY <1>1, <1>2, Positions DEF StartOf, ONE_MINUTE_SECONDS

(* What is behind stays behind. *)
LEMMA StaysBehind ==
    ASSUME TypeInv, OneBatch, [Next]_vars, NEW entry \in EntryType, IsBehind(entry)
    PROVE  IsBehind(entry)'
<1> DEFINE epoch == entry.epoch
           start == StartOf(entry)
           position == Position(entry.pair)
           current == upgrades.monitor
<1>1. /\ epoch \in Nat /\ start \in Nat /\ position \in 1..Len(MonitoredPairs)
      /\ current \in Nat /\ Len(MonitoredPairs) \in Nat
  BY EntryNumbers, Positions DEF TypeInv
<1>2. /\ epoch <= current /\ start <= MinuteOf(now)
      /\ epoch = current /\ ~isCallingXrc => start + 5 * ONE_MINUTE_SECONDS <= nextCallAt
      /\ \A h \in Heartbeats : IsSampling(h) =>
            IF epoch < current THEN start <= batches[h].start
            ELSE \/ start = batches[h].start /\ position < batches[h].next
                 \/ start + 5 * ONE_MINUTE_SECONDS <= batches[h].start
  BY DEF IsBehind
<1>3. /\ now \in Nat /\ now' \in Nat /\ MinuteOf(now) \in Nat /\ nextCallAt \in Nat
      /\ isCallingXrc \in BOOLEAN
  BY BatchSteps, MinuteProperties DEF TypeInv, TypeOK
<1>4. \A h \in Heartbeats : IsSampling(h) =>
          /\ batches[h].start \in Nat /\ batches[h].next \in 1..Len(MonitoredPairs)
  BY BatchType
<1> HIDE DEF epoch, start, position, current
<1>5. SUFFICES
        /\ epoch <= upgrades'.monitor /\ start <= MinuteOf(now')
        /\ epoch = upgrades'.monitor /\ ~isCallingXrc' =>
              start + 5 * ONE_MINUTE_SECONDS <= nextCallAt'
        /\ \A h \in Heartbeats : batches'[h] # NoBatch =>
              IF epoch < upgrades'.monitor THEN start <= batches'[h].start
              ELSE \/ start = batches'[h].start /\ position < batches'[h].next
                   \/ start + 5 * ONE_MINUTE_SECONDS <= batches'[h].start
  BY DEF IsBehind, epoch, start, position, StartOf, IsSampling, MinuteOf
<1>6. ASSUME NEW h \in Heartbeats, Begins(h)
      PROVE  /\ epoch <= upgrades'.monitor /\ start <= MinuteOf(now')
             /\ epoch = upgrades'.monitor /\ ~isCallingXrc' =>
                   start + 5 * ONE_MINUTE_SECONDS <= nextCallAt'
             /\ \A g \in Heartbeats : batches'[g] # NoBatch =>
                   IF epoch < upgrades'.monitor THEN start <= batches'[g].start
                   ELSE \/ start = batches'[g].start /\ position < batches'[g].next
                        \/ start + 5 * ONE_MINUTE_SECONDS <= batches'[g].start
  <2>1. /\ upgrades'.monitor = current /\ now' = now /\ isCallingXrc' /\ ~isCallingXrc
        /\ MinuteOf(now) >= nextCallAt
    BY <1>6 DEF Begins, current
  <2>2. /\ \A g \in Heartbeats \ {h} : batches'[g] = NoBatch
        /\ batches'[h].start = MinuteOf(now)
    <3>1. \A g \in Heartbeats : batches[g] = NoBatch
      BY <1>6 DEF OneBatch, Begins, IsSampling
    <3> QED
      BY <1>6, <3>1, BatchesAfter
  <2>3. epoch = current => start + 5 * ONE_MINUTE_SECONDS <= MinuteOf(now)
    BY <1>1, <1>2, <1>3, <2>1 DEF ONE_MINUTE_SECONDS
  <2> QED
    BY <1>1, <1>2, <2>1, <2>2, <2>3
<1>7. ASSUME NEW h \in Heartbeats, IsSampling(h), GoesOn(h) \/ Completes(h) \/ Breaks(h),
             UNCHANGED <<now, upgrades>>
      PROVE  /\ epoch <= upgrades'.monitor /\ start <= MinuteOf(now')
             /\ epoch = upgrades'.monitor /\ ~isCallingXrc' =>
                   start + 5 * ONE_MINUTE_SECONDS <= nextCallAt'
             /\ \A g \in Heartbeats : batches'[g] # NoBatch =>
                   IF epoch < upgrades'.monitor THEN start <= batches'[g].start
                   ELSE \/ start = batches'[g].start /\ position < batches'[g].next
                        \/ start + 5 * ONE_MINUTE_SECONDS <= batches'[g].start
  <2>1. upgrades'.monitor = current /\ now' = now /\ isCallingXrc
    BY <1>7 DEF current, OneBatch
  <2>2. \A g \in Heartbeats \ {h} : batches'[g] = NoBatch
    BY <1>7, BatchesAfter DEF OneBatch, IsSampling
  <2>3. CASE GoesOn(h)
    <3>1. isCallingXrc'
      BY <2>1, <2>3 DEF GoesOn
    <3>2. batches'[h].start = batches[h].start /\ batches'[h].next = batches[h].next + 1
      BY <2>3, BatchesAfter
    <3> QED
      BY <1>1, <1>2, <1>4, <1>7, <2>1, <2>2, <3>1, <3>2
  <2>4. CASE Completes(h)
    <3>1. batches'[h] = NoBatch /\ nextCallAt' = batches[h].start + 5 * ONE_MINUTE_SECONDS
      BY <2>4, BatchesAfter DEF Completes, IsSampling
    <3>2. epoch = current => start <= batches[h].start
      BY <1>1, <1>2, <1>4, <1>7 DEF ONE_MINUTE_SECONDS
    <3>3. epoch = current => start + 5 * ONE_MINUTE_SECONDS <= nextCallAt'
      BY <1>1, <1>4, <1>7, <3>1, <3>2 DEF ONE_MINUTE_SECONDS
    <3> QED
      BY <1>2, <2>1, <2>2, <3>1, <3>3
  <2>5. CASE Breaks(h)
    <3>1. batches'[h] = NoBatch /\ isCallingXrc'
      BY <2>1, <2>5, BatchesAfter DEF Breaks, IsSampling
    <3> QED
      BY <1>2, <2>1, <2>2, <3>1
  <2> QED
    BY <1>7, <2>3, <2>4, <2>5
<1>8. CASE /\ UNCHANGED <<isCallingXrc, nextCallAt, batches>> /\ now' >= now
           /\ upgrades'.monitor = upgrades.monitor
  <2>1. start <= MinuteOf(now')
    <3>1. MinuteOf(now') \in Nat /\ MinuteOf(now) <= MinuteOf(now')
      BY <1>3, <1>8, MinuteProperties
    <3> QED
      BY <1>1, <1>2, <1>3, <3>1
  <2> QED
    BY <1>2, <1>8, <2>1 DEF current, IsSampling
<1>9. CASE /\ \A h \in Heartbeats : ~IsSampling(h)
           /\ upgrades'.monitor = upgrades.monitor + 1
           /\ UNCHANGED <<now, batches>>
  <2>1. epoch <= upgrades'.monitor /\ ~ (epoch = upgrades'.monitor)
    BY <1>1, <1>2, <1>9 DEF current
  <2>2. \A g \in Heartbeats : batches'[g] = NoBatch
    BY <1>9 DEF IsSampling
  <2>3. start <= MinuteOf(now')
    BY <1>2, <1>9
  <2> QED
    BY <2>1, <2>2, <2>3
<1> QED
  BY <1>6, <1>7, <1>8, <1>9, BatchSteps

(* The log after a step: as it was, or with the answer to the request a    *)
(* batch was at, which goes on or completes.                               *)
LEMMA LogSteps ==
    ASSUME TypeInv, [Next]_vars
    PROVE  \/ UNCHANGED entries
           \/ \E h \in Heartbeats :
                 LET entry == Entry(batches[h], calls[h].result)
                 IN  /\ IsSampling(h) /\ entry \in EntryType
                     /\ entries' = Append(entries, entry)
                     /\ GoesOn(h) \/ Completes(h)
                     /\ UNCHANGED <<now, upgrades>>
<1>1. ASSUME NEW h \in Heartbeats, calls[h].phase = "answered",
             entries' = Appended(Entry(batches[h], calls[h].result))
      PROVE  /\ IsSampling(h) /\ Entry(batches[h], calls[h].result) \in EntryType
             /\ \/ UNCHANGED entries
                \/ entries' = Append(entries, Entry(batches[h], calls[h].result))
  BY <1>1, AnsweredCall, AppendedCases
<1> QED
  BY <1>1, StepKinds DEF MonitorSteps, Begins, KeepsBatches

(* A new entry is behind what its batch adds next, and behind the batch    *)
(* after it.                                                               *)
LEMMA NewEntryBehind ==
    ASSUME TypeInv, OneBatch, [Next]_vars, NEW h \in Heartbeats, IsSampling(h), NEW result,
           NEW e \in EntryType, e = Entry(batches[h], result),
           GoesOn(h) \/ Completes(h), UNCHANGED <<now, upgrades>>
    PROVE  IsBehind(e)'
<1>1. /\ e.epoch = upgrades.monitor /\ StartOf(e) = batches[h].start
      /\ Position(e.pair) = batches[h].next
  BY NewEntry
<1>2. /\ batches[h].start \in Nat /\ batches[h].next \in Nat /\ upgrades.monitor \in Nat
      /\ batches[h].start <= MinuteOf(now) /\ isCallingXrc
  BY BatchType DEF OneBatch, TypeInv
<1>3. \A g \in Heartbeats \ {h} : batches'[g] = NoBatch
  BY BatchesAfter DEF OneBatch, IsSampling
<1>4. SUFFICES
        /\ e.epoch <= upgrades'.monitor /\ StartOf(e) <= MinuteOf(now')
        /\ e.epoch = upgrades'.monitor /\ ~isCallingXrc' =>
              StartOf(e) + 5 * ONE_MINUTE_SECONDS <= nextCallAt'
        /\ \A g \in Heartbeats : batches'[g] # NoBatch =>
              IF e.epoch < upgrades'.monitor THEN StartOf(e) <= batches'[g].start
              ELSE \/ StartOf(e) = batches'[g].start /\ Position(e.pair) < batches'[g].next
                   \/ StartOf(e) + 5 * ONE_MINUTE_SECONDS <= batches'[g].start
  BY DEF IsBehind, StartOf, IsSampling, MinuteOf
<1>5. CASE GoesOn(h)
  <2>1. /\ batches'[h].start = batches[h].start /\ batches'[h].next = batches[h].next + 1
        /\ isCallingXrc'
    BY <1>2, <1>5, BatchesAfter DEF GoesOn
  <2> QED
    BY <1>1, <1>2, <1>3, <2>1
<1>6. CASE Completes(h)
  <2>1. batches'[h] = NoBatch /\ nextCallAt' = batches[h].start + 5 * ONE_MINUTE_SECONDS
    BY <1>6, BatchesAfter DEF Completes, IsSampling
  <2> QED
    BY <1>1, <1>2, <1>3, <2>1
<1> QED
  BY <1>5, <1>6

LEMMA LogBehindStep == TypeInv /\ OneBatch /\ LogBehind /\ [Next]_vars => LogBehind'
<1> SUFFICES ASSUME TypeInv, OneBatch, LogBehind, [Next]_vars PROVE LogBehind'
  OBVIOUS
<1>1. SUFFICES ASSUME NEW i \in DOMAIN entries', NEW e, e = entries'[i]
               PROVE  IsBehind(e)'
  BY DEF LogBehind, IsBehind, StartOf
<1>2. entries \in Seq(EntryType)
  BY DEF TypeInv
<1>3. ASSUME i \in DOMAIN entries, e = entries[i]
      PROVE  IsBehind(e)'
  <2>1. e \in EntryType /\ IsBehind(e)
    BY <1>2, <1>3 DEF LogBehind
  <2> QED
    BY <2>1, StaysBehind
<1>4. ASSUME NEW h \in Heartbeats, NEW entry \in EntryType,
             entry = Entry(batches[h], calls[h].result), IsSampling(h),
             entries' = Append(entries, entry), GoesOn(h) \/ Completes(h),
             UNCHANGED <<now, upgrades>>
      PROVE  IsBehind(e)'
  <2>1. \/ i \in DOMAIN entries /\ e = entries[i]
        \/ e = entry
    BY <1>1, <1>2, <1>4, AppendProperties
  <2>2. IsBehind(entry)'
    BY <1>4, NewEntryBehind
  <2> QED
    BY <1>3, <2>1, <2>2
<1> QED
  BY <1>1, <1>3, <1>4, LogSteps

(* The entries of a log, in order. *)
InOrder(a, b) ==
    IF a.epoch < b.epoch THEN a.timestamp <= b.timestamp
    ELSE /\ a.epoch = b.epoch
         /\ \/ a.timestamp = b.timestamp /\ Position(a.pair) < Position(b.pair)
            \/ a.timestamp + 5 * ONE_MINUTE_SECONDS <= b.timestamp

LEMMA LogOrderStep == TypeInv /\ OneBatch /\ LogBehind /\ LogInOrder /\ [Next]_vars => LogInOrder'
<1> SUFFICES ASSUME TypeInv, OneBatch, LogBehind, LogInOrder, [Next]_vars PROVE LogInOrder'
  OBVIOUS
<1>1. entries \in Seq(EntryType)
  BY DEF TypeInv
<1>2. \A i, j \in DOMAIN entries : i < j => InOrder(entries[i], entries[j])
  BY DEF LogInOrder, InOrder
<1>3. SUFFICES \A i, j \in DOMAIN entries' : i < j => InOrder(entries'[i], entries'[j])
  BY DEF LogInOrder, InOrder
<1>4. ASSUME NEW h \in Heartbeats, NEW entry \in EntryType,
             entry = Entry(batches[h], calls[h].result), IsSampling(h),
             entries' = Append(entries, entry), NEW i \in DOMAIN entries
      PROVE  InOrder(entries[i], entry)
  <2>1. PICK a \in EntryType : a = entries[i] /\ IsBehind(a)
    BY <1>1, <1>4 DEF LogBehind
  <2>2. /\ entry.epoch = upgrades.monitor /\ StartOf(entry) = batches[h].start
        /\ Position(entry.pair) = batches[h].next
    BY <1>4, NewEntry
  <2>3. /\ a.epoch <= upgrades.monitor
        /\ IF a.epoch < upgrades.monitor THEN StartOf(a) <= batches[h].start
           ELSE \/ StartOf(a) = batches[h].start /\ Position(a.pair) < batches[h].next
                \/ StartOf(a) + 5 * ONE_MINUTE_SECONDS <= batches[h].start
    BY <1>4, <2>1 DEF IsBehind
  <2>4. /\ a.epoch \in Nat /\ a.timestamp \in Nat /\ entry.timestamp \in Nat
        /\ upgrades.monitor \in Nat
    BY EntryNumbers DEF TypeInv
  <2> QED
    BY <2>1, <2>2, <2>3, <2>4 DEF InOrder, StartOf, ONE_MINUTE_SECONDS
<1>5. ASSUME NEW h \in Heartbeats, NEW entry \in EntryType,
             entry = Entry(batches[h], calls[h].result), IsSampling(h),
             entries' = Append(entries, entry)
      PROVE  \A i, j \in DOMAIN entries' : i < j => InOrder(entries'[i], entries'[j])
  <2>1. /\ Len(entries) \in Nat /\ DOMAIN entries = 1..Len(entries)
        /\ DOMAIN entries' = 1..(Len(entries) + 1) /\ entries'[Len(entries) + 1] = entry
        /\ \A i \in 1..Len(entries) : entries'[i] = entries[i]
    BY <1>1, <1>5, AppendProperties
  <2> QED
    BY <1>2, <1>4, <1>5, <2>1
<1> QED
  BY <1>2, <1>5, LogSteps

(* The log has the answers in the order of the requests, each once, and    *)
(* batches at least five minutes apart, however many heartbeats come while *)
(* a batch waits and however late its answers are: the flag keeps batches  *)
(* apart, and the time of the next call keeps the distance, except across  *)
(* an upgrade, which forgets it (periodic.rs of the monitor).              *)
THEOREM LogIsInOrder == Spec => []LogInOrder
<1>1. Init => OrderInv
  BY DEF Init, OrderInv, OneBatch, LogBehind, LogInOrder, IsSampling
<1>2. OrderInv => LogInOrder
  BY DEF OrderInv
<1>3. TypeInv /\ OrderInv /\ [Next]_vars => OrderInv'
  BY OneBatchStep, LogBehindStep, LogOrderStep DEF OrderInv
<1> QED
  BY <1>1, <1>2, <1>3, TypeInvariant, PTL DEF Spec

-----------------------------------------------------------------------------
(* The readers *)

PagesInv == pages.offset \in 0..Len(entries) /\ PagesMatchLog

LEMMA PageSizeType == \A limit \in Limits : PageSize(limit) \in Nat
BY MonitorAssumption DEF PageSize, NoLimit, DEFAULT_LIMIT

LEMMA LeastOfTwo ==
    \A m, n \in Int : Min({m, n}) = IF m <= n THEN m ELSE n
BY DEF Min

(* A page ends where the reader takes it to end: there are fewer entries   *)
(* than a usize can count.                                                 *)
LEMMA PageEnds ==
    ASSUME TypeInv, NEW offset \in 0..Len(entries), NEW limit \in Limits
    PROVE  /\ PageEnd(offset, limit) = Min({offset + PageSize(limit), Len(entries)})
           /\ PageEnd(offset, limit) \in offset..Len(entries)
<1>1. Len(entries) \in Nat /\ Len(entries) <= USIZE - 1 /\ USIZE - 1 \in Int
  <2>1. entries \in Seq(EntryType) /\ Len(entries) <= Used /\ Used <= LogCapacity
    BY DEF TypeInv, TypeOK
  <2>2. Used \in Nat
    BY <2>1, SizeOfLog DEF Used, SizesOf
  <2> HIDE DEF Used
  <2> QED
    BY <2>1, <2>2, MonitorAssumption
<1> DEFINE n == offset + PageSize(limit)
           m == Len(entries)
           u == USIZE - 1
<1>2. n \in Nat /\ n >= offset /\ m \in Nat /\ m >= offset /\ u \in Int /\ m <= u
  BY <1>1, PageSizeType
<1>3. PageEnd(offset, limit) = Min({n, u, m})
  BY DEF PageEnd
<1> HIDE DEF n, m, u
<1>4. Min({n, u, m}) = IF n <= m THEN n ELSE m
  BY <1>2 DEF Min
<1>5. Min({n, m}) = IF n <= m THEN n ELSE m
  BY <1>2, LeastOfTwo
<1>6. (IF n <= m THEN n ELSE m) \in offset..m
  BY <1>2
<1> QED
  BY <1>3, <1>4, <1>5, <1>6 DEF n, m

LEMMA PagesStep == TypeInv /\ PagesInv /\ [Next]_vars => PagesInv'
<1> SUFFICES ASSUME TypeInv, PagesInv, [Next]_vars PROVE PagesInv'
  OBVIOUS
<1>1. /\ entries \in Seq(EntryType) /\ pages.offset \in 0..Len(entries)
      /\ pages.read = SubSeq(entries, 1, pages.offset)
  BY DEF TypeInv, PagesInv, PagesMatchLog
<1>2. CASE UNCHANGED <<entries, pages>>
  BY <1>2 DEF PagesInv, PagesMatchLog
<1>3. ASSUME NEW entry \in EntryType, entries' = Append(entries, entry), UNCHANGED pages
      PROVE  PagesInv'
  <2>1. /\ entries' \in Seq(EntryType) /\ Len(entries') = Len(entries) + 1
        /\ \A i \in 1..Len(entries) : entries'[i] = entries[i]
    BY <1>1, <1>3, AppendProperties
  <2>2. SubSeq(entries', 1, pages.offset) = SubSeq(entries, 1, pages.offset)
    BY <1>1, <2>1
  <2> QED
    BY <1>1, <1>3, <2>1, <2>2 DEF PagesInv, PagesMatchLog
<1>4. ASSUME NEW limit \in Limits, Read(limit), UNCHANGED entries
      PROVE  PagesInv'
  <2> DEFINE o == pages.offset
             e == PageEnd(o, limit)
  <2>1. e \in o..Len(entries) /\ e = Min({o + PageSize(limit), Len(entries)})
    BY <1>1, PageEnds
  <2>2. pages' = [read |-> pages.read \o SubSeq(entries, o + 1, e), offset |-> e]
    BY <1>4, <2>1 DEF Read, GetEntries
  <2> HIDE DEF e
  <2>3. SubSeq(entries, 1, o) \o SubSeq(entries, o + 1, e) = SubSeq(entries, 1, e)
    <3>1. /\ 1 \in 1..Len(entries) + 1 /\ o \in 1 - 1..Len(entries)
          /\ e \in o..Len(entries)
      BY <1>1, <2>1
    <3> QED
      BY <1>1, <3>1, ConcatAdjacentSubSeq
  <2>4. pages'.read = SubSeq(entries, 1, e) /\ pages'.offset = e
    BY <1>1, <2>2, <2>3
  <2>5. e \in 0..Len(entries)
    BY <1>1, <2>1
  <2> QED
    BY <1>4, <2>4, <2>5 DEF PagesInv, PagesMatchLog
<1>5. ASSUME NEW h \in Heartbeats, calls[h].phase = "answered",
             entries' = Appended(Entry(batches[h], calls[h].result)), UNCHANGED pages
      PROVE  PagesInv'
  BY <1>2, <1>3, <1>5, AnsweredCall, AppendedCases
<1> QED
  BY <1>2, <1>4, <1>5, StepKinds DEF MonitorSteps, Begins, KeepsBatches

(* A reader who takes the log page by page, with whatever limits, while it *)
(* grows and across upgrades, gets every entry once (api.rs of the         *)
(* monitor, get_entries).                                                  *)
THEOREM ReadersGetTheLog == Spec => []PagesMatchLog
<1>1. Init => PagesInv
  BY DEF Init, PagesInv, PagesMatchLog
<1>2. PagesInv => PagesMatchLog
  BY DEF PagesInv
<1> QED
  BY <1>1, <1>2, PagesStep, TypeInvariant, PTL DEF Spec

-----------------------------------------------------------------------------
(* The records of the exchange rate canister *)

OpenCalls(p) == {c \in Callers : calls[c] = Open /\ IsPrivileged(c) = p}

(* The errors that were returned, as the counters have it. *)
Errors(p) == IF p THEN Count(counters, "cmc_errors_returned")
             ELSE Count(counters, "errors_returned") - Count(counters, "cmc_errors_returned")

(* A log has the latest answers, and its errors were counted. *)
LogFits(p) ==
    /\ Len(logs[p]) = Min({LogSize(p), Answers(p)})
    /\ ErrorsIn(logs[p]) <= Errors(p)
    /\ Errors(p) <= Answers(p) - (Len(logs[p]) - ErrorsIn(logs[p]))

Classified == SumFunction([class \in ErrorClasses |-> Count(counters, class)])

ClassesFit ==
    /\ Classified <= Count(counters, "errors_returned")
    /\ (\A result \in Results \ {"Rate"} : ErrorClass(result) # {}) =>
          Classified = Count(counters, "errors_returned")

LogEntry == [caller : Callers, result : Results]

RecordTypes ==
    /\ logs \in [BOOLEAN -> Seq(LogEntry)] /\ dropped \in [BOOLEAN -> Nat]
    /\ counters \in [DOMAIN counters -> Nat]
    /\ \A p \in BOOLEAN : IsFiniteSet(OpenCalls(p)) /\ Answers(p) \in Nat

RecordInv == RecordTypes /\ (\A p \in BOOLEAN : LogFits(p)) /\ ClassesFit

LEMMA RecordMeaning == RecordInv => CountersMatchLogs
<1> SUFFICES ASSUME RecordInv PROVE CountersMatchLogs
  OBVIOUS
<1> DEFINE errors == [p \in BOOLEAN |-> IF p THEN Count(counters, "cmc_errors_returned")
                                        ELSE Count(counters, "errors_returned")
                                                 - Count(counters, "cmc_errors_returned")]
<1>1. \A p \in BOOLEAN : errors[p] = Errors(p)
  BY DEF Errors
<1> HIDE DEF errors
<1>2. \A p \in BOOLEAN : /\ Len(logs[p]) = Min({LogSize(p), Answers(p)})
                         /\ ErrorsIn(logs[p]) <= errors[p]
                         /\ errors[p] <= Answers(p) - (Len(logs[p]) - ErrorsIn(logs[p]))
  BY <1>1 DEF RecordInv, LogFits
<1> QED
  BY <1>2 DEF RecordInv, ClassesFit, Classified, CountersMatchLogs, errors

(* Counting adds one to each of some counters. *)
LEMMA Counted ==
    ASSUME NEW counter, NEW keys
    PROVE  \A key : Count(AddEach(counter, keys), key)
                       = Count(counter, key) + IF key \in keys THEN 1 ELSE 0
BY DEF Count, AddEach

LEMMA CountIsNat ==
    ASSUME NEW counter, counter \in [DOMAIN counter -> Nat]
    PROVE  \A key : Count(counter, key) \in Nat
BY DEF Count

LEMMA StillCounters ==
    ASSUME NEW counter, counter \in [DOMAIN counter -> Nat], NEW keys
    PROVE  AddEach(counter, keys) \in [DOMAIN AddEach(counter, keys) -> Nat]
<1>1. \A key : Count(counter, key) + (IF key \in keys THEN 1 ELSE 0) \in Nat
  BY CountIsNat
<1> QED
  BY <1>1 DEF AddEach

ClassNames == {"pending_errors", "crypto_asset_related_errors", "stablecoin_errors",
               "forex_asset_related_errors", "rate_limiting_errors", "cycles_related_errors",
               "inconsistent_rates_errors"}

(* An error is of one class, or of none. *)
LEMMA OneClass ==
    \A result : ErrorClass(result) = {} \/ \E class \in ClassNames : ErrorClass(result) = {class}
BY Zenon DEF ErrorClass, ClassNames

LEMMA ErrorClassesNamed ==
    /\ IsFiniteSet(ErrorClasses)
    /\ \A result \in Results : ErrorClass(result) \subseteq ErrorClasses
    /\ "requests" \notin ErrorClasses /\ "cmc_requests" \notin ErrorClasses
    /\ "errors_returned" \notin ErrorClasses /\ "cmc_errors_returned" \notin ErrorClasses
<1>1. ErrorClasses \subseteq ClassNames
  BY OneClass DEF ErrorClasses
<1>2. IsFiniteSet(ClassNames)
  <2>1. \A S, class : IsFiniteSet(S) => IsFiniteSet(S \cup {class})
    BY FS_AddElement
  <2>2. ClassNames = (((((({} \cup {"pending_errors"}) \cup {"crypto_asset_related_errors"})
                            \cup {"stablecoin_errors"}) \cup {"forex_asset_related_errors"})
                        \cup {"rate_limiting_errors"}) \cup {"cycles_related_errors"})
                    \cup {"inconsistent_rates_errors"}
    BY DEF ClassNames
  <2> QED
    BY <2>1, <2>2, FS_EmptySet
<1>3. /\ "requests" \notin ClassNames /\ "cmc_requests" \notin ClassNames
      /\ "errors_returned" \notin ClassNames /\ "cmc_errors_returned" \notin ClassNames
  BY DEF ClassNames
<1> QED
  BY <1>1, <1>2, <1>3, FS_Subset DEF ErrorClasses

(* What a counted request and a counted answer add. *)
LEMMA RequestCounted ==
    ASSUME NEW c, c \in [DOMAIN c -> Nat], NEW q \in BOOLEAN, NEW d, d = CountRequest(c, q)
    PROVE  /\ d \in [DOMAIN d -> Nat]
           /\ Count(d, "requests") = Count(c, "requests") + 1
           /\ Count(d, "cmc_requests") = Count(c, "cmc_requests") + IF q THEN 1 ELSE 0
           /\ \A key : key \notin {"requests", "cmc_requests"} => Count(d, key) = Count(c, key)
<1> DEFINE keys == {"requests"} \cup IF q THEN {"cmc_requests"} ELSE {}
<1>1. d = AddEach(c, keys)
  BY DEF CountRequest
<1>2. \A key : Count(c, key) \in Nat
  BY CountIsNat
<1>3. d \in [DOMAIN d -> Nat]
  BY <1>1, StillCounters
<1>4. \A key : Count(d, key) = Count(c, key) + IF key \in keys THEN 1 ELSE 0
  BY <1>1, Counted
<1>5. /\ "requests" \in keys /\ ("cmc_requests" \in keys <=> q)
      /\ \A key : key \notin {"requests", "cmc_requests"} => key \notin keys
  OBVIOUS
<1> HIDE DEF keys
<1>6. /\ Count(d, "requests") = Count(c, "requests") + 1
      /\ \A key : key \notin {"requests", "cmc_requests"} => Count(d, key) = Count(c, key)
  BY <1>2, <1>4, <1>5
<1>7. Count(d, "cmc_requests") = Count(c, "cmc_requests") + IF q THEN 1 ELSE 0
  BY <1>4, <1>5
<1> QED
  BY <1>3, <1>6, <1>7

LEMMA ReplyCounted ==
    ASSUME NEW c, c \in [DOMAIN c -> Nat], NEW q \in BOOLEAN, NEW result \in Results,
           result # "Rate", NEW d, d = CountReply(c, q, result)
    PROVE  /\ d \in [DOMAIN d -> Nat]
           /\ Count(d, "errors_returned") = Count(c, "errors_returned") + 1
           /\ Count(d, "cmc_errors_returned")
                  = Count(c, "cmc_errors_returned") + IF q THEN 1 ELSE 0
           /\ Count(d, "requests") = Count(c, "requests")
           /\ Count(d, "cmc_requests") = Count(c, "cmc_requests")
           /\ \A class \in ErrorClasses :
                 Count(d, class) = Count(c, class) + IF class \in ErrorClass(result) THEN 1 ELSE 0
<1> DEFINE keys == {"errors_returned"} \cup (IF q THEN {"cmc_errors_returned"} ELSE {})
                       \cup ErrorClass(result)
<1>1. d = AddEach(c, keys)
  BY DEF CountReply
<1>2. \A key : Count(c, key) \in Nat
  BY CountIsNat
<1>3. d \in [DOMAIN d -> Nat]
  BY <1>1, StillCounters
<1>4. \A key : Count(d, key) = Count(c, key) + IF key \in keys THEN 1 ELSE 0
  BY <1>1, Counted
<1>5. /\ "errors_returned" \in keys /\ ("cmc_errors_returned" \in keys <=> q)
      /\ "requests" \notin keys /\ "cmc_requests" \notin keys
      /\ \A class \in ErrorClasses : class \in keys <=> class \in ErrorClass(result)
  <2>1. /\ ErrorClass(result) \subseteq ErrorClasses
        /\ \A key \in {"errors_returned", "cmc_errors_returned", "requests", "cmc_requests"} :
              key \notin ErrorClasses
    BY ErrorClassesNamed
  <2> QED
    BY <2>1
<1> HIDE DEF keys
<1>6. /\ Count(d, "errors_returned") = Count(c, "errors_returned") + 1
      /\ Count(d, "requests") = Count(c, "requests")
      /\ Count(d, "cmc_requests") = Count(c, "cmc_requests")
  BY <1>2, <1>4, <1>5
<1>7. Count(d, "cmc_errors_returned") = Count(c, "cmc_errors_returned") + IF q THEN 1 ELSE 0
  BY <1>4, <1>5
<1>8. \A class \in ErrorClasses :
         Count(d, class) = Count(c, class) + IF class \in ErrorClass(result) THEN 1 ELSE 0
  BY <1>4, <1>5
<1> QED
  BY <1>3, <1>6, <1>7, <1>8

(* The sum of the counters of the classes of errors goes up by one with an *)
(* error of a class.                                                       *)
LEMMA ClassifiedAdds ==
    ASSUME NEW c, c \in [DOMAIN c -> Nat], NEW d, d \in [DOMAIN d -> Nat],
           NEW names \in SUBSET ErrorClasses,
           names = {} \/ \E class \in ClassNames : names = {class},
           \A class \in ErrorClasses :
              Count(d, class) = Count(c, class) + IF class \in names THEN 1 ELSE 0
    PROVE  /\ SumFunction([class \in ErrorClasses |-> Count(c, class)]) \in Nat
           /\ SumFunction([class \in ErrorClasses |-> Count(d, class)])
                  = SumFunction([class \in ErrorClasses |-> Count(c, class)])
                        + IF names = {} THEN 0 ELSE 1
<1> DEFINE S == ErrorClasses
           f == [class \in S |-> Count(c, class)]
           g == [class \in S |-> Count(d, class)]
<1>1. /\ \A class \in S : f[class] \in Nat /\ g[class] \in Nat
      /\ \A class \in S : g[class] = f[class] + IF class \in names THEN 1 ELSE 0
  BY CountIsNat
<1>2. SumFunction(f) = SumFunctionOnSet(f, S) /\ SumFunction(g) = SumFunctionOnSet(g, S)
  BY DEF SumFunction
<1>3. IsFiniteSet(S) /\ names \subseteq S
  BY ErrorClassesNamed
<1> HIDE DEF S, f, g
<1>4. SumFunctionOnSet(f, S) \in Nat
  BY <1>1, <1>3, SumNat
<1>5. CASE names = {}
  <2>1. SumFunctionOnSet(f, S) = SumFunctionOnSet(g, S)
    BY <1>1, <1>3, <1>5, SumSame
  <2> QED
    BY <1>2, <1>4, <1>5, <2>1 DEF f, g, S
<1>6. ASSUME NEW class, names = {class}
      PROVE  SumFunctionOnSet(g, S) = SumFunctionOnSet(f, S) + 1
  <2>1. class \in S /\ IsFiniteSet(S \ {class}) /\ f[class] \in Nat /\ g[class] = f[class] + 1
    BY <1>1, <1>3, <1>6, FS_RemoveElement
  <2>2. /\ SumFunctionOnSet(f, S) = f[class] + SumFunctionOnSet(f, S \ {class})
        /\ SumFunctionOnSet(g, S) = g[class] + SumFunctionOnSet(g, S \ {class})
    BY <1>1, <1>3, <2>1, SumRemove
  <2>3. \A k \in S \ {class} : f[k] \in Int /\ f[k] = g[k]
    BY <1>1, <1>6
  <2>4. SumFunctionOnSet(f, S \ {class}) = SumFunctionOnSet(g, S \ {class})
    BY <2>1, <2>3, SumSame
  <2>5. SumFunctionOnSet(f, S \ {class}) \in Int
    BY <2>1, <2>3, SumType
  <2> QED
    BY <2>1, <2>2, <2>4, <2>5
<1>7. CASE names # {}
  <2>1. PICK class : names = {class}
    BY <1>7
  <2> QED
    BY <1>2, <1>4, <1>6, <1>7, <2>1 DEF f, g, S
<1> QED
  BY <1>5, <1>7

(* The errors in a log. *)
ErrorPlaces(log) == {i \in DOMAIN log : log[i].result # "Rate"}

LEMMA ErrorsInLog ==
    ASSUME NEW log \in Seq(LogEntry)
    PROVE  /\ IsFiniteSet(ErrorPlaces(log)) /\ ErrorsIn(log) = Cardinality(ErrorPlaces(log))
           /\ ErrorsIn(log) \in 0..Len(log)
<1>1. Len(log) \in Nat /\ IsFiniteSet(1..Len(log)) /\ Cardinality(1..Len(log)) = Len(log)
  <2> DEFINE n == Len(log)
  <2>1. n \in Nat
    OBVIOUS
  <2> HIDE DEF n
  <2>2. IsFiniteSet(1..n) /\ Cardinality(1..n) = n
    BY <2>1, FS_Interval
  <2> QED
    BY <2>1, <2>2 DEF n
<1>2. ErrorPlaces(log) \subseteq 1..Len(log)
  BY DEF ErrorPlaces
<1>3. ErrorsIn(log) = Cardinality(ErrorPlaces(log))
  BY DEF ErrorsIn, ErrorPlaces
<1> QED
  BY <1>1, <1>2, <1>3, FS_Subset, FS_CardinalityType

(* A set of numbers, each one greater. *)
LEMMA Shifted ==
    ASSUME NEW S \in SUBSET Nat, IsFiniteSet(S)
    PROVE  LET T == {i + 1 : i \in S}
           IN  IsFiniteSet(T) /\ Cardinality(T) = Cardinality(S)
<1> DEFINE T == {i + 1 : i \in S}
           f == [i \in S |-> i + 1]
<1>1. f \in Injection(S, T)
  BY DEF Injection, IsInjective
<1>2. f \in Surjection(S, T)
  BY DEF Surjection
<1>3. ExistsBijection(S, T)
  BY <1>1, <1>2 DEF ExistsBijection, Bijection
<1> QED
  BY <1>3, FS_Bijection

LEMMA LoggedErrors ==
    ASSUME NEW log \in Seq(LogEntry), NEW entry \in LogEntry, NEW size \in Nat \ {0},
           Len(log) <= size, NEW after, after = Logged(log, entry, size)
    PROVE  LET e == IF entry.result # "Rate" THEN 1 ELSE 0
           IN  /\ after \in Seq(LogEntry)
               /\ Len(after) = IF Len(log) = size THEN size ELSE Len(log) + 1
               /\ ErrorsIn(after) <= ErrorsIn(log) + e
               /\ Len(after) - ErrorsIn(after) <= Len(log) - ErrorsIn(log) + 1 - e
<1> DEFINE all == <<entry>> \o log
           e == IF entry.result # "Rate" THEN 1 ELSE 0
           n == Len(log)
<1>1. n \in Nat /\ DOMAIN log = 1..n /\ all \in Seq(LogEntry) /\ Len(all) = n + 1
  OBVIOUS
<1>2. all[1] = entry /\ \A i \in 1..n : all[i + 1] = log[i]
  BY <1>1
<1>3. /\ IsFiniteSet(ErrorPlaces(all)) /\ ErrorsIn(log) \in Nat
      /\ Cardinality(ErrorPlaces(all)) = ErrorsIn(log) + e
  <2> DEFINE T == {i + 1 : i \in ErrorPlaces(log)}
  <2>1. /\ IsFiniteSet(ErrorPlaces(log)) /\ ErrorPlaces(log) \in SUBSET Nat
        /\ ErrorsIn(log) = Cardinality(ErrorPlaces(log)) /\ ErrorsIn(log) \in Nat
    BY <1>1, ErrorsInLog DEF ErrorPlaces
  <2>2. IsFiniteSet(T) /\ Cardinality(T) = ErrorsIn(log) /\ 1 \notin T
    <3>1. 1 \notin T
      BY <1>1 DEF ErrorPlaces
    <3> QED
      BY <2>1, <3>1, Shifted
  <2>3. ErrorPlaces(all) = IF entry.result # "Rate" THEN T \cup {1} ELSE T
    <3>1. \A j \in 1..(n + 1) : j = 1 \/ \E i \in 1..n : j = i + 1
      BY <1>1
    <3>2. DOMAIN all = 1..(n + 1)
      BY <1>1
    <3> HIDE DEF all, n
    <3>3. ASSUME NEW j \in 1..(n + 1), j # 1
          PROVE  all[j].result # "Rate" <=> j \in T
      BY <1>1, <1>2, <3>1, <3>3 DEF ErrorPlaces
    <3>4. T \subseteq 1..(n + 1) /\ 1 \notin T /\ 1 \in 1..(n + 1)
      BY <1>1 DEF ErrorPlaces
    <3> HIDE DEF T
    <3> QED
      BY <1>2, <3>2, <3>3, <3>4 DEF ErrorPlaces
  <2> HIDE DEF T, all
  <2>4. IsFiniteSet(T \cup {1}) /\ Cardinality(T \cup {1}) = ErrorsIn(log) + 1
    BY <2>2, FS_AddElement
  <2> QED
    BY <2>1, <2>2, <2>3, <2>4
<1> HIDE DEF all
<1>4. CASE n = size
  <2>1. after = SubSeq(all, 1, n)
    BY <1>1, <1>4 DEF Logged, Front, all
  <2>2. /\ after \in Seq(LogEntry) /\ Len(after) = n /\ DOMAIN after = 1..n
        /\ \A i \in 1..n : after[i] = all[i]
    BY <1>1, <2>1
  <2>3. ErrorPlaces(after) = ErrorPlaces(all) \ {n + 1}
    <3>1. DOMAIN all = 1..(n + 1)
      BY <1>1
    <3> QED
      BY <1>1, <2>2, <3>1 DEF ErrorPlaces
  <2>4. /\ ErrorsIn(after) \in Nat
        /\ \/ ErrorsIn(after) = ErrorsIn(log) + e
           \/ ErrorsIn(after) = ErrorsIn(log) + e - 1
    <3>1. ErrorsIn(after) = Cardinality(ErrorPlaces(all) \ {n + 1}) /\ ErrorsIn(after) \in Nat
      <4>1. /\ ErrorsIn(after) \in 0..Len(after) /\ Len(after) \in Nat
            /\ ErrorsIn(after) = Cardinality(ErrorPlaces(after))
        BY <1>1, <2>2, ErrorsInLog
      <4> QED
        BY <2>3, <4>1
    <3> HIDE DEF n
    <3>2. \/ Cardinality(ErrorPlaces(all) \ {n + 1}) = Cardinality(ErrorPlaces(all))
          \/ Cardinality(ErrorPlaces(all) \ {n + 1}) = Cardinality(ErrorPlaces(all)) - 1
      BY <1>3, FS_RemoveElement
    <3> QED
      BY <1>3, <3>1, <3>2
  <2> QED
    BY <1>1, <1>3, <1>4, <2>2, <2>4
<1>5. CASE n # size
  <2>1. after = all
    <3> HIDE DEF n
    <3>1. n <= size
      BY DEF n
    <3>2. ~ (Len(all) > size)
      BY <1>1, <1>5, <3>1
    <3> QED
      BY <3>2 DEF Logged, all
  <2>2. ErrorsIn(after) = ErrorsIn(log) + e
    BY <1>1, <1>3, <2>1, ErrorsInLog
  <2>3. e \in 0..1
    OBVIOUS
  <2> HIDE DEF e
  <2>4. /\ after \in Seq(LogEntry) /\ Len(after) = n + 1
        /\ ErrorsIn(after) <= ErrorsIn(log) + e
        /\ Len(after) - ErrorsIn(after) <= n - ErrorsIn(log) + 1 - e
    BY <1>1, <1>3, <2>1, <2>2, <2>3
  <2> QED
    BY <1>5, <2>4 DEF e
<1> QED
  BY <1>4, <1>5

(* The steps, as the records see them. *)
KeepsRecords ==
    UNCHANGED <<counters, logs, dropped>> /\ \A p \in BOOLEAN : OpenCalls(p)' = OpenCalls(p)

Arrives(caller) ==
    /\ calls[caller] # Open /\ calls' = [calls EXCEPT ![caller] = Open]
    /\ counters' = CountRequest(counters, IsPrivileged(caller))
    /\ UNCHANGED <<logs, dropped>>

Replies(caller, result) ==
    /\ calls[caller] = Open /\ calls' = [calls EXCEPT ![caller] = Return(caller, result)]
    /\ logs' = [logs EXCEPT ![IsPrivileged(caller)] =
                    Logged(@, [caller |-> caller, result |-> result], LogSize(IsPrivileged(caller)))]
    /\ counters' = CountReply(counters, IsPrivileged(caller), result)
    /\ UNCHANGED dropped

Traps(caller) ==
    /\ calls[caller] = Open /\ calls' = [calls EXCEPT ![caller] = Return(caller, "CallError")]
    /\ dropped' = [dropped EXCEPT ![IsPrivileged(caller)] = @ + 1]
    /\ UNCHANGED <<counters, logs>>

LEMMA OpenAfter ==
    ASSUME TypeInv, NEW caller \in Callers, NEW call, calls' = [calls EXCEPT ![caller] = call]
    PROVE  \A p \in BOOLEAN :
              OpenCalls(p)' = IF call = Open /\ IsPrivileged(caller) = p THEN OpenCalls(p) \cup {caller}
                              ELSE OpenCalls(p) \ {caller}
<1>1. calls \in [Callers -> Call]
  BY DEF TypeInv, TypeOK
<1>2. \A c \in Callers : calls'[c] = IF c = caller THEN call ELSE calls[c]
  BY <1>1
<1> QED
  BY <1>2 DEF OpenCalls, IsPrivileged

LEMMA RecordSteps ==
    ASSUME TypeInv, [Next]_vars
    PROVE  \/ KeepsRecords
           \/ \E caller \in Callers : Arrives(caller)
           \/ \E caller \in Callers, result \in Results : Replies(caller, result)
           \/ \E caller \in Callers : Traps(caller)
           \/ UpgradeXrc
<1> USE DEF monitorVars, xrcVars
<1>1. /\ Heartbeats \subseteq Callers /\ Others \subseteq Callers
      /\ \A h \in Heartbeats : ~IsSampling(h) => calls[h] = NoCall
  BY DEF Callers, TypeInv, TypeOK
<1>2. ASSUME NEW caller \in Callers, NEW call, calls' = [calls EXCEPT ![caller] = call],
             call # Open, calls[caller] # Open, UNCHANGED <<counters, logs, dropped>>
      PROVE  KeepsRecords
  <2>1. \A p \in BOOLEAN : OpenCalls(p) \ {caller} = OpenCalls(p)
    BY <1>2 DEF OpenCalls
  <2> QED
    BY <1>2, <2>1, OpenAfter DEF KeepsRecords
<1>3. ASSUME NEW h \in Heartbeats,
             Heartbeat(h) \/ CallFails(h) \/ Record(h) \/ Abandon(h) \/ TrapMonitor(h)
      PROVE  KeepsRecords
  <2>1. \/ \E call \in {Sent, NoCall} : calls' = [calls EXCEPT ![h] = call]
        \/ \E result : calls' = [calls EXCEPT ![h] = Answered(result)]
    BY <1>3 DEF Heartbeat, CallFails, Record, Finish, Abandon, TrapMonitor
  <2>2. calls[h] # Open
    <3>1. CASE Heartbeat(h)
      <4>1. h \in Free
        BY <3>1 DEF Heartbeat
      <4> QED
        BY <1>1, <4>1, CallTypes DEF Free
    <3> QED
      BY <1>3, <3>1, CallTypes DEF CallFails, Record, Abandon, TrapMonitor
  <2>3. UNCHANGED <<counters, logs, dropped>>
    BY <1>3 DEF Heartbeat, CallFails, Record, Finish, Abandon, TrapMonitor
  <2>4. NoCall # Open
    BY DEF NoCall, Open
  <2>5. \A call \in {Sent, NoCall} : call # Open
    BY <2>4, CallTypes
  <2> QED
    BY <1>1, <1>2, <2>1, <2>2, <2>3, <2>5, CallTypes
<1>4. ASSUME NEW h \in Heartbeats, Receive(h)
      PROVE  Arrives(h)
  BY <1>4, CallTypes DEF Receive, Arrive, Arrives
<1>5. ASSUME NEW caller \in Callers, RequestOf(caller)
      PROVE  Arrives(caller)
  BY <1>5, CallTypes DEF RequestOf, Arrive, Arrives
<1>6. ASSUME NEW caller \in Callers, TrapXrc(caller)
      PROVE  Traps(caller)
  BY <1>6 DEF TrapXrc, Traps
<1>7. ASSUME NEW caller \in Callers, NEW result \in Results, ReplyTo(caller, result)
      PROVE  Replies(caller, result)
  BY <1>7 DEF ReplyTo, Replies
<1>8. CASE UNCHANGED <<calls, counters, logs, dropped>>
  BY <1>8 DEF KeepsRecords, OpenCalls, IsPrivileged
<1>9. UpgradeMonitor \/ Tick \/ (\E limit \in Limits : Read(limit)) \/ UNCHANGED vars =>
          UNCHANGED <<calls, counters, logs, dropped>>
  BY DEF UpgradeMonitor, Tick, Read, vars
<1> QED
  BY <1>1, <1>3, <1>4, <1>5, <1>6, <1>7, <1>8, <1>9 DEF Next

(* How many answers a step adds to the count. *)
LEMMA AnswersMeaning ==
    \A p \in BOOLEAN :
        Answers(p) = (IF p THEN Count(counters, "cmc_requests")
                      ELSE Count(counters, "requests") - Count(counters, "cmc_requests"))
                         - dropped[p] - Cardinality(OpenCalls(p))
BY DEF Answers, OpenCalls

LEMMA KeptRecords ==
    ASSUME RecordInv, KeepsRecords
    PROVE  RecordInv'
<1>1. \A p \in BOOLEAN : Answers(p)' = Answers(p)
  <2>1. ASSUME NEW p \in BOOLEAN PROVE Answers(p)' = Answers(p)
    BY AnswersMeaning DEF KeepsRecords, Answers, OpenCalls, IsPrivileged
  <2> QED
    BY <2>1
<1>2. \A p \in BOOLEAN : LogFits(p)'
  <2>1. ASSUME NEW p \in BOOLEAN PROVE LogFits(p)'
    BY <1>1 DEF RecordInv, LogFits, Errors, ErrorsIn, LogSize, KeepsRecords
  <2> QED
    BY <2>1
<1>3. RecordTypes'
  BY <1>1 DEF RecordInv, RecordTypes, KeepsRecords
<1>4. ClassesFit'
  BY DEF RecordInv, ClassesFit, Classified, KeepsRecords
<1> QED
  BY <1>2, <1>3, <1>4 DEF RecordInv

(* A request is counted, and is under way: it has no answer yet. *)
LEMMA ArrivedRecords ==
    ASSUME TypeInv, RecordInv, NEW caller \in Callers, Arrives(caller)
    PROVE  RecordInv'
<1> DEFINE q == IsPrivileged(caller)
<1>1. /\ counters \in [DOMAIN counters -> Nat] /\ counters' = CountRequest(counters, q)
      /\ q \in BOOLEAN /\ UNCHANGED <<logs, dropped>>
  BY DEF RecordInv, RecordTypes, Arrives, IsPrivileged
<1>2. /\ counters' \in [DOMAIN counters' -> Nat]
      /\ Count(counters', "requests") = Count(counters, "requests") + 1
      /\ Count(counters', "cmc_requests")
             = Count(counters, "cmc_requests") + IF q THEN 1 ELSE 0
      /\ \A key : key \notin {"requests", "cmc_requests"} =>
            Count(counters', key) = Count(counters, key)
  BY <1>1, RequestCounted
<1>3. \A key : Count(counters, key) \in Nat
  BY <1>1, CountIsNat
<1>4. \A p \in BOOLEAN : OpenCalls(p)' = IF q = p THEN OpenCalls(p) \cup {caller}
                                         ELSE OpenCalls(p) \ {caller}
  BY OpenAfter DEF Arrives
<1>5. \A p \in BOOLEAN : caller \notin OpenCalls(p)
  BY DEF Arrives, OpenCalls
<1> HIDE DEF q
<1>6. ASSUME NEW p \in BOOLEAN
      PROVE  IsFiniteSet(OpenCalls(p))' /\ Answers(p)' = Answers(p)
  <2>1. /\ IsFiniteSet(OpenCalls(p)) /\ Cardinality(OpenCalls(p)) \in Nat /\ dropped[p] \in Nat
    BY FS_CardinalityType DEF RecordInv, RecordTypes
  <2>2. /\ IsFiniteSet(OpenCalls(p)')
        /\ Cardinality(OpenCalls(p)') = Cardinality(OpenCalls(p)) + IF q = p THEN 1 ELSE 0
    <3>1. CASE q = p
      BY <1>4, <1>5, <2>1, <3>1, FS_AddElement
    <3>2. CASE q # p
      <4>1. OpenCalls(p)' = OpenCalls(p)
        BY <1>4, <1>5, <3>2
      <4> QED
        BY <2>1, <3>2, <4>1
    <3> QED
      BY <3>1, <3>2
  <2> DEFINE before == IF p THEN Count(counters, "cmc_requests")
                       ELSE Count(counters, "requests") - Count(counters, "cmc_requests")
             after == IF p THEN Count(counters', "cmc_requests")
                      ELSE Count(counters', "requests") - Count(counters', "cmc_requests")
  <2>3. before \in Int /\ after = before + IF q = p THEN 1 ELSE 0
    <3>1. CASE p
      <4>1. /\ before = Count(counters, "cmc_requests") /\ after = Count(counters', "cmc_requests")
            /\ before \in Int
        BY <1>3, <3>1
      <4>2. q = p <=> q
        BY <1>1, <3>1
      <4> QED
        BY <1>2, <4>1, <4>2
    <3>2. CASE ~p
      BY <1>1, <1>2, <1>3, <3>2
    <3> QED
      BY <3>1, <3>2
  <2>4. /\ Answers(p) = before - dropped[p] - Cardinality(OpenCalls(p))
        /\ Answers(p)' = after - dropped[p] - Cardinality(OpenCalls(p)')
    BY <1>1 DEF Answers, OpenCalls
  <2> HIDE DEF before, after
  <2> QED
    BY <2>1, <2>2, <2>3, <2>4
<1>7. /\ Count(counters', "errors_returned") = Count(counters, "errors_returned")
      /\ Count(counters', "cmc_errors_returned") = Count(counters, "cmc_errors_returned")
      /\ \A class \in ErrorClasses : Count(counters', class) = Count(counters, class)
  BY <1>2, ErrorClassesNamed
<1>8. ASSUME NEW p \in BOOLEAN
      PROVE  LogFits(p)'
  BY <1>1, <1>6, <1>7 DEF RecordInv, LogFits, Errors, ErrorsIn, LogSize
<1>9. Classified' = Classified
  BY <1>7 DEF Classified
<1>10. RecordTypes'
  BY <1>1, <1>2, <1>6 DEF RecordInv, RecordTypes
<1> QED
  BY <1>7, <1>8, <1>9, <1>10 DEF RecordInv, ClassesFit

(* A request whose callback traps is no longer under way, and has no       *)
(* answer.                                                                 *)
LEMMA TrappedRecords ==
    ASSUME TypeInv, RecordInv, NEW caller \in Callers, Traps(caller)
    PROVE  RecordInv'
<1> DEFINE q == IsPrivileged(caller)
<1>1. /\ q \in BOOLEAN /\ UNCHANGED <<counters, logs>>
      /\ dropped \in [BOOLEAN -> Nat] /\ dropped' = [dropped EXCEPT ![q] = @ + 1]
      /\ \A key : Count(counters, key) \in Nat
  BY CountIsNat DEF RecordInv, RecordTypes, Traps, IsPrivileged
<1>2. \A p \in BOOLEAN : OpenCalls(p)' = OpenCalls(p) \ {caller}
  <2>1. Return(caller, "CallError") # Open
    BY CallTypes DEF Return, NoCall, Open
  <2>2. calls' = [calls EXCEPT ![caller] = Return(caller, "CallError")]
    BY DEF Traps
  <2> DEFINE call == Return(caller, "CallError")
  <2> HIDE DEF q, call
  <2>3. \A p \in BOOLEAN :
           OpenCalls(p)' = IF call = Open /\ IsPrivileged(caller) = p THEN OpenCalls(p) \cup {caller}
                           ELSE OpenCalls(p) \ {caller}
    BY <2>2, OpenAfter DEF call
  <2>4. call # Open
    BY <2>1 DEF call
  <2> QED
    BY <2>3, <2>4
<1>3. \A p \in BOOLEAN : caller \in OpenCalls(p) <=> q = p
  BY DEF Traps, OpenCalls
<1> HIDE DEF q
<1>4. \A p \in BOOLEAN : dropped'[p] = dropped[p] + IF q = p THEN 1 ELSE 0
  BY <1>1
<1>5. ASSUME NEW p \in BOOLEAN
      PROVE  IsFiniteSet(OpenCalls(p))' /\ Answers(p)' = Answers(p)
  <2>1. IsFiniteSet(OpenCalls(p)) /\ Cardinality(OpenCalls(p)) \in Nat /\ dropped[p] \in Nat
    BY FS_CardinalityType DEF RecordInv, RecordTypes
  <2>2. /\ IsFiniteSet(OpenCalls(p)')
        /\ Cardinality(OpenCalls(p)') = Cardinality(OpenCalls(p)) - IF q = p THEN 1 ELSE 0
    BY <1>2, <1>3, <2>1, FS_RemoveElement
  <2>3. dropped'[p] = dropped[p] + IF q = p THEN 1 ELSE 0
    BY <1>4
  <2> DEFINE received == IF p THEN Count(counters, "cmc_requests")
                         ELSE Count(counters, "requests") - Count(counters, "cmc_requests")
  <2>4. received \in Int
    BY <1>1
  <2>5. /\ Answers(p) = received - dropped[p] - Cardinality(OpenCalls(p))
        /\ Answers(p)' = received - dropped'[p] - Cardinality(OpenCalls(p)')
    BY <1>1 DEF Answers, OpenCalls
  <2> HIDE DEF received
  <2> QED
    BY <2>1, <2>2, <2>3, <2>4, <2>5
<1>6. ASSUME NEW p \in BOOLEAN
      PROVE  LogFits(p)'
  BY <1>1, <1>5 DEF RecordInv, LogFits, Errors, ErrorsIn, LogSize
<1>7. RecordTypes'
  <2>1. dropped' \in [BOOLEAN -> Nat]
    BY <1>1
  <2> QED
    BY <1>1, <1>5, <2>1 DEF RecordInv, RecordTypes
<1>8. ClassesFit'
  BY <1>1 DEF RecordInv, ClassesFit, Classified
<1> QED
  BY <1>6, <1>7, <1>8 DEF RecordInv

(* Nothing is under way, and everything is forgotten. *)
NothingYet ==
    /\ counters = <<>> /\ logs = [p \in BOOLEAN |-> <<>>] /\ dropped = [p \in BOOLEAN |-> 0]
    /\ \A caller \in Callers : calls[caller] # Open

LEMMA NoRecords == NothingYet => RecordInv
<1> SUFFICES ASSUME NothingYet PROVE RecordInv
  OBVIOUS
<1> USE DEF NothingYet
<1>1. \A key : Count(counters, key) = 0
  BY DEF Count
<1>2. \A p \in BOOLEAN : OpenCalls(p) = {} /\ dropped[p] = 0 /\ logs[p] = <<>>
  BY DEF OpenCalls
<1>3. \A p \in BOOLEAN : Answers(p) = 0 /\ Errors(p) = 0 /\ ErrorsIn(logs[p]) = 0
  <2>1. \A p \in BOOLEAN : Answers(p) = 0 /\ Errors(p) = 0
    <3>1. ASSUME NEW p \in BOOLEAN PROVE Answers(p) = 0 /\ Errors(p) = 0
      <4>1. Cardinality(OpenCalls(p)) = 0 /\ dropped[p] = 0
        BY <1>2, FS_EmptySet
      <4>2. (IF p THEN Count(counters, "cmc_requests")
             ELSE Count(counters, "requests") - Count(counters, "cmc_requests")) = 0
        BY <1>1
      <4>3. Answers(p) = 0 - 0 - 0
        BY <4>1, <4>2, AnswersMeaning
      <4>4. Errors(p) = 0
        BY <1>1 DEF Errors
      <4> QED
        BY <4>3, <4>4
    <3> QED
      BY <3>1
  <2>2. \A p \in BOOLEAN : ErrorsIn(logs[p]) = 0
    <3>1. {i \in DOMAIN <<>> : <<>>[i].result # "Rate"} = {}
      OBVIOUS
    <3> QED
      BY <1>2, <3>1, FS_EmptySet DEF ErrorsIn
  <2> QED
    BY <2>1, <2>2
<1>4. \A p \in BOOLEAN : LogSize(p) \in Nat \ {0} /\ Len(logs[p]) = 0
  BY <1>2, MonitorAssumption DEF LogSize
<1>5. \A p \in BOOLEAN : LogFits(p)
  BY <1>3, <1>4, LeastOfTwo DEF LogFits
<1>6. Classified = 0
  <2> DEFINE f == [class \in ErrorClasses |-> Count(counters, class)]
  <2>1. Classified = SumFunctionOnSet(f, ErrorClasses)
    BY DEF Classified, SumFunction
  <2>2. \A class \in ErrorClasses : f[class] = 0
    BY <1>1
  <2> HIDE DEF f
  <2>3. /\ SumFunctionOnSet(f, ErrorClasses) <= 0 * Cardinality(ErrorClasses)
        /\ SumFunctionOnSet(f, ErrorClasses) \in Nat
    BY <2>2, ErrorClassesNamed, SumBounded, SumNat
  <2>4. Cardinality(ErrorClasses) \in Nat
    BY ErrorClassesNamed, FS_CardinalityType
  <2> QED
    BY <2>1, <2>3, <2>4
<1>7. RecordTypes
  <2>1. counters \in [DOMAIN counters -> Nat]
    OBVIOUS
  <2>2. logs \in [BOOLEAN -> Seq(LogEntry)] /\ dropped \in [BOOLEAN -> Nat]
    OBVIOUS
  <2>3. \A p \in BOOLEAN : IsFiniteSet(OpenCalls(p)) /\ Answers(p) \in Nat
    BY <1>2, <1>3, FS_EmptySet
  <2> QED
    BY <2>1, <2>2, <2>3 DEF RecordTypes
<1> QED
  BY <1>1, <1>5, <1>6, <1>7 DEF RecordInv, ClassesFit

(* An answer is no longer under way, is in the log of its kind of caller,  *)
(* and is counted if it is an error.                                       *)
LEMMA RepliedRecords ==
    ASSUME TypeInv, RecordInv, NEW caller \in Callers, NEW result \in Results,
           Replies(caller, result)
    PROVE  RecordInv'
<1> DEFINE q == IsPrivileged(caller)
           e == IF result # "Rate" THEN 1 ELSE 0
           entry == [caller |-> caller, result |-> result]
<1>1. /\ q \in BOOLEAN /\ e \in 0..1 /\ entry \in LogEntry /\ UNCHANGED dropped
      /\ logs \in [BOOLEAN -> Seq(LogEntry)] /\ counters \in [DOMAIN counters -> Nat]
      /\ logs' = [logs EXCEPT ![q] = Logged(@, entry, LogSize(q))]
      /\ counters' = CountReply(counters, q, result)
  <2>1. q \in BOOLEAN /\ e \in 0..1 /\ entry \in LogEntry
    BY DEF IsPrivileged, LogEntry
  <2>2. /\ logs \in [BOOLEAN -> Seq(LogEntry)] /\ counters \in [DOMAIN counters -> Nat]
    BY DEF RecordInv, RecordTypes
  <2>3. /\ UNCHANGED dropped /\ counters' = CountReply(counters, q, result)
        /\ logs' = [logs EXCEPT ![q] = Logged(@, entry, LogSize(q))]
    BY DEF Replies
  <2> QED
    BY <2>1, <2>2, <2>3
<1>2. \A p \in BOOLEAN : OpenCalls(p)' = OpenCalls(p) \ {caller}
  <2> DEFINE call == Return(caller, result)
  <2>1. call # Open /\ calls' = [calls EXCEPT ![caller] = call]
    BY CallTypes DEF Return, NoCall, Open, Replies
  <2> HIDE DEF q, call
  <2>2. \A p \in BOOLEAN :
           OpenCalls(p)' = IF call = Open /\ IsPrivileged(caller) = p THEN OpenCalls(p) \cup {caller}
                           ELSE OpenCalls(p) \ {caller}
    BY <2>1, OpenAfter
  <2> QED
    BY <2>1, <2>2
<1>3. \A p \in BOOLEAN : caller \in OpenCalls(p) <=> q = p
  BY DEF Replies, OpenCalls
<1> HIDE DEF q
<1>4. \A key : Count(counters, key) \in Nat
  BY <1>1, CountIsNat
<1>5. /\ counters' \in [DOMAIN counters' -> Nat]
      /\ Count(counters', "errors_returned") = Count(counters, "errors_returned") + e
      /\ Count(counters', "cmc_errors_returned")
             = Count(counters, "cmc_errors_returned") + IF q THEN e ELSE 0
      /\ Count(counters', "requests") = Count(counters, "requests")
      /\ Count(counters', "cmc_requests") = Count(counters, "cmc_requests")
  <2>1. CASE result = "Rate"
    <3>1. counters' = counters
      BY <1>1, <2>1 DEF CountReply
    <3> QED
      BY <1>1, <1>4, <2>1, <3>1
  <2>2. CASE result # "Rate"
    BY <1>1, <2>2, ReplyCounted
  <2> QED
    BY <2>1, <2>2
<1>6. ASSUME NEW p \in BOOLEAN
      PROVE  /\ IsFiniteSet(OpenCalls(p))' /\ Answers(p) \in Nat
             /\ Answers(p)' = Answers(p) + IF q = p THEN 1 ELSE 0
  <2>1. /\ IsFiniteSet(OpenCalls(p)) /\ Cardinality(OpenCalls(p)) \in Nat /\ dropped[p] \in Nat
        /\ Answers(p) \in Nat
    BY FS_CardinalityType DEF RecordInv, RecordTypes
  <2>2. /\ IsFiniteSet(OpenCalls(p)')
        /\ Cardinality(OpenCalls(p)') = Cardinality(OpenCalls(p)) - IF q = p THEN 1 ELSE 0
    BY <1>2, <1>3, <2>1, FS_RemoveElement
  <2> DEFINE received == IF p THEN Count(counters, "cmc_requests")
                         ELSE Count(counters, "requests") - Count(counters, "cmc_requests")
  <2>3. received \in Int
    BY <1>4
  <2>4. /\ Answers(p) = received - dropped[p] - Cardinality(OpenCalls(p))
        /\ Answers(p)' = received - dropped[p] - Cardinality(OpenCalls(p)')
    BY <1>1, <1>5 DEF Answers, OpenCalls
  <2> HIDE DEF received
  <2> QED
    BY <2>1, <2>2, <2>3, <2>4
<1>7. ASSUME NEW p \in BOOLEAN
      PROVE  /\ Errors(p) \in Int /\ Errors(p)' = Errors(p) + IF q = p THEN e ELSE 0
  <2>1. CASE p
    <3>1. /\ Errors(p) = Count(counters, "cmc_errors_returned") /\ Errors(p) \in Nat
          /\ Errors(p)' = Count(counters', "cmc_errors_returned")
      BY <1>4, <2>1 DEF Errors
    <3>2. q = p <=> q
      BY <1>1, <2>1
    <3> QED
      BY <1>1, <1>5, <3>1, <3>2
  <2>2. CASE ~p
    <3>1. /\ Errors(p) = Count(counters, "errors_returned") - Count(counters, "cmc_errors_returned")
          /\ Errors(p)' = Count(counters', "errors_returned")
                              - Count(counters', "cmc_errors_returned")
      BY <2>2 DEF Errors
    <3>2. q = p <=> ~q
      BY <1>1, <2>2
    <3> HIDE DEF e
    <3> QED
      BY <1>1, <1>4, <1>5, <3>1, <3>2
  <2> QED
    BY <2>1, <2>2
<1>8. /\ \A p \in BOOLEAN : LogSize(p) \in Nat \ {0}
      /\ \A p \in BOOLEAN : LogSize(p)' = LogSize(p)
  BY MonitorAssumption DEF LogSize
<1>9. ASSUME NEW p \in BOOLEAN, p # q
      PROVE  logs'[p] \in Seq(LogEntry) /\ LogFits(p)'
  <2>1. logs'[p] = logs[p] /\ Answers(p)' = Answers(p) /\ Errors(p)' = Errors(p)
    BY <1>1, <1>6, <1>7, <1>9
  <2> QED
    BY <1>1, <1>8, <2>1 DEF RecordInv, LogFits, ErrorsIn
<1>10. ASSUME NEW p \in BOOLEAN, p = q
       PROVE  logs'[p] \in Seq(LogEntry) /\ LogFits(p)'
  <2> DEFINE log == logs[p]
             after == logs'[p]
             size == LogSize(p)
  <2>1. after = Logged(log, entry, size) /\ log \in Seq(LogEntry)
    BY <1>1, <1>10
  <2>2. /\ Answers(p) \in Nat /\ Answers(p)' = Answers(p) + 1
        /\ Errors(p) \in Int /\ Errors(p)' = Errors(p) + e
    BY <1>6, <1>7, <1>10
  <2>3. /\ Len(log) = Min({size, Answers(p)}) /\ ErrorsIn(log) <= Errors(p)
        /\ Errors(p) <= Answers(p) - (Len(log) - ErrorsIn(log))
    BY DEF RecordInv, LogFits
  <2>4. size \in Nat \ {0} /\ ErrorsIn(log) \in Nat /\ Len(log) \in Nat
    BY <1>8, <2>1, ErrorsInLog
  <2> HIDE DEF log, size, after
  <2>5. Len(log) = (IF size <= Answers(p) THEN size ELSE Answers(p)) /\ Len(log) <= size
    BY <2>2, <2>3, <2>4, LeastOfTwo
  <2> HIDE DEF entry, e
  <2>6. /\ after \in Seq(LogEntry)
        /\ Len(after) = IF Len(log) = size THEN size ELSE Len(log) + 1
        /\ ErrorsIn(after) <= ErrorsIn(log) + e
        /\ Len(after) - ErrorsIn(after) <= Len(log) - ErrorsIn(log) + 1 - e
    <3>1. entry.result = result
      BY DEF entry
    <3> QED
      BY <1>1, <2>1, <2>4, <2>5, <3>1, LoggedErrors DEF e
  <2>7. ErrorsIn(after) \in Nat /\ Len(after) \in Nat
    BY <2>6, ErrorsInLog
  <2>8. Len(after) = Min({size, Answers(p)'})
    BY <2>2, <2>4, <2>5, <2>6, LeastOfTwo
  <2>9. ErrorsIn(after) <= Errors(p)'
    BY <1>1, <2>2, <2>3, <2>4, <2>6, <2>7
  <2>10. Errors(p)' <= Answers(p)' - (Len(after) - ErrorsIn(after))
    <3> DEFINE k == Len(log) - ErrorsIn(log)
               m == Len(after) - ErrorsIn(after)
    <3>1. k \in Int /\ m \in Int /\ e \in Int
      BY <1>1, <2>4, <2>7
    <3>2. m <= k + 1 - e /\ Errors(p) <= Answers(p) - k
      BY <2>3, <2>6
    <3> HIDE DEF k, m
    <3>3. Errors(p) + e <= Answers(p) + 1 - m
      BY <2>2, <3>1, <3>2
    <3> QED
      BY <2>2, <3>1, <3>3 DEF m
  <2> QED
    BY <1>8, <2>6, <2>8, <2>9, <2>10 DEF LogFits, ErrorsIn, after, size
<1>11. ClassesFit'
  <2> DEFINE names == IF result = "Rate" THEN {} ELSE ErrorClass(result)
  <2>1. /\ names \in SUBSET ErrorClasses
        /\ names = {} \/ \E class \in ClassNames : names = {class}
    BY OneClass, ErrorClassesNamed
  <2>2. \A class \in ErrorClasses :
           Count(counters', class) = Count(counters, class) + IF class \in names THEN 1 ELSE 0
    <3>1. CASE result = "Rate"
      <4>1. counters' = counters
        BY <1>1, <3>1 DEF CountReply
      <4> QED
        BY <1>4, <3>1, <4>1
    <3>2. CASE result # "Rate"
      BY <1>1, <3>2, ReplyCounted
    <3> QED
      BY <3>1, <3>2
  <2>3. /\ names = {} => e = 0 \/ ErrorClass(result) = {}
        /\ names # {} => e = 1
    OBVIOUS
  <2> HIDE DEF names, e
  <2>4. /\ Classified \in Nat
        /\ Classified' = Classified + IF names = {} THEN 0 ELSE 1
    <3>1. PICK d : d = counters'
      OBVIOUS
    <3>2. /\ counters \in [DOMAIN counters -> Nat] /\ d \in [DOMAIN d -> Nat]
          /\ \A class \in ErrorClasses :
                Count(d, class) = Count(counters, class) + IF class \in names THEN 1 ELSE 0
      BY <1>1, <1>5, <2>2, <3>1
    <3>3. /\ SumFunction([class \in ErrorClasses |-> Count(counters, class)]) \in Nat
          /\ SumFunction([class \in ErrorClasses |-> Count(d, class)])
                 = SumFunction([class \in ErrorClasses |-> Count(counters, class)])
                       + IF names = {} THEN 0 ELSE 1
      BY <2>1, <3>2, ClassifiedAdds
    <3> QED
      BY <3>1, <3>3 DEF Classified
  <2>5. /\ Classified <= Count(counters, "errors_returned")
        /\ (\A error \in Results \ {"Rate"} : ErrorClass(error) # {}) =>
              Classified = Count(counters, "errors_returned")
    BY DEF RecordInv, ClassesFit
  <2>6. /\ Count(counters', "errors_returned") = Count(counters, "errors_returned") + e
        /\ Count(counters, "errors_returned") \in Nat
    BY <1>4, <1>5
  <2>7. Classified' <= Count(counters', "errors_returned")
    BY <1>1, <2>3, <2>4, <2>5, <2>6
  <2>8. ASSUME \A error \in Results \ {"Rate"} : ErrorClass(error) # {}
        PROVE  Classified' = Count(counters', "errors_returned")
    <3>1. names = {} => e = 0
      BY <2>3, <2>8 DEF e
    <3> QED
      BY <1>1, <2>3, <2>4, <2>5, <2>6, <2>8, <3>1
  <2> QED
    BY <2>7, <2>8 DEF ClassesFit
<1>12. RecordTypes'
  <2>1. logs' \in [BOOLEAN -> Seq(LogEntry)]
    BY <1>1, <1>9, <1>10
  <2>2. \A p \in BOOLEAN : IsFiniteSet(OpenCalls(p))' /\ Answers(p)' \in Nat
    BY <1>6
  <2> QED
    BY <1>1, <1>5, <2>1, <2>2 DEF RecordInv, RecordTypes
<1> QED
  BY <1>9, <1>10, <1>11, <1>12 DEF RecordInv

LEMMA NoRecordsAfter == NothingYet' => RecordInv'
BY NoRecords, PTL

LEMMA RecordStep == TypeInv /\ RecordInv /\ [Next]_vars => RecordInv'
<1> SUFFICES ASSUME TypeInv, RecordInv, [Next]_vars PROVE RecordInv'
  OBVIOUS
<1>1. CASE UpgradeXrc
  <2>1. \A caller \in Callers : calls'[caller] # Open
    BY <1>1 DEF UpgradeXrc
  <2>2. NothingYet'
    BY <1>1, <2>1 DEF UpgradeXrc, NothingYet
  <2> QED
    BY <2>2, NoRecordsAfter
<1> QED
  BY <1>1, RecordSteps, KeptRecords, ArrivedRecords, RepliedRecords, TrappedRecords

(* The counters and the request logs of the exchange rate canister agree,  *)
(* although a request is counted when it arrives and its answer when it    *)
(* leaves, callbacks trap in between and the logs forget old answers: what *)
(* was counted and is neither under way nor trapped is in a log or was     *)
(* pushed out of it, and every error is counted once, in its class if it   *)
(* has one (api.rs, get_exchange_rate; request_log.rs).                    *)
THEOREM CountersAgree == Spec => []CountersMatchLogs
<1>1. Init => RecordInv
  <2>1. Init => \A caller \in Callers : calls[caller] # Open
    BY DEF Init, NoCall, Open
  <2> QED
    BY <2>1, NoRecords DEF Init, NothingYet
<1> QED
  BY <1>1, RecordStep, RecordMeaning, TypeInvariant, PTL DEF Spec

=============================================================================
