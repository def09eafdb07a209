---------------------------- MODULE RequestProofs ----------------------------
(***************************************************************************)
(* Proofs about what the calls of GetExchangeRate reserve, cost and answer *)
(* for every number of calls, exchanges and assets: the request counter,   *)
(* the fees, the errors and the minutes fetched.  What a step is comes     *)
(* from GetExchangeRateProofs.                                             *)
(***************************************************************************)
EXTENDS GetExchangeRateProofs, SumTheorems

-----------------------------------------------------------------------------
(* The calls that wait *)

(* What the handler knows of a call that waits: it needs a rate, at least  *)
(* those of the stablecoins it misses, it has paid for that number, and    *)
(* only of two crypto assets is the quote asset fetched.                   *)
SoundCall(call) ==
    /\ call.need > 0 /\ Cardinality(call.missed) <= call.need
    /\ call.fee = Fee(call.caller, TRUE, call.need)
    /\ ~IsFiatPair(call.request)
    /\ call.phase = "quote" => IsCryptoPair(call.request)

SoundCalls == \A c \in Calls : IsActive(c) => SoundCall(calls[c])

LEMMA SoundContinues ==
    ASSUME NEW call, SoundCall(call), NEW next \in Continuations(call)
    PROVE  SoundCall(next)
BY DEF SoundCall, Continuations, SameWork, FetchesQuote

(* What a step does to the calls and to the counter, and what it answers:  *)
(* one call goes on, begins, ends or begins and ends at once; or all stays *)
(* as it is.                                                               *)
Begins(c, call) ==
    /\ ~IsActive(c) /\ call \in Call /\ SoundCall(call)
    /\ LookedValidation(call) = "Ok"
    /\ call.timestamp = RequestedTimestamp(Handled(call.request))

Works(c, call, next, reserved) ==
    /\ call \in Call /\ SoundCall(call) /\ next \in Continuations(call)
    /\ \E held : Proceed(c, next, held, reserved)

LEMMA CallWorks ==
    ASSUME TypeOK, SoundCalls, NEW c \in Calls
    PROVE  /\ Starts(c) => \E call, next :
                 Begins(c, call) /\ Works(c, call, next, counter + Reserved(call))
           /\ Resumes(c) => \E next : IsActive(c) /\ Works(c, calls[c], next, counter)
<1>1. ASSUME Starts(c)
      PROVE  \E call, next : Begins(c, call) /\ Works(c, call, next, counter + Reserved(call))
  <2>1. PICK call \in Call :
          /\ LookedValidation(call) = "Ok" /\ ~IsFiatPair(call.request)
          /\ call.phase = "running"
          /\ call.timestamp = RequestedTimestamp(Handled(call.request))
          /\ call.need > 0 /\ Cardinality(call.missed) <= call.need
          /\ call.fee = Fee(call.caller, TRUE, call.need)
          /\ \E next \in Continuations(call) :
                Proceed(c, next, inflight \cup Keys(call), counter + Reserved(call))
    BY <1>1 DEF Starts
  <2>2. SoundCall(call)
    BY <2>1 DEF SoundCall
  <2>3. Begins(c, call)
    BY <1>1, <2>1, <2>2 DEF Begins, Starts
  <2> QED
    BY <2>1, <2>2, <2>3 DEF Works
<1>2. ASSUME Resumes(c)
      PROVE  \E next : IsActive(c) /\ Works(c, calls[c], next, counter)
  BY <1>2, ActiveCall DEF Resumes, Resume, Works, SoundCalls
<1> QED
  BY <1>1, <1>2

LEMMA CallSteps ==
    ASSUME TypeOK, SoundCalls, [Next]_vars
    PROVE  \/ \E c \in Calls : \E call, next :
                 Begins(c, call) /\ Works(c, call, next, counter + Reserved(call))
           \/ \E c \in Calls : \E next :
                 IsActive(c) /\ Works(c, calls[c], next, counter)
           \/ UNCHANGED <<calls, counter>>
           \/ Upgrade
BY CallWorks, StepKinds DEF AnswersAtOnce, Tick, vars

LEMMA SoundCallsStep == TypeOK /\ SoundCalls /\ [Next]_vars => SoundCalls'
<1> SUFFICES ASSUME TypeOK, SoundCalls, [Next]_vars, NEW d \in Calls, IsActive(d)'
             PROVE  SoundCall(calls'[d])
  BY DEF SoundCalls
<1>1. ASSUME NEW c \in Calls, NEW call, NEW next, NEW reserved, Works(c, call, next, reserved)
      PROVE  SoundCall(calls'[d])
  <2>1. SoundCall(next)
    BY <1>1, SoundContinues DEF Works
  <2>2. calls' = [calls EXCEPT ![c] = next] \/ calls' = [calls EXCEPT ![c] = Idle]
    BY <1>1, ProceedStep DEF Works
  <2>3. CASE d = c
    BY <1>1, <2>1, <2>2, <2>3 DEF TypeOK, IsActive, Idle
  <2>4. CASE d # c
    BY <2>2, <2>4 DEF TypeOK, IsActive, SoundCalls
  <2> QED
    BY <2>3, <2>4
<1>2. CASE UNCHANGED <<calls, counter>>
  BY <1>2 DEF IsActive, SoundCalls
<1>3. CASE Upgrade
  BY <1>3 DEF Upgrade, IsActive
<1> QED
  BY <1>1, <1>2, <1>3, CallSteps

LEMMA SoundCallsInvariant == Spec => []SoundCalls
<1>1. Init => SoundCalls
  BY DEF Init, SoundCalls, IsActive, Idle
<1> QED
  BY <1>1, SoundCallsStep, TypeCorrect, PTL DEF Spec

-----------------------------------------------------------------------------
(* The request counter *)

Load(cs) == [c \in Calls |-> Reserved(cs[c])]

(* What some calls reserve is the sum of their part of the load. *)
LEMMA LoadIsReserved ==
    ASSUME NEW cs, NEW S \in SUBSET Calls, IsFiniteSet(S), \A c \in S : cs[c] \in Call
    PROVE  /\ SumFunction([c \in S |-> Reserved(cs[c])]) = SumFunctionOnSet(Load(cs), S)
           /\ SumFunctionOnSet(Load(cs), S) \in Nat
           /\ \A c \in S : Load(cs)[c] = Reserved(cs[c]) /\ Load(cs)[c] \in Nat
<1> DEFINE part == [c \in S |-> Reserved(cs[c])]
<1>1. \A c \in S : part[c] = Reserved(cs[c]) /\ part[c] \in Nat /\ Load(cs)[c] = part[c]
  BY ReservedType DEF Load
<1>2. SumFunction(part) = SumFunctionOnSet(part, S)
  BY DEF SumFunction
<1> HIDE DEF part
<1>3. SumFunctionOnSet(part, S) = SumFunctionOnSet(Load(cs), S)
  BY <1>1, SumSame
<1>4. SumFunctionOnSet(Load(cs), S) \in Nat
  BY <1>1, SumNat
<1> QED
  BY <1>1, <1>2, <1>3, <1>4 DEF part

(* Only finitely many calls wait at any time: each step adds at most one.  *)
CounterInv == IsFiniteSet(Active) /\ CounterIsReserved

(* The counter and the load, after one step of a call: the call is, or is  *)
(* not, among those that wait.                                             *)
Waits(c, next, reserved) ==
    /\ calls' = [calls EXCEPT ![c] = next] /\ calls'[c] = next
    /\ Active' = Active \cup {c} /\ counter' = reserved

Ends(c, call, reserved) ==
    /\ calls' = [calls EXCEPT ![c] = Idle]
    /\ Active' = Active \ {c} /\ counter' = Minus(reserved, Reserved(call))

LEMMA WorksCases ==
    ASSUME TypeOK, NEW c \in Calls, NEW call, NEW next, NEW reserved,
           Works(c, call, next, reserved)
    PROVE  /\ Waits(c, next, reserved) \/ Ends(c, call, reserved)
           /\ next \in Call /\ Reserved(next) = Reserved(call)
           /\ \A d \in Calls \ {c} : calls'[d] = calls[d]
<1>1. next \in Call /\ Reserved(next) = Reserved(call)
  BY GuardsKept DEF Works, Continuations
<1>2. CASE /\ calls' = [calls EXCEPT ![c] = next]
           /\ next.phase \in {"stablecoins", "base", "quote"}
           /\ counter' = reserved
  <2>1. calls'[c] = next /\ \A d \in Calls \ {c} : calls'[d] = calls[d]
    BY <1>2 DEF TypeOK
  <2>2. Active' = Active \cup {c}
    BY <1>2, <2>1 DEF Active, IsActive
  <2> QED
    BY <1>1, <1>2, <2>1, <2>2 DEF Waits
<1>3. CASE /\ calls' = [calls EXCEPT ![c] = Idle]
           /\ counter' = Minus(reserved, Reserved(call))
  <2>1. calls'[c] = Idle /\ \A d \in Calls \ {c} : calls'[d] = calls[d]
    BY <1>3 DEF TypeOK
  <2>2. Active' = Active \ {c}
    BY <2>1 DEF Active, IsActive, Idle
  <2> QED
    BY <1>1, <1>3, <2>1, <2>2 DEF Ends
<1> QED
  BY <1>2, <1>3, ProceedStep DEF Works

(* The load of the calls that wait before and after a step, as far as they *)
(* are the same calls.                                                     *)
LEMMA LoadKept ==
    ASSUME NEW cs, NEW ds, NEW S \in SUBSET Calls, IsFiniteSet(S),
           \A c \in S : /\ cs[c] \in Call /\ ds[c] \in Call
                        /\ Reserved(ds[c]) = Reserved(cs[c])
    PROVE  SumFunctionOnSet(Load(ds), S) = SumFunctionOnSet(Load(cs), S)
<1>1. \A c \in S : Load(cs)[c] \in Int /\ Load(cs)[c] = Load(ds)[c]
  BY ReservedType DEF Load
<1> QED
  BY <1>1, SumSame

ActiveLoad == SumFunctionOnSet(Load(calls), Active)

LEMMA CounterMeaning ==
    ASSUME TypeOK, IsFiniteSet(Active)
    PROVE  /\ Active \in SUBSET Calls /\ \A c \in Active : calls[c] \in Call
           /\ CounterIsReserved <=> counter = ActiveLoad
           /\ ActiveLoad \in Nat
<1>1. Active \in SUBSET Calls /\ \A c \in Active : calls[c] \in Call
  BY ActiveCall DEF Active
<1> QED
  BY <1>1, LoadIsReserved DEF CounterIsReserved, ReservedBy, ActiveLoad

LEMMA CounterStep == TypeOK /\ SoundCalls /\ CounterInv /\ [Next]_vars => CounterInv'
<1> SUFFICES ASSUME TypeOK, SoundCalls, CounterInv, [Next]_vars PROVE CounterInv'
  OBVIOUS
<1>1. /\ Active \in SUBSET Calls /\ IsFiniteSet(Active) /\ \A d \in Active : calls[d] \in Call
      /\ counter = ActiveLoad /\ ActiveLoad \in Nat
  BY CounterMeaning DEF CounterInv
<1>2. /\ Active' \in SUBSET Calls /\ \A d \in Active' : calls'[d] \in Call
  <2>1. TypeOK'
    BY TypeStep
  <2> QED
    BY <2>1 DEF TypeOK, Active, IsActive, Idle
<1>3. SUFFICES IsFiniteSet(Active') /\ counter' = SumFunctionOnSet(Load(calls'), Active')
  <2>1. ASSUME IsFiniteSet(Active')
        PROVE  SumFunction([c \in Active' |-> Reserved(calls'[c])])
                   = SumFunctionOnSet(Load(calls'), Active')
    BY <1>2, <2>1, LoadIsReserved
  <2> QED
    BY <2>1 DEF CounterInv, CounterIsReserved, ReservedBy
<1>4. ASSUME NEW S \in SUBSET Active, S \subseteq Active',
             \A d \in S : Reserved(calls'[d]) = Reserved(calls[d])
      PROVE  /\ IsFiniteSet(S)
             /\ SumFunctionOnSet(Load(calls'), S) = SumFunctionOnSet(Load(calls), S)
  <2>1. IsFiniteSet(S) /\ S \in SUBSET Calls
    BY <1>1, FS_Subset
  <2>2. \A d \in S : calls[d] \in Call /\ calls'[d] \in Call
    BY <1>1, <1>2, <1>4
  <2> QED
    BY <1>4, <2>1, <2>2, LoadKept
<1>5. ASSUME NEW c \in Calls, NEW call, NEW next, Begins(c, call),
             Works(c, call, next, counter + Reserved(call))
      PROVE  IsFiniteSet(Active') /\ counter' = SumFunctionOnSet(Load(calls'), Active')
  <2>1. c \notin Active /\ Reserved(call) \in Nat
    BY <1>5, ReservedType DEF Begins, Active
  <2>2. \A d \in Active : calls'[d] = calls[d]
    BY <1>1, <1>5, <2>1, WorksCases
  <2>3. CASE Waits(c, next, counter + Reserved(call))
    <3>1. Active' = Active \cup {c} /\ Active \subseteq Active'
      BY <2>3 DEF Waits
    <3>2. SumFunctionOnSet(Load(calls'), Active) = ActiveLoad
      BY <1>4, <2>2, <3>1 DEF ActiveLoad
    <3>3. /\ Load(calls')[c] = Reserved(call)
          /\ \A d \in Active' : Load(calls')[d] \in Int
      <4>1. calls'[c] = next /\ Reserved(next) = Reserved(call)
        BY <1>5, <2>3, WorksCases DEF Waits
      <4>2. \A d \in Active' : Reserved(calls'[d]) \in Nat
        BY <1>2, ReservedType
      <4> QED
        BY <1>2, <4>1, <4>2 DEF Load
    <3>4. SumFunctionOnSet(Load(calls'), Active') = ActiveLoad + Reserved(call)
      BY <1>1, <2>1, <3>1, <3>2, <3>3, SumAdd
    <3> QED
      BY <1>1, <2>3, <3>1, <3>4, FS_AddElement DEF Waits
  <2>4. CASE Ends(c, call, counter + Reserved(call))
    <3>1. Active' = Active
      BY <2>1, <2>4 DEF Ends
    <3>2. SumFunctionOnSet(Load(calls'), Active) = ActiveLoad
      BY <1>4, <2>2, <3>1 DEF ActiveLoad
    <3>3. counter' = counter
      BY <1>1, <2>1, <2>4 DEF Ends, Minus
    <3> QED
      BY <1>1, <3>1, <3>2, <3>3
  <2> QED
    BY <1>5, <2>3, <2>4, WorksCases
<1>6. ASSUME NEW c \in Calls, NEW next, IsActive(c), Works(c, calls[c], next, counter)
      PROVE  IsFiniteSet(Active') /\ counter' = SumFunctionOnSet(Load(calls'), Active')
  <2>1. c \in Active /\ calls[c] \in Call /\ Reserved(calls[c]) \in Nat
    BY <1>6, ActiveCall, ReservedType DEF Active
  <2>2. \A d \in Active \ {c} : calls'[d] = calls[d]
    BY <1>1, <1>6, WorksCases
  <2>3. CASE Waits(c, next, counter)
    <3>1. Active' = Active
      BY <2>1, <2>3 DEF Waits
    <3>2. \A d \in Active : Reserved(calls'[d]) = Reserved(calls[d])
      BY <1>6, <2>2, <2>3, WorksCases DEF Waits
    <3>3. SumFunctionOnSet(Load(calls'), Active) = ActiveLoad
      BY <1>4, <3>1, <3>2 DEF ActiveLoad
    <3> QED
      BY <1>1, <2>3, <3>1, <3>3 DEF Waits
  <2>4. CASE Ends(c, calls[c], counter)
    <3>1. Active' = Active \ {c}
      BY <2>4 DEF Ends
    <3>2. /\ IsFiniteSet(Active')
          /\ SumFunctionOnSet(Load(calls'), Active') = SumFunctionOnSet(Load(calls), Active')
      BY <1>4, <2>2, <3>1
    <3>3. \A d \in Active : Load(calls)[d] \in Nat /\ Load(calls)[d] = Reserved(calls[d])
      BY <1>1, LoadIsReserved
    <3>4. ActiveLoad = Reserved(calls[c]) + SumFunctionOnSet(Load(calls), Active')
      BY <1>1, <2>1, <3>1, <3>3, SumRemove DEF ActiveLoad
    <3>5. SumFunctionOnSet(Load(calls), Active') \in Nat
      BY <3>1, <3>2, <3>3, SumNat
    <3>6. counter' = SumFunctionOnSet(Load(calls), Active')
      BY <1>1, <2>1, <2>4, <3>4, <3>5 DEF Ends, Minus
    <3> QED
      BY <3>2, <3>6
  <2> QED
    BY <1>6, <2>3, <2>4, WorksCases
<1>7. CASE UNCHANGED <<calls, counter>>
  <2>1. Active' = Active
    BY <1>7 DEF Active, IsActive
  <2> QED
    BY <1>1, <1>7, <2>1 DEF ActiveLoad
<1>8. CASE Upgrade
  <2>1. Active = {} /\ Active' = {} /\ counter' = 0
    BY <1>8 DEF Upgrade, Active, IsActive
  <2> QED
    BY <2>1, SumEmpty, FS_EmptySet
<1> QED
  BY <1>5, <1>6, <1>7, <1>8, CallSteps

LEMMA CounterInvariant == Spec => []CounterInv
<1>1. Init => CounterInv
  <2> SUFFICES ASSUME Init PROVE CounterInv
    OBVIOUS
  <2>1. Active = {} /\ counter = 0
    BY DEF Init, Active, IsActive, Idle
  <2>2. ReservedBy(Active) = 0
    <3>1. Active \in SUBSET Calls /\ IsFiniteSet(Active)
      BY <2>1, FS_EmptySet
    <3>2. ReservedBy(Active) = SumFunctionOnSet(Load(calls), Active)
      BY <2>1, <3>1, LoadIsReserved DEF ReservedBy
    <3> QED
      BY <2>1, <3>2, SumEmpty
  <2> QED
    BY <2>1, <2>2, FS_EmptySet DEF CounterInv, CounterIsReserved
<1> QED
  BY <1>1, CounterStep, TypeCorrect, SoundCallsInvariant, PTL DEF Spec

(* The request counter is what the waiting calls reserved, for any number  *)
(* of calls that overlap and however each of them ends (rate_limiting.rs). *)
THEOREM CounterExact == Spec => []CounterIsReserved
<1>1. CounterInv => CounterIsReserved
  BY DEF CounterInv
<1> QED
  BY <1>1, CounterInvariant, PTL

(* As many outcalls as a call may have under way, it has reserved.         *)
LEMMA OutcallsReserved ==
    ASSUME NEW call \in Call, SoundCall(call)
    PROVE  Outcalls(call) \in Nat /\ Outcalls(call) <= Reserved(call)
<1> DEFINE size == Cardinality(Exchanges)
<1>1. size \in Nat /\ call.need \in Nat /\ call.need > 0
  BY ExchangesAssumption, FS_CardinalityType DEF Call, SoundCall
<1>2. Reserved(call) = size * call.need
  BY DEF Reserved
<1>3. CASE call.phase = "stablecoins"
  <2> DEFINE served == [s \in call.missed |-> Cardinality(ServedBy(call, s))]
  <2>1. Cardinality(call.missed) \in 0..2 /\ IsFiniteSet(call.missed)
    <3>1. call.missed \in SUBSET Stablecoins
      BY DEF Call
    <3>2. IsFiniteSet(Stablecoins)
      <4>1. IsFiniteSet({USDS}) /\ Stablecoins = {USDS} \cup {USDC}
        BY FS_Singleton DEF Stablecoins
      <4> QED
        BY <4>1, FS_AddElement
    <3> QED
      BY <3>1, <3>2, StablecoinsCount, FS_Subset
  <2>2. \A s \in call.missed : served[s] \in Nat /\ served[s] <= size
    <3>1. \A s : ServedBy(call, s) \in SUBSET Exchanges
      BY DEF ServedBy, Call
    <3> QED
      BY <3>1, ExchangesAssumption, FS_Subset, FS_CardinalityType
  <2>3. Outcalls(call) = SumFunctionOnSet(served, call.missed)
    BY <1>3 DEF Outcalls, SumFunction
  <2> HIDE DEF served, size
  <2>4. Outcalls(call) \in Nat /\ Outcalls(call) <= size * Cardinality(call.missed)
    BY <1>1, <2>1, <2>2, <2>3, SumNat, SumBounded
  <2>5. Cardinality(call.missed) <= call.need
    BY DEF SoundCall
  <2>6. size * Cardinality(call.missed) <= size * call.need
    BY <1>1, <2>1, <2>5
  <2>7. size * call.need \in Nat /\ size * Cardinality(call.missed) \in Nat
    BY <1>1, <2>1
  <2> QED
    BY <1>2, <2>4, <2>6, <2>7
<1>4. CASE call.phase # "stablecoins"
  <2>1. Outcalls(call) \in Nat /\ Outcalls(call) <= size
    <3>1. call.queried \in SUBSET Exchanges
      BY DEF Call
    <3> QED
      BY <1>4, <3>1, ExchangesAssumption, FS_Subset, FS_CardinalityType DEF Outcalls
  <2> HIDE DEF size
  <2>2. size <= size * call.need /\ size * call.need \in Nat
    BY <1>1
  <2> QED
    BY <1>1, <1>2, <2>1, <2>2
<1> QED
  BY <1>3, <1>4

(* The outcalls under way never exceed the counter, in whatever phase each *)
(* of the waiting calls is (api.rs, with_request_counter).                 *)
THEOREM OutcallsAreReserved == Spec => []OutcallsWithinCounter
<1>1. TypeOK /\ SoundCalls /\ CounterInv => OutcallsWithinCounter
  <2> SUFFICES ASSUME TypeOK, SoundCalls, CounterInv PROVE OutcallsWithinCounter
    OBVIOUS
  <2> DEFINE outcalls == [c \in Active |-> Outcalls(calls[c])]
  <2>1. /\ IsFiniteSet(Active) /\ Active \in SUBSET Calls /\ counter = ActiveLoad
        /\ \A c \in Active : calls[c] \in Call /\ SoundCall(calls[c])
    BY CounterMeaning DEF CounterInv, SoundCalls, Active
  <2>2. \A c \in Active : /\ outcalls[c] \in Nat /\ Load(calls)[c] \in Nat
                          /\ outcalls[c] <= Load(calls)[c]
    BY <2>1, OutcallsReserved, LoadIsReserved
  <2>3. SumFunction(outcalls) = SumFunctionOnSet(outcalls, Active)
    BY DEF SumFunction
  <2> HIDE DEF outcalls
  <2>4. SumFunctionOnSet(outcalls, Active) <= ActiveLoad
    BY <2>1, <2>2, SumMonotone DEF ActiveLoad
  <2> QED
    BY <2>1, <2>3, <2>4 DEF OutcallsWithinCounter, outcalls
<1> QED
  BY <1>1, TypeCorrect, SoundCallsInvariant, CounterInvariant, PTL

-----------------------------------------------------------------------------
(* The rate limit *)

IsLimited(call) ==
    /\ call.caller \in OrdinaryCallers
    /\ ~IsPrivilegedPair(call.request) \/ call.request.timestamp # NoTimestamp

LEMMA LimitedCalls == Limited = {c \in Active : IsLimited(calls[c])}
BY DEF Limited, Ordinary, IsLimited

(* A pair is privileged whichever way round it is asked for. *)
LEMMA HandledIsAsPrivileged ==
    ASSUME NEW request \in Request(Symbols)
    PROVE  /\ IsPrivilegedPair(Handled(request)) <=> IsPrivilegedPair(request)
           /\ Handled(request).timestamp = request.timestamp
BY DEF Handled, IsFiatCryptoPair, IsPrivilegedPair, IsFiatPair, IsCryptoPair, Request, Asset,
       Crypto, Fiat

(* A call that is subject to the limit begins only within it. *)
LEMMA BeginsWithinLimit ==
    ASSUME TypeOK, NEW c, NEW call, Begins(c, call), IsLimited(call)
    PROVE  counter + Reserved(call) <= RequestCounterLimit
<1> DEFINE handled == Handled(call.request)
<1>1. ~IsRateLimited(handled, call.need)
  <2>1. Validation(call.caller, handled, call.timestamp, call.need) = "Ok"
    BY DEF Begins, LookedValidation
  <2>2. call.caller \notin PrivilegedCallers
    BY CallersAssumption DEF IsLimited
  <2> HIDE DEF handled
  <2>3. OrdinaryValidation(handled, call.timestamp, call.need) = "Ok"
    BY <2>1, <2>2 DEF Validation
  <2> QED
    BY <2>3 DEF OrdinaryValidation
<1>2. ~IsPrivilegedPair(handled) \/ handled.timestamp # NoTimestamp
  BY HandledIsAsPrivileged DEF IsLimited, Begins, Call
<1> HIDE DEF handled
<1>3. ~ (Reserved(call) + counter > RequestCounterLimit)
  BY <1>1, <1>2 DEF IsRateLimited, Reserved
<1> QED
  BY <1>3, LimitsAssumption, ReservedType DEF Begins, TypeOK

LimitInv == SumFunctionOnSet(Load(calls), Limited) <= RequestCounterLimit

LEMMA LimitMeaning ==
    ASSUME TypeOK, IsFiniteSet(Active)
    PROVE  LimitedLoadBounded <=> LimitInv
<1>1. Limited \in SUBSET Active /\ Limited \in SUBSET Calls
  BY LimitedCalls DEF Active
<1> QED
  BY <1>1, CounterMeaning, LoadIsReserved, FS_Subset DEF LimitedLoadBounded, ReservedBy, LimitInv

LEMMA LimitStep ==
    TypeOK /\ SoundCalls /\ CounterInv /\ LimitedLoadBounded /\ [Next]_vars => LimitedLoadBounded'
<1> SUFFICES ASSUME TypeOK, SoundCalls, CounterInv, LimitedLoadBounded, [Next]_vars
             PROVE  LimitedLoadBounded'
  OBVIOUS
<1>1. /\ IsFiniteSet(Active) /\ Active \in SUBSET Calls /\ \A d \in Active : calls[d] \in Call
      /\ LimitInv
  BY CounterMeaning, LimitMeaning DEF CounterInv
<1>2. /\ Active' \in SUBSET Calls /\ IsFiniteSet(Active')
      /\ \A d \in Active' : calls'[d] \in Call
      /\ \A d \in Active' : Load(calls')[d] \in Nat
  <2>1. TypeOK' /\ CounterInv'
    BY TypeStep, CounterStep
  <2>2. Active' \in SUBSET Calls /\ \A d \in Active' : calls'[d] \in Call
    BY <2>1 DEF TypeOK, Active, IsActive, Idle
  <2> QED
    BY <2>1, <2>2, LoadIsReserved DEF CounterInv
<1>3. Limited' = {d \in Active' : IsLimited(calls'[d])}
  BY DEF Limited, Ordinary, IsLimited
<1>4. Limited = {d \in Active : IsLimited(calls[d])}
  BY LimitedCalls
<1>5. SUFFICES SumFunctionOnSet(Load(calls'), Limited') <= RequestCounterLimit
  <2>1. Limited' \in SUBSET Calls /\ IsFiniteSet(Limited') /\ \A d \in Limited' : calls'[d] \in Call
    BY <1>2, <1>3, FS_Subset
  <2> QED
    BY <2>1, LoadIsReserved DEF LimitedLoadBounded, ReservedBy
<1>6. ASSUME Limited' \subseteq Limited,
             \A d \in Limited' : Reserved(calls'[d]) = Reserved(calls[d])
      PROVE  SumFunctionOnSet(Load(calls'), Limited') <= RequestCounterLimit
  <2>1. IsFiniteSet(Limited) /\ Limited \in SUBSET Calls /\ \A d \in Limited : calls[d] \in Call
    BY <1>1, <1>4, FS_Subset
  <2>2. IsFiniteSet(Limited') /\ Limited' \in SUBSET Calls /\ \A d \in Limited' : calls'[d] \in Call
    BY <1>2, <1>3, FS_Subset
  <2>3. SumFunctionOnSet(Load(calls'), Limited') = SumFunctionOnSet(Load(calls), Limited')
    BY <1>6, <2>1, <2>2, LoadKept
  <2>4. /\ SumFunctionOnSet(Load(calls), Limited') <= SumFunctionOnSet(Load(calls), Limited)
        /\ SumFunctionOnSet(Load(calls), Limited') \in Nat
        /\ SumFunctionOnSet(Load(calls), Limited) \in Nat
    <3>1. \A d \in Limited : Load(calls)[d] \in Nat
      BY <2>1, LoadIsReserved
    <3> QED
      BY <1>6, <2>1, <2>2, <3>1, SumOfSubset, SumNat
  <2> QED
    BY <1>1, <2>3, <2>4, LimitsAssumption DEF LimitInv
<1>7. ASSUME NEW c \in Calls, NEW call, NEW next, Begins(c, call),
             Works(c, call, next, counter + Reserved(call))
      PROVE  SumFunctionOnSet(Load(calls'), Limited') <= RequestCounterLimit
  <2>1. \A d \in Calls \ {c} : calls'[d] = calls[d]
    BY <1>7, WorksCases
  <2>2. c \notin Active
    BY <1>7 DEF Begins, Active
  <2>3. CASE Waits(c, next, counter + Reserved(call)) /\ IsLimited(call)
    <3>1. counter' <= RequestCounterLimit
      BY <1>7, <2>3, BeginsWithinLimit DEF Waits
    <3>2. counter' = SumFunctionOnSet(Load(calls'), Active')
      <4>1. CounterInv'
        BY CounterStep
      <4> QED
        BY <1>2, <4>1, LoadIsReserved DEF CounterInv, CounterIsReserved, ReservedBy
    <3>3. /\ SumFunctionOnSet(Load(calls'), Limited') <= counter'
          /\ SumFunctionOnSet(Load(calls'), Limited') \in Nat /\ counter' \in Nat
      <4>1. Limited' \in SUBSET Active' /\ IsFiniteSet(Limited')
        BY <1>2, <1>3, FS_Subset
      <4> QED
        BY <1>2, <3>2, <4>1, SumOfSubset, SumNat
    <3> QED
      BY <3>1, <3>3, LimitsAssumption
  <2>4. CASE Waits(c, next, counter + Reserved(call)) /\ ~IsLimited(call)
    <3>1. calls'[c] = next /\ Active' = Active \cup {c}
      BY <2>4 DEF Waits
    <3>2. ~IsLimited(next)
      BY <1>7, <2>4 DEF Works, Continuations, SameWork, IsLimited
    <3> QED
      BY <1>1, <1>3, <1>4, <1>6, <2>1, <3>1, <3>2
  <2>5. CASE Ends(c, call, counter + Reserved(call))
    <3>1. Active' = Active
      BY <2>2, <2>5 DEF Ends
    <3> QED
      BY <1>1, <1>3, <1>4, <1>6, <2>1, <2>2, <3>1
  <2> QED
    BY <1>7, <2>3, <2>4, <2>5, WorksCases
<1>8. ASSUME NEW c \in Calls, NEW next, IsActive(c), Works(c, calls[c], next, counter)
      PROVE  SumFunctionOnSet(Load(calls'), Limited') <= RequestCounterLimit
  <2>1. c \in Active /\ \A d \in Calls \ {c} : calls'[d] = calls[d]
    BY <1>8, WorksCases DEF Active
  <2>2. CASE Waits(c, next, counter)
    <3>1. calls'[c] = next /\ Active' = Active /\ Reserved(next) = Reserved(calls[c])
      BY <1>8, <2>1, <2>2, WorksCases DEF Waits
    <3>2. IsLimited(next) => IsLimited(calls[c])
      BY <1>8 DEF Works, Continuations, SameWork, IsLimited
    <3> QED
      BY <1>1, <1>3, <1>4, <1>6, <2>1, <3>1, <3>2
  <2>3. CASE Ends(c, calls[c], counter)
    <3>1. Active' = Active \ {c}
      BY <2>3 DEF Ends
    <3> QED
      BY <1>1, <1>3, <1>4, <1>6, <2>1, <3>1
  <2> QED
    BY <1>8, <2>2, <2>3, WorksCases
<1>9. CASE UNCHANGED <<calls, counter>>
  <2>1. Active' = Active
    BY <1>9 DEF Active, IsActive
  <2> QED
    BY <1>3, <1>4, <1>6, <1>9, <2>1
<1>10. CASE Upgrade
  <2>1. Active' = {}
    BY <1>10 DEF Upgrade, Active, IsActive
  <2> QED
    BY <1>3, <1>6, <2>1
<1> QED
  BY <1>7, <1>8, <1>9, <1>10, CallSteps

(* The calls that are subject to the rate limit keep to it between them,   *)
(* whatever the others add to the counter (rate_limiting.rs).              *)
THEOREM LimitHolds == Spec => []LimitedLoadBounded
<1>1. Init => LimitedLoadBounded
  <2> SUFFICES ASSUME Init PROVE LimitedLoadBounded
    OBVIOUS
  <2>1. Limited = {}
    BY LimitedCalls DEF Init, Active, IsActive, Idle
  <2>2. ReservedBy(Limited) = SumFunctionOnSet(Load(calls), Limited)
    BY <2>1, FS_EmptySet, LoadIsReserved DEF ReservedBy
  <2> QED
    BY <2>1, <2>2, SumEmpty, LimitsAssumption DEF LimitedLoadBounded
<1> QED
  BY <1>1, LimitStep, TypeCorrect, SoundCallsInvariant, CounterInvariant, PTL DEF Spec

-----------------------------------------------------------------------------
(* The minute fetched *)

LEMMA BeginsInItsMinute ==
    ASSUME NEW c, NEW call, Begins(c, call), call.need > 0,
           call.caller \in OrdinaryCallers, call.request.timestamp = NoTimestamp
    PROVE  call.timestamp = Minute(Minus(now, 30))
<1> DEFINE handled == Handled(call.request)
<1>1. handled.timestamp = NoTimestamp
  BY HandledIsAsPrivileged DEF Begins, Call
<1>2. Validation(call.caller, handled, call.timestamp, call.need) = "Ok"
  BY DEF Begins, LookedValidation
<1>3. call.caller \notin PrivilegedCallers
  BY CallersAssumption
<1>4. call.timestamp = RequestedTimestamp(handled)
  BY DEF Begins
<1> HIDE DEF handled
<1>5. OrdinaryValidation(handled, call.timestamp, call.need) = "Ok"
  BY <1>2, <1>3 DEF Validation
<1>6. ~IsMovedToPast(handled)
  BY <1>5 DEF OrdinaryValidation
<1> QED
  BY <1>1, <1>4, <1>6 DEF RequestedTimestamp, NormalizedTimestamp

(* An ordinary call for the current rate fetches the minute it came in,    *)
(* whichever of the minutes around it others are fetching at that moment   *)
(* (api.rs, get_normalized_timestamp, PastTimestampNotCached).             *)
THEOREM CurrentMinuteFetched == Spec => OnlyCurrentMinuteFetched
<1> DEFINE Fetched(d) ==
             ~IsActive(d) /\ IsActive(d)' /\ calls'[d].caller \in OrdinaryCallers
               /\ calls'[d].request.timestamp = NoTimestamp
             => calls'[d].timestamp = Minute(Minus(now, 30))
<1>1. TypeOK /\ SoundCalls /\ [Next]_vars => \A d \in Calls : Fetched(d)
  <2> SUFFICES ASSUME TypeOK, SoundCalls, [Next]_vars, NEW d \in Calls,
                      ~IsActive(d), IsActive(d)', calls'[d].caller \in OrdinaryCallers,
                      calls'[d].request.timestamp = NoTimestamp
               PROVE  calls'[d].timestamp = Minute(Minus(now, 30))
    OBVIOUS
  <2>1. ASSUME NEW c \in Calls, NEW call, NEW next, Begins(c, call),
               Works(c, call, next, counter + Reserved(call))
        PROVE  calls'[d].timestamp = Minute(Minus(now, 30))
    <3>1. d = c
      BY <2>1, WorksCases DEF IsActive
    <3>2. calls'[d] = next
      BY <2>1, <3>1, WorksCases DEF Waits, Ends, Active
    <3>3. SameWork(call, next) /\ call.need > 0
      BY <2>1 DEF Works, Continuations, SoundCall
    <3>4. call.timestamp = Minute(Minus(now, 30))
      BY <2>1, <3>2, <3>3, BeginsInItsMinute DEF SameWork
    <3> QED
      BY <3>2, <3>3, <3>4 DEF SameWork
  <2>2. ASSUME NEW c \in Calls, NEW next, IsActive(c), Works(c, calls[c], next, counter)
        PROVE  FALSE
    <3>1. d # c
      BY <2>2
    <3> QED
      BY <2>2, <3>1, WorksCases DEF IsActive
  <2>3. CASE UNCHANGED <<calls, counter>>
    BY <2>3 DEF IsActive
  <2>4. CASE Upgrade
    BY <2>4 DEF Upgrade, IsActive
  <2> QED
    BY <2>1, <2>2, <2>3, <2>4, CallSteps
<1>2. TypeOK /\ SoundCalls /\ [Next]_vars =>
          [\A c \in Calls :
              ~IsActive(c) /\ IsActive(c)' /\ calls'[c].caller \in OrdinaryCallers
                /\ calls'[c].request.timestamp = NoTimestamp
              => calls'[c].timestamp = Minute(Minus(now, 30))]_vars
  BY <1>1
<1> QED
  BY <1>2, TypeCorrect, SoundCallsInvariant, PTL DEF Spec, OnlyCurrentMinuteFetched

-----------------------------------------------------------------------------
(* The answers *)

(* What the two properties of an answer say of its parts. *)
RightSide(request, result) ==
    /\ result = "CryptoBaseAssetNotFound" => request.base.class = Crypto
    /\ result = "CryptoQuoteAssetNotFound" => request.quote.class = Crypto
    /\ result = "ForexBaseAssetNotFound" => request.base.class = Fiat
    /\ result = "ForexQuoteAssetNotFound" => request.quote.class = Fiat
    /\ result = "BaseAssetInvalidSymbol" => request.base.symbol = ""
    /\ result = "QuoteAssetInvalidSymbol" => request.quote.symbol = ""

FairFee(caller, request, need, fee, result) ==
    caller \in OrdinaryCallers =>
        /\ fee <= XRC_REQUEST_CYCLES_COST
        /\ result \in Refusals =>
              fee = IF IsFiatPair(request) /\ result \in InvalidRequest
                    THEN 0 ELSE XRC_MINIMUM_FEE_COST
        /\ result \notin Refusals \cup {"NotEnoughCycles"} /\ need > 0 =>
              fee >= XRC_BASE_CYCLES_COST + XRC_OUTBOUND_HTTP_CALL_CYCLES_COST

GoodReply ==
    reply # NoReply =>
        /\ RightSide(reply.request, reply.result)
        /\ FairFee(reply.caller, reply.request, reply.need, reply.fee, reply.result)

LEMMA GoodReplies == GoodReply => ErrorsNameTheRightSide /\ FeeMatchesWork
BY DEF GoodReply, RightSide, FairFee, ErrorsNameTheRightSide, FeeMatchesWork

LEMMA Replied ==
    ASSUME NEW caller, NEW request, NEW need, NEW fee, NEW result,
           reply' = Reply(caller, request, need, fee, result),
           RightSide(request, result), FairFee(caller, request, need, fee, result)
    PROVE  GoodReply'
<1> DEFINE answer == Reply(caller, request, need, fee, result)
<1>1. /\ answer.request = request /\ answer.result = result
      /\ answer.caller = caller /\ answer.need = need /\ answer.fee = fee
  BY DEF Reply
<1> HIDE DEF answer
<1>2. reply' = answer
  BY DEF answer
<1> QED
  BY <1>1, <1>2 DEF GoodReply, RightSide, FairFee

(* What each amount is charged for. *)
LEMMA FairRefusal ==
    ASSUME NEW caller, NEW request, NEW need, NEW fee, NEW result \in Refusals,
           fee = IF IsFiatPair(request) /\ result \in InvalidRequest
                 THEN 0 ELSE Fee(caller, FALSE, need)
    PROVE  FairFee(caller, request, need, fee, result)
BY CallersAssumption, SMT DEF FairFee, Fee, XRC_REQUEST_CYCLES_COST, XRC_MINIMUM_FEE_COST

LEMMA FairRate ==
    ASSUME NEW caller, NEW request, NEW need \in 0..3, NEW result, result \notin Refusals
    PROVE  FairFee(caller, request, need, Fee(caller, TRUE, need), result)
<1>1. caller \in OrdinaryCallers =>
        /\ Fee(caller, TRUE, need) <= XRC_REQUEST_CYCLES_COST
        /\ need > 0 =>
              Fee(caller, TRUE, need) >= XRC_BASE_CYCLES_COST + XRC_OUTBOUND_HTTP_CALL_CYCLES_COST
  BY CallersAssumption, SMT
     DEF Fee, XRC_REQUEST_CYCLES_COST, XRC_BASE_CYCLES_COST, XRC_OUTBOUND_HTTP_CALL_CYCLES_COST
<1>2. QED
  BY <1>1, Zenon DEF FairFee

(* How a result is reported, case by case. *)
LEMMA ReportedCases ==
    ASSUME NEW request, NEW r
    PROVE  /\ IsFiatCryptoPair(request) =>
                 /\ r = "CryptoBaseAssetNotFound" =>
                       Reported(request, r) = "CryptoQuoteAssetNotFound"
                 /\ r = "ForexQuoteAssetNotFound" =>
                       Reported(request, r) = "ForexBaseAssetNotFound"
                 /\ r = "BaseAssetInvalidSymbol" =>
                       Reported(request, r) = "QuoteAssetInvalidSymbol"
                 /\ r = "QuoteAssetInvalidSymbol" =>
                       Reported(request, r) = "BaseAssetInvalidSymbol"
                 /\ r \notin {"CryptoBaseAssetNotFound", "ForexQuoteAssetNotFound",
                              "BaseAssetInvalidSymbol", "QuoteAssetInvalidSymbol"} =>
                       Reported(request, r) = r
           /\ ~IsFiatCryptoPair(request) =>
                 Reported(request, r) =
                     IF request.quote.class = Fiat /\ request.base.class = Crypto
                        /\ r = "ForexBaseAssetNotFound"
                     THEN "ForexQuoteAssetNotFound" ELSE r
BY DEF Reported

(* What a handler that fetches may end with names the right side of the    *)
(* request once it is reported, and is no refusal.                         *)
LEMMA FetchedRightSide ==
    ASSUME NEW call \in Call, SoundCall(call), NEW r \in FetchResults(call)
    PROVE  /\ RightSide(call.request, Reported(call.request, r))
           /\ Reported(call.request, r) \notin Refusals
<1> DEFINE request == call.request
<1>1. /\ request.base.class \in {Crypto, Fiat} /\ request.quote.class \in {Crypto, Fiat}
      /\ ~ (request.base.class = Fiat /\ request.quote.class = Fiat)
  BY DEF Call, Request, Asset, SoundCall, IsFiatPair
<1>2. r = "CryptoQuoteAssetNotFound" => request.base.class = Crypto /\ request.quote.class = Crypto
  BY DEF SoundCall, FetchResults, FetchesQuote, IsCryptoPair, ComposedResults
<1>3. r \in ComposedResults \cup {"CryptoBaseAssetNotFound", "CryptoQuoteAssetNotFound",
          "StablecoinRateTooFewRates", "StablecoinRateZeroRate", "Trapped"}
  BY DEF FetchResults
<1>4. SUFFICES /\ RightSide(request, Reported(request, r))
               /\ Reported(request, r) \notin Refusals
  OBVIOUS
<1> HIDE DEF request
<1>5. CASE IsFiatCryptoPair(request)
  <2>1. Reported(request, r) = IF r = "CryptoBaseAssetNotFound" THEN "CryptoQuoteAssetNotFound"
                               ELSE r
    BY <1>3, <1>5, ReportedCases DEF ComposedResults
  <2>2. request.quote.class = Crypto
    BY <1>5 DEF IsFiatCryptoPair
  <2> QED
    BY <1>2, <1>3, <1>5, <2>1, <2>2
       DEF RightSide, Refusals, InvalidRequest, NotInForexStore, ComposedResults,
           IsFiatCryptoPair, Crypto, Fiat
<1>6. CASE ~IsFiatCryptoPair(request)
  <2>1. Reported(request, r) = r
    BY <1>3, <1>6, ReportedCases DEF ComposedResults
  <2>2. request.base.class = Crypto
    BY <1>1, <1>6 DEF IsFiatCryptoPair
  <2> QED
    BY <1>1, <1>2, <1>3, <2>1, <2>2
       DEF RightSide, Refusals, InvalidRequest, NotInForexStore, ComposedResults, Crypto, Fiat
<1> QED
  BY <1>5, <1>6

LEMMA WorksAnswersWell ==
    ASSUME NEW c, NEW call, NEW next, NEW reserved, Works(c, call, next, reserved)
    PROVE  GoodReply'
<1>1. PICK held : Proceed(c, next, held, reserved)
  BY DEF Works
<1>2. CASE next.phase # "returned"
  BY <1>1, <1>2 DEF Proceed, GoodReply
<1>3. CASE next.phase = "returned"
  <2>1. /\ reply' = Reply(call.caller, call.request, call.need, call.fee, next.result)
        /\ next.result \in {Reported(call.request, r) : r \in FetchResults(call)}
    BY <1>1, <1>3 DEF Proceed, Works, Continuations, SameWork
  <2>2. /\ RightSide(call.request, next.result) /\ next.result \notin Refusals
        /\ call.need \in 0..3 /\ call.fee = Fee(call.caller, TRUE, call.need)
    BY <2>1, FetchedRightSide DEF Works, SoundCall, Call
  <2> QED
    <3>1. FairFee(call.caller, call.request, call.need, call.fee, next.result)
      BY <2>2, FairRate
    <3> QED
      BY <2>1, <2>2, <3>1, Replied
<1> QED
  BY <1>2, <1>3

LEMMA RefusedWell ==
    ASSUME NEW caller, NEW raw, NEW cycles, Refuse(caller, raw, cycles)
    PROVE  GoodReply'
<1>1. PICK result \in {"AnonymousPrincipalNotAllowed", "NotEnoughCycles"} :
         reply' = Reply(caller, raw, 0, 0, result)
  BY DEF Refuse, Answer
<1>2. RightSide(raw, result)
  BY DEF RightSide
<1>3. FairFee(caller, raw, 0, 0, result)
  BY SMT DEF FairFee, Refusals, InvalidRequest, NotInForexStore,
             XRC_REQUEST_CYCLES_COST, XRC_MINIMUM_FEE_COST
<1> QED
  BY <1>1, <1>2, <1>3, Replied

(* A request is refused for a symbol of its own. *)
LEMMA ValidationRightSide ==
    ASSUME NEW caller, NEW request, NEW timestamp, NEW need
    PROVE  LET v == Validation(caller, request, timestamp, need)
           IN  v # "Ok" => /\ v \in InvalidRequest /\ v \in Refusals /\ RightSide(request, v)
                           /\ v \notin {"CryptoBaseAssetNotFound", "CryptoQuoteAssetNotFound",
                                        "ForexBaseAssetNotFound", "ForexQuoteAssetNotFound"}
BY DEF Validation, OrdinaryValidation, Refusals, InvalidRequest, NotInForexStore, RightSide

LEMMA FiatPairAnsweredWell ==
    ASSUME NEW caller, NEW raw, NEW cycles, AnswerFiatPair(caller, raw, cycles)
    PROVE  GoodReply'
<1> DEFINE request == Sanitized(raw)
           validation == Validation(caller, request, RequestedTimestamp(request), 0)
<1>1. CASE IsFiatPair(request) /\ validation # "Ok" /\ Answer(caller, request, 0, 0, validation)
  <2>1. RightSide(request, validation) /\ FairFee(caller, request, 0, 0, validation)
    BY <1>1, ValidationRightSide, FairRefusal
  <2> QED
    BY <1>1, <2>1, Replied DEF Answer
<1>2. ASSUME IsFiatPair(request), NEW result \in FiatPairForexResults \cup ComposedResults,
             Answer(caller, request, 0, Fee(caller, result = "Ok", 0), result)
      PROVE  GoodReply'
  <2> HIDE DEF request
  <2>1. RightSide(request, result)
    BY <1>2 DEF RightSide, IsFiatPair, FiatPairForexResults, ForexResults, ComposedResults
  <2>2. FairFee(caller, request, 0, Fee(caller, result = "Ok", 0), result)
    BY <1>2, CallersAssumption, SMT
       DEF FairFee, Fee, Refusals, InvalidRequest, NotInForexStore, FiatPairForexResults,
           ForexResults, ComposedResults, XRC_REQUEST_CYCLES_COST,
           XRC_BASE_CYCLES_COST, XRC_OUTBOUND_HTTP_CALL_CYCLES_COST, XRC_MINIMUM_FEE_COST
  <2> QED
    BY <1>2, <2>1, <2>2, Replied DEF Answer
<1> QED
  BY <1>1, <1>2 DEF AnswerFiatPair

(* What the handler refuses names the right side of the request it was     *)
(* made from.                                                              *)
LEMMA RefusalRightSide ==
    ASSUME NEW request \in Request(Symbols), ~IsFiatPair(request), NEW error,
           \/ /\ error \in Refusals /\ RightSide(Handled(request), error)
              /\ error \notin {"CryptoBaseAssetNotFound", "CryptoQuoteAssetNotFound",
                               "ForexBaseAssetNotFound", "ForexQuoteAssetNotFound"}
           \/ error = "ForexInvalidTimestamp"
           \/ error = "ForexBaseAssetNotFound" /\ ~IsCryptoPair(request)
    PROVE  /\ RightSide(request, Reported(request, error))
           /\ Reported(request, error) \in Refusals
<1>1. /\ request.base.class \in {Crypto, Fiat} /\ request.quote.class \in {Crypto, Fiat}
      /\ ~ (request.base.class = Fiat /\ request.quote.class = Fiat)
  BY DEF Request, Asset, IsFiatPair
<1>2. error \in {"FutureTimestamp", "BaseAssetInvalidSymbol", "QuoteAssetInvalidSymbol",
                  "RateLimited", "Pending", "ForexInvalidTimestamp", "ForexAssetsNotFound",
                  "ForexBaseAssetNotFound"}
  BY DEF Refusals, InvalidRequest, NotInForexStore
<1>3. CASE IsFiatCryptoPair(request)
  <2>1. Handled(request).base = request.quote /\ Handled(request).quote = request.base
    BY <1>3 DEF Handled, Request
  <2>2. request.base.class = Fiat
    BY <1>3 DEF IsFiatCryptoPair
  <2>3. Reported(request, error) =
            IF error = "BaseAssetInvalidSymbol" THEN "QuoteAssetInvalidSymbol"
            ELSE IF error = "QuoteAssetInvalidSymbol" THEN "BaseAssetInvalidSymbol" ELSE error
    BY <1>2, <1>3, ReportedCases
  <2> QED
    BY <1>2, <2>1, <2>2, <2>3 DEF RightSide, Refusals, InvalidRequest, NotInForexStore
<1>4. CASE ~IsFiatCryptoPair(request)
  <2>1. Handled(request) = request
    BY <1>4 DEF Handled
  <2>2. request.base.class = Crypto
    BY <1>1, <1>4 DEF IsFiatCryptoPair
  <2>3. error = "ForexBaseAssetNotFound" => request.quote.class = Fiat
    BY <1>1, <2>2 DEF IsCryptoPair, Crypto, Fiat
  <2>4. Reported(request, error) =
            IF error = "ForexBaseAssetNotFound" THEN "ForexQuoteAssetNotFound" ELSE error
    BY <1>4, <2>2, <2>3, ReportedCases
  <2> QED
    BY <1>2, <2>1, <2>3, <2>4 DEF RightSide, Refusals, InvalidRequest, NotInForexStore
<1> QED
  BY <1>3, <1>4

LEMMA RejectedWell ==
    ASSUME TypeOK, NEW caller, NEW raw \in Requests, NEW cycles,
           RejectInvalid(caller, raw, cycles)
    PROVE  GoodReply'
<1> DEFINE call == Looked(caller, Sanitized(raw))
<1>1. /\ call.request = Sanitized(raw) /\ call.request \in Request(Symbols)
      /\ ~IsFiatPair(call.request)
      /\ IsCryptoPair(call.request) <=> IsCryptoPair(raw)
  <2>1. IsCryptoPair(Sanitized(raw)) <=> IsCryptoPair(raw)
    BY RequestsAssumption DEF Sanitized, SanitizedAsset, IsCryptoPair, Request, Asset
  <2> QED
    BY <2>1, LookedFields, SanitizedType DEF RejectInvalid
<1>2. PICK forex \in ForexResultsFor(raw) :
         LET error == IF LookedValidation(call) # "Ok" THEN LookedValidation(call) ELSE forex
         IN  /\ error # "Ok"
             /\ reply' = Reply(caller, call.request, call.need, Fee(caller, FALSE, call.need),
                               Reported(call.request, error))
  BY DEF RejectInvalid, Answer
<1> HIDE DEF call
<1> DEFINE error == IF LookedValidation(call) # "Ok" THEN LookedValidation(call) ELSE forex
<1>3. \/ /\ error \in Refusals /\ RightSide(Handled(call.request), error)
         /\ error \notin {"CryptoBaseAssetNotFound", "CryptoQuoteAssetNotFound",
                          "ForexBaseAssetNotFound", "ForexQuoteAssetNotFound"}
      \/ error = "ForexInvalidTimestamp"
      \/ error = "ForexBaseAssetNotFound" /\ ~IsCryptoPair(call.request)
  <2>1. CASE LookedValidation(call) # "Ok"
    BY <2>1, ValidationRightSide DEF LookedValidation
  <2>2. CASE LookedValidation(call) = "Ok"
    BY <1>1, <1>2, <2>2 DEF ForexResultsFor, ForexResults
  <2> QED
    BY <2>1, <2>2
<1>4. reply' = Reply(caller, call.request, call.need, Fee(caller, FALSE, call.need),
                     Reported(call.request, error))
  BY <1>2
<1> HIDE DEF error
<1> QED
  BY <1>1, <1>3, <1>4, RefusalRightSide, FairRefusal, Replied

LEMMA AnsweredFromCacheWell ==
    ASSUME TypeOK, NEW caller \in Callers \cup {Anonymous}, NEW raw \in Requests, NEW cycles,
           AnswerFromCache(caller, raw, cycles)
    PROVE  GoodReply'
<1> DEFINE call == Looked(caller, Sanitized(raw))
<1>1. call.request \in Request(Symbols) /\ ~IsFiatPair(call.request)
  BY LookedFields, SanitizedType DEF AnswerFromCache
<1> HIDE DEF call
<1>2. PICK combined \in Combine(call) :
         reply' = Reply(caller, call.request, 0, Fee(caller, TRUE, 0), combined.result)
  BY DEF AnswerFromCache, Answer, call
<1>3. combined.result \in {Reported(call.request, r) :
          r \in ComposedResults \cup {"StablecoinRateTooFewRates", "StablecoinRateZeroRate"}}
  <2>1. call \in Call
    BY AdmittedCallers, SanitizedType, LookedType DEF AnswerFromCache, TypeOK, call
  <2>2. \A r : [call EXCEPT !.phase = "returned", !.result = r].result = r
    BY <2>1 DEF Call
  <2> QED
    BY <1>2, <2>2 DEF Combine, Returned, StablecoinResults
<1>4. /\ RightSide(call.request, combined.result)
      /\ combined.result \notin Refusals
  <2>1. PICK r \in ComposedResults \cup {"StablecoinRateTooFewRates", "StablecoinRateZeroRate"} :
           combined.result = Reported(call.request, r)
    BY <1>3
  <2>2. Reported(call.request, r) = r
    BY ReportedCases, SMT DEF ComposedResults
  <2> QED
    BY <2>1, <2>2 DEF RightSide, Refusals, InvalidRequest, NotInForexStore, ComposedResults
<1> QED
  <2>1. FairFee(caller, call.request, 0, Fee(caller, TRUE, 0), combined.result)
    <3>1. 0 \in 0..3 /\ combined.result \notin Refusals
      BY <1>4
    <3> QED
      BY <3>1, FairRate
  <2> QED
    BY <1>2, <1>4, <2>1, Replied

LEMMA GoodReplyStep == TypeOK /\ SoundCalls /\ GoodReply /\ [Next]_vars => GoodReply'
<1> SUFFICES ASSUME TypeOK, SoundCalls, GoodReply, [Next]_vars PROVE GoodReply'
  OBVIOUS
<1>1. ASSUME NEW c \in Calls, Starts(c) \/ Resumes(c) PROVE GoodReply'
  BY <1>1, CallWorks, WorksAnswersWell
<1>2. CASE Arrival
  <2>1. PICK caller \in Callers \cup {Anonymous}, raw \in Requests, cycles \in CyclesAttached :
           \/ Refuse(caller, raw, cycles)
           \/ AnswerFiatPair(caller, raw, cycles)
           \/ RejectInvalid(caller, raw, cycles)
           \/ AnswerFromCache(caller, raw, cycles)
           \/ \E c \in Calls : StartFetching(c, caller, raw, cycles)
    BY <1>2 DEF Arrival
  <2> QED
    BY <1>1, <2>1, StartFetchingStep, RefusedWell, FiatPairAnsweredWell, RejectedWell,
       AnsweredFromCacheWell
<1>3. ASSUME NEW c \in Calls, Response(c) \/ Trap(c) PROVE GoodReply'
  BY <1>1, <1>3, StablecoinResponseStep, BaseResponseStep, QuoteResponseStep, TrapStep
     DEF Response
<1>4. CASE Upgrade \/ Tick
  BY <1>4 DEF Upgrade, Tick, GoodReply
<1>5. CASE UNCHANGED vars
  BY <1>5 DEF vars, GoodReply, RightSide, FairFee
<1> QED
  BY <1>2, <1>3, <1>4, <1>5 DEF Next

LEMMA GoodReplyInvariant == Spec => []GoodReply
<1>1. Init => GoodReply
  BY DEF Init, GoodReply
<1> QED
  BY <1>1, GoodReplyStep, TypeCorrect, SoundCallsInvariant, PTL DEF Spec

(* An error a caller gets is about its own request, whether the handler    *)
(* worked on that or on its inverse (api.rs, invert_exchange_rate_error).  *)
THEOREM ErrorsAreAboutTheRequest == Spec => []ErrorsNameTheRightSide
BY GoodReplyInvariant, GoodReplies, PTL

(* Who gets a rate or an error of the exchanges has paid for the fetching, *)
(* who is refused the minimum fee or, with an invalid fiat pair, nothing,  *)
(* and nobody more than was attached (api.rs, charge_cycles;               *)
(* environment.rs).                                                        *)
THEOREM FeesAreFair == Spec => []FeeMatchesWork
BY GoodReplyInvariant, GoodReplies, PTL

=============================================================================
