-------------------------- MODULE MonitorProperties --------------------------
(***************************************************************************)
(* What the monitor's log and the records of the exchange rate canister    *)
(* are good for.                                                           *)
(***************************************************************************)
EXTENDS Monitor

Call == [phase : {"none"}, result : {"none"}] \cup [phase : {"sent", "open"}, result : {"none"}]
            \cup [phase : {"answered"}, result : Results \cup {"CallError"}]

(* Every variable has its type, a heartbeat has a call under way as long   *)
(* as it samples, and the log fits into its memory (state.rs).             *)
TypeOK ==
    /\ now \in Moments /\ isCallingXrc \in BOOLEAN /\ nextCallAt \in Nat
    /\ batches \in [Heartbeats -> [start : Nat, next : 0..Len(MonitoredPairs)]]
    /\ calls \in [Callers -> Call]
    /\ \A h \in Heartbeats : IsSampling(h) <=> calls[h] # NoCall
    /\ Used <= LogCapacity
    /\ stuck \in BOOLEAN

(* The place of a pair in a batch. *)
Position(pair) == CHOOSE i \in DOMAIN MonitoredPairs : MonitoredPairs[i] = pair

(* The log has the answers in the order of the requests, each once, and    *)
(* the batches are at least five minutes apart, whatever heartbeats come   *)
(* while a batch waits for its answers and however late they are.  After   *)
(* an upgrade a batch may follow, or repeat, the one before at once        *)
(* (periodic.rs, IS_CALLING_XRC and NEXT_CALL_AT_TIMESTAMP).               *)
LogInOrder ==
    \A i, j \in DOMAIN entries : i < j =>
        LET a == entries[i]
            b == entries[j]
        IN  IF a.epoch < b.epoch THEN a.timestamp <= b.timestamp
            ELSE /\ a.epoch = b.epoch
                 /\ \/ a.timestamp = b.timestamp /\ Position(a.pair) < Position(b.pair)
                    \/ a.timestamp + 5 * ONE_MINUTE_SECONDS <= b.timestamp

(* What a reader has collected, page by page while the log grows and       *)
(* across upgrades, is the log up to where it stopped: no entry is missing *)
(* or twice (api.rs of the monitor, get_entries).                          *)
PagesMatchLog == pages.read = SubSeq(entries, 1, pages.offset)

(* The requests of privileged callers, or of the others, that were         *)
(* answered, as the counters have it.                                      *)
Answers(isPrivileged) ==
    LET received == IF isPrivileged THEN Count(counters, "cmc_requests")
                    ELSE Count(counters, "requests") - Count(counters, "cmc_requests")
    IN  received - dropped[isPrivileged]
            - Cardinality({c \in Callers : calls[c] = Open /\ IsPrivileged(c) = isPrivileged})

ErrorsIn(log) == Cardinality({i \in DOMAIN log : log[i].result # "Rate"})

ErrorClasses == UNION {ErrorClass(result) : result \in Results}

(* The counters and the logs tell the same story, although a request is    *)
(* counted when it arrives and its answer when it leaves: what was counted *)
(* and is neither under way nor trapped is in a log, unless newer answers  *)
(* have pushed it out; and each error is counted once as an error and at   *)
(* most once by its class (api.rs, get_exchange_rate).                     *)
CountersMatchLogs ==
    /\ \A p \in BOOLEAN : Len(logs[p]) = Min({LogSize(p), Answers(p)})
    /\ LET errors == [p \in BOOLEAN |-> IF p THEN Count(counters, "cmc_errors_returned")
                                        ELSE Count(counters, "errors_returned")
                                                 - Count(counters, "cmc_errors_returned")]
       IN  \A p \in BOOLEAN :
              /\ ErrorsIn(logs[p]) <= errors[p]
              /\ errors[p] <= Answers(p) - (Len(logs[p]) - ErrorsIn(logs[p]))
    /\ LET classified == SumFunction([class \in ErrorClasses |-> Count(counters, class)])
       IN  /\ classified <= Count(counters, "errors_returned")
           /\ (\A result \in Results \ {"Rate"} : ErrorClass(result) # {}) =>
                  classified = Count(counters, "errors_returned")

(* When a batch is due one is made, sooner or later, and the one that is   *)
(* under way ends, although batches are abandoned, calls fail, entries do  *)
(* not fit and canisters are upgraded.  Only a trap after an await stops   *)
(* the sampling: no guard then clears the flag (periodic.rs of the         *)
(* monitor, call_xrc_with_encoder).                                        *)
SamplingGoesOn ==
    /\ now >= nextCallAt ~> isCallingXrc
    /\ isCallingXrc ~> stuck \/ ~isCallingXrc

=============================================================================
