------------------------------- MODULE Monitor -------------------------------
(***************************************************************************)
(* The monitor canister (src/monitor-canister/) as a caller of the         *)
(* exchange rate canister: it asks for the rates of some pairs every few   *)
(* minutes and keeps the answers in a log in stable memory, which readers  *)
(* get page by page.  The exchange rate canister is reduced to what it     *)
(* records of its requests (get_exchange_rate in api.rs).                  *)
(*                                                                         *)
(* Each canister runs one message at a time; an action is what it does in  *)
(* one message.  A message that traps changes nothing, except that the     *)
(* future it was to continue is dropped.                                   *)
(***************************************************************************)
EXTENDS Telemetry

CONSTANTS
    MonitoredPairs,     \* the pairs of make_get_exchange_rate_requests
    Heartbeats,         \* slots for the heartbeats whose future is not done
    Others,             \* other callers, one request at a time each
    PrivilegedCallers,
    Results,            \* answers to requests: "Rate" or an error
    MAX_PRIVILEGED_REQUEST_LOG_ENTRIES,
    MAX_NONPRIVILEGED_REQUEST_LOG_ENTRIES,
    SizeOf,             \* result -> the size of an entry in the log
    LogCapacity,        \* the room for entries
    USIZE,              \* the number of values of the type usize
    Limits,             \* the page sizes readers ask for
    Moments,            \* the times of messages
    MaxOtherRequests, MaxTraps, MaxUpgrades     \* bounds for TLC

ONE_MINUTE_SECONDS == 60
DEFAULT_LIMIT == 100
NoLimit == -1

Callers == Heartbeats \cup Others

(* It is past the first minute of 1970, the pairs are different, and the   *)
(* log is kept in fewer bytes than a usize counts (NUM_WASM_PAGES).        *)
ASSUME MonitorAssumption ==
    /\ Moments \subseteq {t \in Nat : t >= ONE_MINUTE_SECONDS} /\ Moments # {}
    /\ MonitoredPairs \in Seq(ToSet(MonitoredPairs)) \ {<<>>} /\ IsInjective(MonitoredPairs)
    /\ Heartbeats \cap Others = {} /\ PrivilegedCallers \subseteq Others
    /\ MAX_PRIVILEGED_REQUEST_LOG_ENTRIES \in Nat \ {0}
    /\ MAX_NONPRIVILEGED_REQUEST_LOG_ENTRIES \in Nat \ {0}
    /\ "CallError" \notin Results /\ SizeOf \in [Results \cup {"CallError"} -> Nat \ {0}]
    /\ LogCapacity \in Nat /\ USIZE \in Nat /\ LogCapacity < USIZE
    /\ Limits \subseteq Nat \cup {NoLimit}

VARIABLES
    now,            \* the time of the current message
    isCallingXrc,   \* IS_CALLING_XRC
    nextCallAt,     \* NEXT_CALL_AT_TIMESTAMP
    batches,        \* heartbeat -> its requests, see Batch
    entries,        \* the log
    pages,          \* what a reader has read, and the offset it has got to
    calls,          \* caller -> its call of the exchange rate canister
    counters, logs, \* what that canister records; the logs by being privileged
    \* For the properties:
    stuck,          \* a callback of the monitor trapped since its upgrade
    dropped,        \* by being privileged, requests whose callback trapped
    traps,
    upgrades        \* how many, of each canister

monitorVars == <<isCallingXrc, nextCallAt, batches, entries, stuck>>
xrcVars == <<counters, logs, dropped>>
vars == <<now, monitorVars, pages, calls, xrcVars, traps, upgrades>>

(* The requests of a heartbeat: when it began, and the one it waits for.   *)
NoBatch == [start |-> 0, next |-> 0]
IsSampling(h) == batches[h] # NoBatch

(* A call is on its way to the exchange rate canister, being handled, or   *)
(* on its way back.                                                        *)
NoCall == [phase |-> "none", result |-> "none"]
Sent == [phase |-> "sent", result |-> "none"]
Open == [phase |-> "open", result |-> "none"]
Answered(result) == [phase |-> "answered", result |-> result]

(* What is kept of an answer: the rates asked for are those of the minute  *)
(* before.  (`epoch' is for the properties.)                               *)
Entry(batch, result) ==
    [pair |-> MonitoredPairs[batch.next],
     timestamp |-> Before(batch.start, ONE_MINUTE_SECONDS), result |-> result,
     epoch |-> upgrades.monitor]

-----------------------------------------------------------------------------
(* The exchange rate canister *)

IsPrivileged(caller) == caller \in PrivilegedCallers

LogSize(isPrivileged) ==
    IF isPrivileged THEN MAX_PRIVILEGED_REQUEST_LOG_ENTRIES
    ELSE MAX_NONPRIVILEGED_REQUEST_LOG_ENTRIES

(* A request arrives and is handled up to the first await. *)
Arrive(caller) ==
    /\ calls' = [calls EXCEPT ![caller] = Open]
    /\ counters' = CountRequest(counters, IsPrivileged(caller))
    /\ UNCHANGED <<now, monitorVars, pages, logs, dropped, traps, upgrades>>

Receive(h) == calls[h] = Sent /\ Arrive(h)

RequestOf(caller) ==
    /\ caller \in Others /\ calls[caller] = NoCall
    /\ Count(counters, "cmc_requests") < MaxOtherRequests
    /\ Arrive(caller)

(* The monitor awaits its answers. *)
Return(caller, result) == IF caller \in Heartbeats THEN Answered(result) ELSE NoCall

ReplyTo(caller, result) ==
    LET isPrivileged == IsPrivileged(caller)
        entry == [caller |-> caller, result |-> result]
    IN  /\ calls[caller] = Open
        /\ calls' = [calls EXCEPT ![caller] = Return(caller, result)]
        /\ logs' = [logs EXCEPT ![isPrivileged] = Logged(@, entry, LogSize(isPrivileged))]
        /\ counters' = CountReply(counters, isPrivileged, result)
        /\ UNCHANGED <<now, monitorVars, pages, dropped, traps, upgrades>>

(* The code after an await traps.  The call is answered with an error, but *)
(* nothing is recorded.                                                    *)
TrapXrc(caller) ==
    /\ calls[caller] = Open /\ traps < MaxTraps
    /\ calls' = [calls EXCEPT ![caller] = Return(caller, "CallError")]
    /\ dropped' = [dropped EXCEPT ![IsPrivileged(caller)] = @ + 1]
    /\ traps' = traps + 1
    /\ UNCHANGED <<now, monitorVars, pages, counters, logs, upgrades>>

(* Once its calls have returned. *)
UpgradeXrc ==
    /\ upgrades.xrc + upgrades.monitor < MaxUpgrades /\ \A caller \in Callers : calls[caller] # Open
    /\ counters' = <<>> /\ logs' = [p \in BOOLEAN |-> <<>>]
    /\ dropped' = [p \in BOOLEAN |-> 0]
    /\ upgrades' = [upgrades EXCEPT !.xrc = @ + 1]
    /\ UNCHANGED <<now, monitorVars, pages, calls, traps>>

-----------------------------------------------------------------------------
(* The monitor *)

(* Variant: the flag is not looked at. *)
IsDueUnguarded(timestamp) == timestamp >= nextCallAt

IsDue(timestamp) == ~isCallingXrc /\ timestamp >= nextCallAt

MinuteOf(t) == (t \div ONE_MINUTE_SECONDS) * ONE_MINUTE_SECONDS

(* The slots are all the same: a heartbeat takes the first free one. *)
Free == {h \in Heartbeats : ~IsSampling(h)}

(* call_xrc up to the first await. *)
Heartbeat(h) ==
    LET timestamp == MinuteOf(now)
    IN  /\ Free # {} /\ h = (CHOOSE g \in Free : TRUE) /\ IsDue(timestamp)
        /\ isCallingXrc' = TRUE
        /\ batches' = [batches EXCEPT ![h] = [start |-> timestamp, next |-> 1]]
        /\ calls' = [calls EXCEPT ![h] = Sent]
        /\ UNCHANGED <<now, nextCallAt, entries, stuck, pages, xrcVars, traps, upgrades>>

(* The call could not be made. *)
CallFails(h) ==
    /\ calls[h] = Sent
    /\ calls' = [calls EXCEPT ![h] = Answered("CallError")]
    /\ UNCHANGED <<now, monitorVars, pages, xrcVars, traps, upgrades>>

Used == SumFunction([i \in DOMAIN entries |-> SizeOf[entries[i].result]])

(* Variant: any room left is enough. *)
AppendedIfRoomLeft(entry) == IF Used < LogCapacity THEN Append(entries, entry) ELSE entries

(* An entry there is no room for is left out. *)
Appended(entry) ==
    IF Used + SizeOf[entry.result] <= LogCapacity THEN Append(entries, entry) ELSE entries

(* The end of call_xrc, for a batch that is complete or abandoned. *)
Finish(h) ==
    /\ isCallingXrc' = FALSE
    /\ nextCallAt' = batches[h].start + 5 * ONE_MINUTE_SECONDS
    /\ batches' = [batches EXCEPT ![h] = NoBatch]
    /\ calls' = [calls EXCEPT ![h] = NoCall]

(* The answer is recorded, and the next request made. *)
Record(h) ==
    /\ calls[h].phase = "answered"
    /\ entries' = Appended(Entry(batches[h], calls[h].result))
    /\ IF batches[h].next = Len(MonitoredPairs) THEN Finish(h)
       ELSE /\ batches' = [batches EXCEPT ![h].next = @ + 1]
            /\ calls' = [calls EXCEPT ![h] = Sent]
            /\ UNCHANGED <<isCallingXrc, nextCallAt>>
    /\ UNCHANGED <<now, stuck, pages, xrcVars, traps, upgrades>>

(* Variant: a batch that is abandoned leaves the flag as it is. *)
AbandonSilently(h) ==
    /\ calls[h].phase = "answered"
    /\ batches' = [batches EXCEPT ![h] = NoBatch]
    /\ calls' = [calls EXCEPT ![h] = NoCall]
    /\ UNCHANGED <<now, isCallingXrc, nextCallAt, entries, stuck, pages, xrcVars, traps, upgrades>>

(* The entry cannot be encoded. *)
Abandon(h) ==
    /\ calls[h].phase = "answered"
    /\ Finish(h)
    /\ UNCHANGED <<now, entries, stuck, pages, xrcVars, traps, upgrades>>

TrapMonitor(h) ==
    /\ calls[h].phase = "answered" /\ traps < MaxTraps
    /\ batches' = [batches EXCEPT ![h] = NoBatch]
    /\ calls' = [calls EXCEPT ![h] = NoCall]
    /\ stuck' = TRUE /\ traps' = traps + 1
    /\ UNCHANGED <<now, isCallingXrc, nextCallAt, entries, pages, xrcVars, upgrades>>

(* Once its calls have returned.  The log is in stable memory. *)
UpgradeMonitor ==
    /\ upgrades.xrc + upgrades.monitor < MaxUpgrades /\ \A h \in Heartbeats : ~IsSampling(h)
    /\ isCallingXrc' = FALSE /\ nextCallAt' = 0 /\ stuck' = FALSE
    /\ upgrades' = [upgrades EXCEPT !.monitor = @ + 1]
    /\ UNCHANGED <<now, batches, entries, pages, calls, xrcVars, traps>>

-----------------------------------------------------------------------------
(* Readers *)

(* A limit that is no usize is the default. *)
PageSize(limit) == IF limit = NoLimit \/ limit >= USIZE THEN DEFAULT_LIMIT ELSE limit

(* Variant: the last entry of a page is the one at its end. *)
PageEndIncluded(offset, limit) == Min({offset + PageSize(limit) + 1, USIZE - 1, Len(entries)})

PageEnd(offset, limit) == Min({offset + PageSize(limit), USIZE - 1, Len(entries)})

(* get_entries for an offset that is a usize; entries are counted from 1. *)
GetEntries(offset, limit) == SubSeq(entries, offset + 1, PageEnd(offset, limit))

(* A reader takes a page and goes on where it must have ended, given its   *)
(* limit and the total in the response.                                    *)
Read(limit) ==
    /\ pages' = [read |-> pages.read \o GetEntries(pages.offset, limit),
                 offset |-> Min({pages.offset + PageSize(limit), Len(entries)})]
    /\ UNCHANGED <<now, monitorVars, calls, xrcVars, traps, upgrades>>

Tick ==
    /\ now' \in Moments /\ now' > now
    /\ UNCHANGED <<monitorVars, pages, calls, xrcVars, traps, upgrades>>

Init ==
    /\ now \in Moments
    /\ isCallingXrc = FALSE /\ nextCallAt = 0
    /\ batches = [h \in Heartbeats |-> NoBatch]
    /\ entries = <<>> /\ pages = [read |-> <<>>, offset |-> 0]
    /\ calls = [caller \in Callers |-> NoCall]
    /\ counters = <<>> /\ logs = [p \in BOOLEAN |-> <<>>]
    /\ stuck = FALSE /\ dropped = [p \in BOOLEAN |-> 0]
    /\ traps = 0 /\ upgrades = [xrc |-> 0, monitor |-> 0]

Next ==
    \/ \E h \in Heartbeats :
          Heartbeat(h) \/ CallFails(h) \/ Receive(h) \/ Record(h) \/ Abandon(h) \/ TrapMonitor(h)
    \/ \E caller \in Callers :
          RequestOf(caller) \/ TrapXrc(caller) \/ \E result \in Results : ReplyTo(caller, result)
    \/ UpgradeXrc \/ UpgradeMonitor
    \/ \E limit \in Limits : Read(limit)
    \/ Tick

Spec == Init /\ [][Next]_vars

(* The system calls the heartbeat over and over, delivers every call and   *)
(* answers it, with an error if need be.                                   *)
Fairness ==
    \A h \in Heartbeats :
        /\ WF_vars(Heartbeat(h))
        /\ WF_vars(Receive(h) \/ CallFails(h))
        /\ WF_vars(\E result \in Results : ReplyTo(h, result))
        /\ WF_vars(Record(h) \/ Abandon(h))

FairSpec == Spec /\ Fairness

=============================================================================
