---------------------------- MODULE RateLimiter ----------------------------
(***************************************************************************)
(* The fixed-window request limiter of runeclaw_okx/http_transport.py      *)
(* (class RateLimiter).                                                    *)
(*                                                                         *)
(* Time is counted in ticks; TicksPerSecond ticks make a second, so that   *)
(* the truncation int(...) in the Retry-After computation is visible.      *)
(* One action stands for one call of check: the method has no await and    *)
(* asyncio runs it to the end.                                             *)
(*                                                                         *)
(* "admits" and "refused" are history variables: what the callers of each  *)
(* key were told.  The code does not keep them; the promises of the        *)
(* limiter are stated over them.                                           *)
(***************************************************************************)
EXTENDS Integers, Sequences, SequencesExt

CONSTANTS
    Keys,            \* the limiter keys (bearer tokens)
    LimitArg,        \* the limit handed to the constructor, possibly 0 or less
    Window,          \* the length of the window, in ticks
    TicksPerSecond,  \* the resolution of the clock
    MaxTime          \* bound of the model: the clock stops here

ASSUME LimitArgAssumption == LimitArg \in Int
ASSUME WindowAssumption   == Window \in Nat \ {0}
ASSUME TicksAssumption    == TicksPerSecond \in Nat \ {0}
ASSUME MaxTimeAssumption  == MaxTime \in Nat

VARIABLES
    now,      \* the monotonic clock
    state,    \* self._state: key -> [start, count], absent until first used
    admits,   \* history: key -> the times at which a request was admitted
    refused   \* history: key -> the latest refusals, at most one

limiterVars == <<state, admits, refused>>
vars == <<now, limiterVars>>

-----------------------------------------------------------------------------
Limit == IF LimitArg > 1 THEN LimitArg ELSE 1

(* state.get(key, (now, 0)) *)
Entry(k) == IF k \in DOMAIN state THEN state[k] ELSE [start |-> now, count |-> 0]

(* Mutants of Current: the reset one tick early, and no reset at all. *)
CurrentResetEarly(k) ==
    IF now - Entry(k).start >= Window - 1 THEN [start |-> now, count |-> 0] ELSE Entry(k)
CurrentNoReset(k) == Entry(k)

(* The entry after the reset of an elapsed window. *)
Current(k) ==
    IF now - Entry(k).start >= Window THEN [start |-> now, count |-> 0] ELSE Entry(k)

(* Mutant of Exhausted: one hit too many. *)
ExhaustedOffByOne(k) == Current(k).count > Limit

Exhausted(k) == Current(k).count >= Limit

(* Mutants of RetryAfter: the rest rounded down; a whole window every time. *)
RetryAfterTruncated(k) == (Window - (now - Current(k).start)) \div TicksPerSecond
RetryAfterWholeWindow(k) == Window \div TicksPerSecond + 1

(* The Retry-After value, in seconds.  Part of the window is still ahead   *)
(* at a refusal, so the max(1, _) around it in the code never decides.     *)
RetryAfter(k) == (Window - (now - Current(k).start)) \div TicksPerSecond + 1

-----------------------------------------------------------------------------
Init ==
    /\ now = 0
    /\ state = [k \in {} |-> [start |-> 0, count |-> 0]]
    /\ admits = [k \in Keys |-> <<>>]
    /\ refused = [k \in Keys |-> {}]

Admit(k) ==
    /\ ~ Exhausted(k)
    /\ state' = [j \in DOMAIN state \union {k} |->
                    IF j = k THEN [Current(k) EXCEPT !.count = @ + 1] ELSE state[j]]
    /\ admits' = [admits EXCEPT ![k] = Append(@, now)]
    /\ UNCHANGED <<now, refused>>

Refuse(k) ==
    /\ Exhausted(k)
    /\ refused' = [refused EXCEPT ![k] =
                    {[at    |-> now,
                      until |-> now + RetryAfter(k) * TicksPerSecond,
                      seen  |-> Len(admits[k])]}]
    /\ UNCHANGED <<now, state, admits>>

Check(k) == Admit(k) \/ Refuse(k)

Tick ==
    /\ now < MaxTime
    /\ now' = now + 1
    /\ UNCHANGED limiterVars

(* A new process builds a new limiter; what the old one knew is gone. *)
Restart ==
    /\ state' = [k \in {} |-> [start |-> 0, count |-> 0]]
    /\ admits' = [k \in Keys |-> <<>>]
    /\ refused' = [k \in Keys |-> {}]
    /\ UNCHANGED now

Next == Tick \/ Restart \/ \E k \in Keys : Check(k)

Spec == Init /\ [][Next]_vars

-----------------------------------------------------------------------------
(* Every variable has its type; a window holds between one and Limit hits. *)
(* (RateLimiter._state)                                                    *)
TypeOK ==
    /\ now \in Nat
    /\ DOMAIN state \subseteq Keys
    /\ \A k \in DOMAIN state : state[k] \in [start : Nat, count : 1..Limit]
    /\ admits \in [Keys -> Seq(Nat)]
    /\ refused \in [Keys -> SUBSET [at : Nat, until : Nat, seen : Nat]]

(* In any period of Window ticks, wherever it starts, a key is admitted at *)
(* most 2 * Limit - 1 times: a window opens at its own first admission, so *)
(* 2 * Limit admissions never fit between two window openings.  (The      *)
(* reset in RateLimiter.check)                                             *)
SlidingBound ==
    \A k \in Keys : \A i \in 1..Len(admits[k]) :
        i + 2 * Limit - 1 <= Len(admits[k]) =>
            admits[k][i + 2 * Limit - 1] - admits[k][i] >= Window

(* A key is refused only for its own sake: at the time of a refusal it had *)
(* itself been admitted Limit times within the last Window ticks, so other *)
(* keys, and its own refused attempts, never cost it a request.            *)
NoFalseRefusal ==
    \A k \in Keys : \A r \in refused[k] :
        /\ r.seen >= Limit
        /\ r.seen <= Len(admits[k])
        /\ r.at - admits[k][r.seen - Limit + 1] < Window

(* A caller that waits as long as Retry-After told it is admitted, unless  *)
(* someone with the same key was admitted in between.  (The + 1 after the  *)
(* truncation in RateLimiter.check)                                        *)
RetryHonoured ==
    \A k \in Keys : \A r \in refused[k] :
        now >= r.until /\ Len(admits[k]) = r.seen => ~ Exhausted(k)

(* The time Retry-After names is the first whole second, counted from the  *)
(* refusal, that lies strictly after the end of the window which the       *)
(* Limit-th last admission opened: never before that end, a whole second   *)
(* after it only if what was left was a whole number of seconds (a caller  *)
(* that is refused with 60.0 seconds to go is told 61 and would have been  *)
(* let in at 60), and never further.  (int() and + 1 in RateLimiter.check) *)
RetryNextSecond ==
    \A k \in Keys : \A r \in refused[k] :
        LET end == admits[k][r.seen - Limit + 1] + Window
        IN  end < r.until /\ r.until - TicksPerSecond <= end

=============================================================================
