------------------------------ MODULE RateLimit ------------------------------
(***************************************************************************)
(* The in-memory sliding-window limiter of the API: request goroutines share *)
(* a sync.Map of windows with a janitor goroutine.  The map, a window's       *)
(* mutex and the reading of the clock are three different critical steps.     *)
(*                                                                          *)
(* Times are ages: how long ago a timestamp was taken, capped where it can    *)
(* no longer matter.  A window is an object of its own: a request may hold    *)
(* one that the map has dropped.  Its slice is a set, since its order is      *)
(* never read; what identifies a timestamp is the number of the admission,    *)
(* among those of the key, that recorded it.                                 *)
(***************************************************************************)
EXTENDS Integers, Sequences, FiniteSets

CONSTANTS
    Keys,       \* user id or client address, with the path
    Requests,   \* request goroutines
    Windows,    \* slidingWindow objects
    Limit,
    Window,
    MaxDelay,   \* bound: how long a goroutine waits between clock and mutex
    MaxAdmitted,  \* bound: per key, no request starts after so many admissions
    NoWindow, NoKey

ASSUME RateAssumption ==
    /\ Limit \in Nat \ {0} /\ Window \in Nat \ {0} /\ MaxDelay \in Nat
    /\ MaxAdmitted \in [Keys -> Nat]
    /\ NoWindow \notin Windows /\ NoKey \notin Keys

VARIABLES
    windows,     \* the sync.Map: key -> window
    timestamps,  \* the slice of each window, as numbers of admissions of its key
    requests,    \* where each request goroutine is
    janitor,     \* the key the janitor found idle and is about to delete
    admitted,    \* for each key the admissions so far: the age of the timestamp, and
                 \* (history) whether the window that has it is out of the map (lost),
                 \* whether a later reading had the mutex before it (late)
    newest       \* (history) the age of the newest reading that had a window's mutex,
                 \* capped where no request can be older

vars == <<windows, timestamps, requests, janitor, admitted, newest>>

NoRequest == [pc |-> "idle", key |-> NoKey, window |-> NoWindow, now |-> 0]
MaxAge == Window + MaxDelay

Init ==
    /\ windows = [k \in Keys |-> NoWindow]
    /\ timestamps = [w \in Windows |-> {}]
    /\ requests = [r \in Requests |-> NoRequest]
    /\ janitor = NoKey
    /\ admitted = [k \in Keys |-> <<>>]
    /\ newest = [w \in Windows |-> MaxDelay]

InUse(w) == \/ \E k \in Keys : windows[k] = w
            \/ \E r \in Requests : requests[r].window = w

\* LoadOrStore: the window of the key, or a new one that becomes it.
LoadOrStore(r, k) ==
    /\ requests[r].pc = "idle"
    /\ Len(admitted[k]) < MaxAdmitted[k]
    /\ IF windows[k] # NoWindow
       THEN /\ requests' = [requests EXCEPT ![r] = [NoRequest EXCEPT
                              !.pc = "loaded", !.key = k, !.window = windows[k]]]
            /\ UNCHANGED <<windows, timestamps, newest>>
       ELSE \E w \in {v \in Windows : ~ InUse(v)} :
            /\ windows' = [windows EXCEPT ![k] = w]
            /\ timestamps' = [timestamps EXCEPT ![w] = {}]
            /\ newest' = [newest EXCEPT ![w] = MaxDelay]
            /\ requests' = [requests EXCEPT ![r] = [NoRequest EXCEPT
                              !.pc = "loaded", !.key = k, !.window = w]]
    /\ UNCHANGED <<janitor, admitted>>

\* allow: now := time.Now(), before the mutex is taken.
ReadClock(r) ==
    /\ requests[r].pc = "loaded"
    /\ requests' = [requests EXCEPT ![r].pc = "clock", ![r].now = 0]
    /\ UNCHANGED <<windows, timestamps, janitor, admitted, newest>>

\* Timestamps after the cutoff now - window.
Valid(r) == {i \in timestamps[requests[r].window] :
                admitted[requests[r].key][i].age < requests[r].now + Window}

Recorded(k) == Len(admitted[k]) + 1

Answered(r, pc) == requests' = [requests EXCEPT ![r].pc = pc, ![r].window = NoWindow]

Admission(r) ==
    [age |-> requests[r].now,
     lost |-> windows[requests[r].key] # requests[r].window,
     late |-> newest[requests[r].window] < requests[r].now]

\* History: the mutex goes to a request with this reading.
Locked(r) ==
    newest' = [newest EXCEPT ![requests[r].window] =
                 IF requests[r].now < @ THEN requests[r].now ELSE @]

\* Mutants: the limit is exceeded by one; expired entries still count.
AllowOneMore(r) ==
    LET w == requests[r].window
        k == requests[r].key
        valid == Valid(r)
    IN
    /\ requests[r].pc = "clock"
    /\ IF Cardinality(valid) > Limit
       THEN /\ timestamps' = [timestamps EXCEPT ![w] = valid]
            /\ Answered(r, "refused")
            /\ UNCHANGED admitted
       ELSE /\ timestamps' = [timestamps EXCEPT ![w] = valid \cup {Recorded(k)}]
            /\ admitted' = [admitted EXCEPT ![k] = Append(@, Admission(r))]
            /\ Answered(r, "admitted")
    /\ Locked(r)
    /\ UNCHANGED <<windows, janitor>>
AllowNoPrune(r) ==
    LET w == requests[r].window
        k == requests[r].key
    IN
    /\ requests[r].pc = "clock"
    /\ IF Cardinality(timestamps[w]) >= Limit
       THEN /\ Answered(r, "refused")
            /\ UNCHANGED <<timestamps, admitted>>
       ELSE /\ timestamps' = [timestamps EXCEPT ![w] = @ \cup {Recorded(k)}]
            /\ admitted' = [admitted EXCEPT ![k] = Append(@, Admission(r))]
            /\ Answered(r, "admitted")
    /\ Locked(r)
    /\ UNCHANGED <<windows, janitor>>

\* allow, under the mutex: prune, then refuse or record.
Allow(r) ==
    LET w == requests[r].window
        k == requests[r].key
        valid == Valid(r)
    IN
    /\ requests[r].pc = "clock"
    /\ IF Cardinality(valid) >= Limit
       THEN /\ timestamps' = [timestamps EXCEPT ![w] = valid]
            /\ Answered(r, "refused")
            /\ UNCHANGED admitted
       ELSE /\ timestamps' = [timestamps EXCEPT ![w] = valid \cup {Recorded(k)}]
            /\ admitted' = [admitted EXCEPT ![k] = Append(@, Admission(r))]
            /\ Answered(r, "admitted")
    /\ Locked(r)
    /\ UNCHANGED <<windows, janitor>>

Respond(r) ==
    /\ requests[r].pc \in {"admitted", "refused"}
    /\ requests' = [requests EXCEPT ![r] = NoRequest]
    /\ UNCHANGED <<windows, timestamps, janitor, admitted, newest>>

\* The janitor looks at a window under its mutex and deletes its key after it.
JanitorFindsIdle(k) ==
    /\ janitor = NoKey
    /\ windows[k] # NoWindow
    /\ timestamps[windows[k]] = {}
    /\ janitor' = k
    /\ UNCHANGED <<windows, timestamps, requests, admitted, newest>>

JanitorDeletes ==
    /\ janitor # NoKey
    /\ windows' = [windows EXCEPT ![janitor] = NoWindow]
    /\ janitor' = NoKey
    /\ admitted' = [admitted EXCEPT ![janitor] =
                      [i \in DOMAIN admitted[janitor] |->
                         [admitted[janitor][i] EXCEPT !.lost = TRUE]]]
    /\ UNCHANGED <<timestamps, requests, newest>>

Older(age) == IF age < MaxAge THEN age + 1 ELSE MaxAge

Tick ==
    /\ \A r \in Requests : requests[r].pc = "clock" => requests[r].now < MaxDelay
    /\ admitted' = [k \in Keys |-> [i \in DOMAIN admitted[k] |->
                      [admitted[k][i] EXCEPT !.age = Older(@)]]]
    /\ newest' = [w \in Windows |-> IF newest[w] < MaxDelay THEN newest[w] + 1 ELSE MaxDelay]
    /\ requests' = [r \in Requests |-> IF requests[r].pc = "clock"
                      THEN [requests[r] EXCEPT !.now = @ + 1] ELSE requests[r]]
    /\ UNCHANGED <<windows, timestamps, janitor>>

Next ==
    \/ \E r \in Requests : \/ \E k \in Keys : LoadOrStore(r, k)
                           \/ ReadClock(r) \/ Allow(r) \/ Respond(r)
    \/ \E k \in Keys : JanitorFindsIdle(k)
    \/ JanitorDeletes
    \/ Tick

Spec == Init /\ [][Next]_vars
-----------------------------------------------------------------------------
(* Properties.                                                              *)

\* A request is refused for a reason: at that moment limit requests of the
\* same key had been admitted within the window before its clock reading.
JustlyRefused ==
    \A r \in Requests : requests[r].pc = "clock" /\ requests'[r].pc = "refused" =>
        Cardinality({i \in DOMAIN admitted[requests[r].key] :
            admitted[requests[r].key][i].age < requests[r].now + Window}) >= Limit

\* No request is refused without reason, stale clock readings and windows
\* dropped by the janitor included.
RefusalJustified == [][JustlyRefused]_vars

\* The admissions of a key whose readings lie in the window that ended so long ago.
InWindow(k, end) ==
    {i \in DOMAIN admitted[k] : /\ ~ admitted[k][i].lost
                                /\ end <= admitted[k][i].age /\ admitted[k][i].age < end + Window}

\* The rate (docs/rate-limiting.md: 5 requests per 60 seconds).  At every moment
\* at most limit requests of a key are admitted with readings in the window that
\* ends now.  For windows that ended earlier, as long ago as a reading may be
\* delayed, the bound is on the admissions that were not late: a request that is
\* overtaken by one with a later reading finds the slice pruned by that one, and
\* may be admitted beyond the limit of its own window.  What was recorded in a
\* window that the janitor takes out of the map is forgotten and not bounded.
RateBound ==
    \A k \in Keys :
        /\ Cardinality(InWindow(k, 0)) <= Limit
        /\ \A end \in 0 .. MaxDelay :
              Cardinality({i \in InWindow(k, end) : ~ admitted[k][i].late}) <= Limit
=============================================================================
