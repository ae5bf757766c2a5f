-------------------------- MODULE RateLimitProofs --------------------------
(***************************************************************************)
(* The limiter keeps its promise for every limit, window, set of requests     *)
(* and delay between reading the clock and taking the mutex.  What carries    *)
(* the proof: a window serves one key at a time, and the window the map has   *)
(* for a key still holds every timestamp of that key that a request with the  *)
(* newest reading, or a newer one, has to count.                             *)
(***************************************************************************)
EXTENDS RateLimit, SequenceTheorems, FiniteSetTheorems, TLAPS

RequestType ==
    [pc : {"idle", "loaded", "clock", "admitted", "refused"}, key : Keys \cup {NoKey},
     window : Windows \cup {NoWindow}, now : 0 .. MaxDelay]

AdmissionType == [age : 0 .. MaxAge, lost : BOOLEAN, late : BOOLEAN]

RateTypeOK ==
    /\ windows \in [Keys -> Windows \cup {NoWindow}]
    /\ timestamps \in [Windows -> SUBSET Nat]
    /\ requests \in [Requests -> RequestType]
    /\ janitor \in Keys \cup {NoKey}
    /\ admitted \in [Keys -> Seq(AdmissionType)]
    /\ newest \in [Windows -> 0 .. MaxDelay]
    /\ \A r \in Requests : requests[r].pc \in {"loaded", "clock"} =>
          requests[r].key \in Keys /\ requests[r].window \in Windows

\* The map, or a request that is being served, has window w for key k.
Holds(w, k) ==
    \/ windows[k] = w
    \/ \E r \in Requests : requests[r].window = w /\ requests[r].key = k

\* A window belongs to one key, and holds timestamps of that key's admissions.
WindowInv(w) ==
    /\ \A k, l \in Keys : Holds(w, k) /\ Holds(w, l) => k = l
    /\ \A k \in Keys : Holds(w, k) => timestamps[w] \subseteq DOMAIN admitted[k]
    /\ IsFiniteSet(timestamps[w]) /\ Cardinality(timestamps[w]) <= Limit

\* An admission that counts for the newest reading is in the window the map has
\* for its key.
KeyInv(k) ==
    \A i \in DOMAIN admitted[k] : ~ admitted[k][i].lost =>
        /\ windows[k] # NoWindow
        /\ admitted[k][i].age < newest[windows[k]] + Window => i \in timestamps[windows[k]]

\* The admissions in time, in the window that ended so long ago.
InTime(k, end) == {i \in InWindow(k, end) : ~ admitted[k][i].late}
TimelyInv(k) == \A end \in 0 .. MaxDelay : Cardinality(InTime(k, end)) <= Limit

IInv ==
    /\ RateTypeOK
    /\ \A w \in Windows : WindowInv(w)
    /\ \A k \in Keys : KeyInv(k) /\ TimelyInv(k)
-----------------------------------------------------------------------------
\* The cap on ages lies beyond everything a window counts.
LEMMA Bounds == MaxAge \in Nat /\ 0 \in 0 .. MaxAge /\ 0 \in 0 .. MaxDelay
                /\ NoRequest \in RequestType /\ MaxDelay \in 0 .. MaxDelay
BY RateAssumption DEF MaxAge, NoRequest, RequestType

\* The limiter starts with an empty map and no admissions.
LEMMA InitIInv == Init => IInv
<1> SUFFICES ASSUME Init PROVE IInv
    OBVIOUS
<1>1. RateTypeOK
    BY Bounds, EmptySeq DEF Init, RateTypeOK, NoRequest
<1>2. \A k \in Keys : admitted[k] = <<>> /\ DOMAIN admitted[k] = {} /\ windows[k] = NoWindow
    BY DEF Init
<1>3. \A w \in Windows : timestamps[w] = {} /\ w # NoWindow
    BY RateAssumption DEF Init
<1>4. \A r \in Requests : requests[r].window = NoWindow
    BY DEF Init, NoRequest
<1>5. ASSUME NEW w \in Windows PROVE WindowInv(w)
    <2>1. \A k \in Keys : ~ Holds(w, k)
        BY <1>2, <1>3, <1>4 DEF Holds
    <2> QED
        BY <1>3, <2>1, FS_EmptySet, RateAssumption DEF WindowInv
<1>6. \A k \in Keys : KeyInv(k)
    BY <1>2 DEF KeyInv
<1>7. \A k \in Keys : TimelyInv(k)
    <2>1. \A k \in Keys : \A end : InTime(k, end) = {}
        BY <1>2 DEF InTime, InWindow
    <2> QED
        BY <2>1, FS_EmptySet, RateAssumption DEF TimelyInv
<1> QED
    BY <1>1, <1>5, <1>6, <1>7 DEF IInv

\* What was admitted in time is counted alike as long as the admissions are the same.
LEMMA SameTimely ==
    ASSUME NEW k \in Keys, TimelyInv(k), admitted'[k] = admitted[k]
    PROVE  TimelyInv(k)'
<1>1. \A end : InTime(k, end)' = InTime(k, end)
    BY DEF InTime, InWindow
<1> QED
    BY <1>1 DEF TimelyInv

\* A step after which no window serves a key it did not serve before, and that
\* leaves slices and admissions alone, leaves the windows in order.
LEMMA FewerHolders ==
    ASSUME \A w \in Windows : WindowInv(w), UNCHANGED <<timestamps, admitted>>,
           \A w \in Windows : \A k \in Keys : Holds(w, k)' => Holds(w, k)
    PROVE  \A w \in Windows : WindowInv(w)'
<1> SUFFICES ASSUME NEW w \in Windows PROVE WindowInv(w)'
    OBVIOUS
<1>1. \A k, l \in Keys : Holds(w, k)' /\ Holds(w, l)' => k = l
    BY DEF WindowInv
<1>2. \A k \in Keys : Holds(w, k)' => timestamps'[w] \subseteq DOMAIN admitted'[k]
    BY DEF WindowInv
<1>3. IsFiniteSet(timestamps[w])' /\ (Cardinality(timestamps[w]) <= Limit)'
    BY DEF WindowInv
<1> QED
    BY <1>1, <1>2, <1>3 DEF WindowInv

\* The window a request gets from the map already serves its key; a new one
\* serves no other and starts empty.
LEMMA StepLoadOrStore ==
    ASSUME IInv, NEW r \in Requests, NEW k \in Keys, LoadOrStore(r, k)
    PROVE  IInv'
<1> USE DEF IInv
<1>1. CASE windows[k] # NoWindow
    <2>1. windows[k] \in Windows
        BY <1>1 DEF RateTypeOK
    <2> PICK x : x = [NoRequest EXCEPT !.pc = "loaded", !.key = k, !.window = windows[k]]
        OBVIOUS
    <2>2. x \in RequestType /\ x.pc = "loaded" /\ x.key = k /\ x.window = windows[k]
        BY <2>1, Bounds, Zenon DEF NoRequest, RequestType
    <2>3. requests' = [requests EXCEPT ![r] = x] /\ UNCHANGED <<windows, timestamps, janitor, admitted, newest>>
        BY <1>1 DEF LoadOrStore
    <2>4. RateTypeOK'
        BY <2>1, <2>2, <2>3 DEF RateTypeOK
    <2>5. ASSUME NEW w \in Windows, NEW l \in Keys, Holds(w, l)' PROVE Holds(w, l)
        BY <2>2, <2>3, <2>5 DEF Holds, RateTypeOK
    <2>6. \A w \in Windows : WindowInv(w)'
        BY <2>3, <2>5, FewerHolders
    <2>7. \A l \in Keys : KeyInv(l)' /\ TimelyInv(l)'
        BY <2>3, SameTimely DEF KeyInv
    <2> QED
        BY <2>4, <2>6, <2>7
<1>2. CASE windows[k] = NoWindow
    <2> PICK v \in Windows : ~ InUse(v) /\ windows' = [windows EXCEPT ![k] = v]
               /\ timestamps' = [timestamps EXCEPT ![v] = {}]
               /\ newest' = [newest EXCEPT ![v] = MaxDelay]
               /\ requests' = [requests EXCEPT ![r] = [NoRequest EXCEPT
                                 !.pc = "loaded", !.key = k, !.window = v]]
        BY <1>2, Zenon DEF LoadOrStore
    <2> PICK x : x = [NoRequest EXCEPT !.pc = "loaded", !.key = k, !.window = v]
        OBVIOUS
    <2>2. x \in RequestType /\ x.pc = "loaded" /\ x.key = k /\ x.window = v
        BY Bounds, Zenon DEF NoRequest, RequestType
    <2>3. requests' = [requests EXCEPT ![r] = x] /\ UNCHANGED <<janitor, admitted>>
        BY Zenon DEF LoadOrStore
    <2>4. RateTypeOK'
        BY <2>2, <2>3, Bounds DEF RateTypeOK
    <2>5. \A l \in Keys : ~ Holds(v, l)
        BY DEF Holds, InUse
    <2>6. ASSUME NEW w \in Windows, NEW l \in Keys, Holds(w, l)'
          PROVE  (w = v /\ l = k) \/ (w # v /\ Holds(w, l))
        BY <2>2, <2>3, <2>5, <2>6 DEF Holds, RateTypeOK
    <2>7. ASSUME NEW w \in Windows PROVE WindowInv(w)'
        <3>1. CASE w = v
            <4>1. timestamps'[w] = {}
                BY <3>1 DEF RateTypeOK
            <4> QED
                BY <2>6, <3>1, <4>1, FS_EmptySet, RateAssumption DEF WindowInv
        <3>2. CASE w # v
            <4>1. timestamps'[w] = timestamps[w]
                BY <3>2 DEF RateTypeOK
            <4>2. \A l \in Keys : Holds(w, l)' => Holds(w, l)
                BY <2>6, <3>2
            <4>3. WindowInv(w)
                OBVIOUS
            <4> QED
                BY <2>3, <4>1, <4>2, <4>3 DEF WindowInv
        <3> QED
            BY <3>1, <3>2
    <2>8. ASSUME NEW l \in Keys PROVE KeyInv(l)' /\ TimelyInv(l)'
        <3>0. TimelyInv(l)'
            BY <2>3, SameTimely
        <3>1. KeyInv(l)
            OBVIOUS
        <3>2. CASE l = k
            BY <1>2, <2>3, <3>0, <3>1, <3>2 DEF KeyInv
        <3>3. CASE l # k
            <4>1. windows'[l] = windows[l] /\ windows[l] # v
                BY <3>3 DEF RateTypeOK, InUse
            <4>2. windows[l] # NoWindow => /\ timestamps'[windows[l]] = timestamps[windows[l]]
                                           /\ newest'[windows[l]] = newest[windows[l]]
                BY <4>1 DEF RateTypeOK
            <4> QED
                BY <2>3, <3>0, <3>1, <4>1, <4>2 DEF KeyInv
        <3> QED
            BY <3>0, <3>2, <3>3
    <2> QED
        BY <2>4, <2>7, <2>8
<1> QED
    BY <1>1, <1>2

\* Reading the clock changes neither what a window serves nor what it holds.
LEMMA StepReadClock ==
    ASSUME IInv, NEW r \in Requests, ReadClock(r)
    PROVE  IInv'
<1> USE DEF IInv
<1> PICK x : x = [requests[r] EXCEPT !.pc = "clock", !.now = 0]
    OBVIOUS
<1>1. requests[r] \in RequestType
    BY DEF RateTypeOK
<1>2. /\ x \in RequestType /\ x.pc = "clock" /\ x.key = requests[r].key
      /\ x.window = requests[r].window
    BY <1>1, Bounds, Zenon DEF RequestType
<1>3. requests' = [requests EXCEPT ![r] = x] /\ UNCHANGED <<windows, timestamps, janitor, admitted, newest>>
    BY Zenon DEF ReadClock
<1>4. RateTypeOK'
    BY <1>2, <1>3 DEF RateTypeOK, ReadClock
<1>5. \A w \in Windows : \A l \in Keys : Holds(w, l)' => Holds(w, l)
    BY <1>2, <1>3 DEF Holds, RateTypeOK
<1>6. \A w \in Windows : WindowInv(w)'
    BY <1>3, <1>5, FewerHolders
<1>7. \A l \in Keys : KeyInv(l)' /\ TimelyInv(l)'
    BY <1>3, SameTimely DEF KeyInv
<1> QED
    BY <1>4, <1>6, <1>7

\* A request that is answered lets go of its window.
LEMMA StepRespond ==
    ASSUME IInv, NEW r \in Requests, Respond(r)
    PROVE  IInv'
<1> USE DEF IInv
<1>1. requests' = [requests EXCEPT ![r] = NoRequest]
      /\ UNCHANGED <<windows, timestamps, janitor, admitted, newest>>
    BY DEF Respond
<1>2. NoRequest.window = NoWindow /\ NoRequest.pc = "idle"
    BY DEF NoRequest
<1>3. RateTypeOK'
    BY <1>1, <1>2, Bounds DEF RateTypeOK
<1>4. \A w \in Windows : \A l \in Keys : Holds(w, l)' => Holds(w, l)
    BY <1>1, <1>2, RateAssumption DEF Holds, RateTypeOK
<1>5. \A w \in Windows : WindowInv(w)'
    BY <1>1, <1>4, FewerHolders
<1>6. \A l \in Keys : KeyInv(l)' /\ TimelyInv(l)'
    BY <1>1, SameTimely DEF KeyInv
<1> QED
    BY <1>3, <1>5, <1>6

\* What allow leaves in the slice of window w of key k, whether it refuses or
\* admits: everything that still counts, nothing that was never admitted, at
\* most limit entries.
SliceAfter(r, k, w) ==
    /\ k \in Keys /\ w \in Windows /\ Holds(w, k)
    /\ timestamps' = [timestamps EXCEPT ![w] = timestamps'[w]]
    /\ Valid(r) \subseteq timestamps'[w]
    /\ IsFiniteSet(timestamps'[w]) /\ Cardinality(timestamps'[w]) <= Limit
    /\ timestamps'[w] \subseteq DOMAIN admitted'[k]
    /\ admitted' \in [Keys -> Seq(AdmissionType)]
    /\ \A l \in Keys \ {k} : admitted'[l] = admitted[l]
    /\ DOMAIN admitted[k] \subseteq DOMAIN admitted'[k]
    /\ \A i \in DOMAIN admitted[k] : admitted'[k][i] = admitted[k][i]
    /\ \A i \in DOMAIN admitted'[k] \ DOMAIN admitted[k] :
          /\ admitted'[k][i].lost = (windows[k] # w)
          /\ admitted'[k][i].late = (newest[w] < requests[r].now)
          /\ admitted'[k][i].age = requests[r].now
          /\ i \in timestamps'[w]

\* allow prunes and records as SliceAfter says.
LEMMA AllowSlice ==
    ASSUME IInv, NEW r \in Requests, Allow(r)
    PROVE  SliceAfter(r, requests[r].key, requests[r].window)
<1> PICK k : k = requests[r].key
    OBVIOUS
<1> PICK w : w = requests[r].window
    OBVIOUS
<1> USE DEF IInv
<1>1. k \in Keys /\ w \in Windows /\ Holds(w, k)
    BY DEF Allow, RateTypeOK, Holds
<1>2. WindowInv(w)
    BY <1>1
<1>3. timestamps \in [Windows -> SUBSET Nat] /\ admitted \in [Keys -> Seq(AdmissionType)]
    BY DEF RateTypeOK
<1>4. /\ IsFiniteSet(timestamps[w]) /\ Cardinality(timestamps[w]) <= Limit
      /\ timestamps[w] \subseteq DOMAIN admitted[k]
    BY <1>1, <1>2 DEF WindowInv
<1> PICK V : V = Valid(r)
    OBVIOUS
<1>5. V \subseteq timestamps[w]
    BY DEF Valid
<1>6. IsFiniteSet(V) /\ Cardinality(V) <= Cardinality(timestamps[w])
    BY <1>4, <1>5, FS_Subset
<1>7. Cardinality(V) \in Nat /\ Cardinality(timestamps[w]) \in Nat /\ Limit \in Nat
    BY <1>4, <1>6, FS_CardinalityType, RateAssumption
<1>8. CASE Cardinality(V) >= Limit
    <2>1. timestamps' = [timestamps EXCEPT ![w] = V] /\ admitted' = admitted
        BY <1>8 DEF Allow
    <2>2. timestamps'[w] = V
        BY <1>1, <1>3, <2>1
    <2>3. Cardinality(V) <= Limit
        BY <1>4, <1>6, <1>7
    <2> QED
        BY <1>1, <1>3, <1>4, <1>5, <1>6, <2>1, <2>2, <2>3, Zenon DEF SliceAfter
<1>9. CASE ~ (Cardinality(V) >= Limit)
    <2> PICK a : a = Admission(r)
        OBVIOUS
    <2> PICK n : n = Len(admitted[k]) + 1
        OBVIOUS
    <2>1. requests[r] \in RequestType
        BY DEF RateTypeOK
    <2>2. /\ a \in AdmissionType /\ a.lost = (windows[k] # w)
          /\ a.late = (newest[w] < requests[r].now) /\ a.age = requests[r].now
        <3>1. requests[r].now \in 0 .. MaxAge
            BY <2>1, RateAssumption DEF RequestType, MaxAge
        <3>2. PICK lost \in BOOLEAN : lost = (windows[k] # w)
            OBVIOUS
        <3>3. PICK late \in BOOLEAN : late = (newest[w] < requests[r].now)
            <4>1. newest[w] \in Int /\ requests[r].now \in Int
                BY <1>1, <2>1 DEF RateTypeOK, RequestType
            <4>2. PICK m \in Int, c \in Int : m = newest[w] /\ c = requests[r].now
                BY <4>1
            <4>3. PICK behind \in BOOLEAN : behind <=> m < c
                <5>1. CASE m < c
                    BY <5>1
                <5>2. CASE ~ (m < c)
                    BY <5>2
                <5> QED
                    BY <5>1, <5>2
            <4>4. behind = (m < c)
                BY <4>3
            <4> QED
                BY <4>2, <4>4
        <3>4. a = [age |-> requests[r].now, lost |-> lost, late |-> late]
            BY <3>2, <3>3, Zenon DEF Admission
        <3>5. a \in AdmissionType /\ a.lost = lost /\ a.late = late /\ a.age = requests[r].now
            BY <3>1, <3>4 DEF AdmissionType
        <3> QED
            BY <3>2, <3>3, <3>5, Zenon
    <2>3. timestamps' = [timestamps EXCEPT ![w] = V \cup {n}]
          /\ admitted' = [admitted EXCEPT ![k] = Append(admitted[k], a)]
        BY <1>9 DEF Allow, Recorded
    <2>4. timestamps'[w] = V \cup {n}
        BY <1>1, <1>3, <2>3
    <2>5. IsFiniteSet(V \cup {n}) /\ Cardinality(V \cup {n}) <= Cardinality(V) + 1
        <3>1. IsFiniteSet(V \cup {n})
              /\ Cardinality(V \cup {n}) = IF n \in V THEN Cardinality(V) ELSE Cardinality(V) + 1
            BY <1>6, FS_AddElement, Zenon
        <3> QED
            BY <1>7, <3>1
    <2>6. Cardinality(V \cup {n}) <= Limit
        BY <1>7, <1>9, <2>5, FS_CardinalityType
    <2>7. admitted[k] \in Seq(AdmissionType)
        BY <1>1, <1>3
    <2>8. /\ admitted'[k] \in Seq(AdmissionType) /\ admitted'[k] = Append(admitted[k], a)
          /\ \A l \in Keys \ {k} : admitted'[l] = admitted[l]
        BY <1>1, <1>3, <2>2, <2>3, <2>7, AppendProperties
    <2>9. admitted' \in [Keys -> Seq(AdmissionType)]
        BY <1>3, <2>3, <2>8
    <2>10. /\ DOMAIN admitted[k] = 1 .. Len(admitted[k]) /\ Len(admitted[k]) \in Nat
           /\ DOMAIN admitted'[k] = 1 .. Len(admitted'[k])
        BY <2>7, <2>8, LenProperties
    <2>11. /\ Len(admitted'[k]) = n /\ admitted'[k][n] = a
           /\ \A i \in 1 .. Len(admitted[k]) : admitted'[k][i] = admitted[k][i]
        BY <2>2, <2>7, <2>8, AppendProperties
    <2>12. \A i \in DOMAIN admitted'[k] \ DOMAIN admitted[k] : i = n
        BY <2>10, <2>11
    <2>13. DOMAIN admitted[k] \subseteq DOMAIN admitted'[k] /\ n \in DOMAIN admitted'[k]
        BY <2>10, <2>11
    <2>14. timestamps'[w] \subseteq DOMAIN admitted'[k]
        BY <1>4, <1>5, <2>4, <2>13
    <2>15. \A i \in DOMAIN admitted'[k] \ DOMAIN admitted[k] :
              /\ admitted'[k][i].lost = (windows[k] # w)
              /\ admitted'[k][i].late = (newest[w] < requests[r].now)
              /\ admitted'[k][i].age = requests[r].now /\ i \in timestamps'[w]
        BY <2>2, <2>4, <2>11, <2>12
    <2>16. /\ timestamps' = [timestamps EXCEPT ![w] = timestamps'[w]] /\ V \subseteq timestamps'[w]
           /\ IsFiniteSet(timestamps'[w]) /\ Cardinality(timestamps'[w]) <= Limit
        BY <2>3, <2>4, <2>5, <2>6, Zenon
    <2> QED
        BY <1>1, <2>8, <2>9, <2>10, <2>11, <2>13, <2>14, <2>15, <2>16 DEF SliceAfter
<1> QED
    BY <1>8, <1>9

\* An admission in time finds in the slice all that counts in any window it falls
\* into: nobody has pruned it with a later reading.
LEMMA AllowTimely ==
    ASSUME IInv, NEW r \in Requests, Allow(r), NEW k, NEW w, k = requests[r].key,
           w = requests[r].window, SliceAfter(r, k, w),
           newest[w] \in 0 .. MaxDelay, requests[r].now \in 0 .. MaxDelay
    PROVE  TimelyInv(k)'
<1> USE DEF IInv, SliceAfter
<1> SUFFICES ASSUME NEW end \in 0 .. MaxDelay PROVE Cardinality(InTime(k, end)') <= Limit
    BY DEF TimelyInv
<1> PICK now : now = requests[r].now
    OBVIOUS
<1>1. PICK S, T : S = InTime(k, end) /\ T = InTime(k, end)'
    OBVIOUS
<1>2. Cardinality(S) <= Limit /\ KeyInv(k)
    BY <1>1 DEF TimelyInv
<1>3. ASSUME NEW i \in T PROVE i \in S \/ i \notin DOMAIN admitted[k]
    BY <1>1, <1>3 DEF InTime, InWindow
<1>4. CASE T \subseteq DOMAIN admitted[k]
    <2>1. S \subseteq T
        BY <1>1 DEF InTime, InWindow
    <2>2. T = S
        BY <1>3, <1>4, <2>1
    <2> QED
        BY <1>1, <1>2, <2>2
<1>5. ASSUME NEW n \in T, n \notin DOMAIN admitted[k] PROVE Cardinality(T) <= Limit
    <2>1. /\ n \in DOMAIN admitted'[k] /\ ~ admitted'[k][n].lost /\ ~ admitted'[k][n].late
          /\ end <= admitted'[k][n].age
        BY <1>1 DEF InTime, InWindow
    <2>2. windows[k] = w /\ ~ (newest[w] < now) /\ end <= now
        BY <1>5, <2>1
    <2>3. ASSUME NEW i \in T PROVE i \in timestamps'[w]
        <3>1. CASE i \notin DOMAIN admitted[k]
            BY <1>1, <3>1 DEF InTime, InWindow
        <3>2. CASE i \in S
            <4>1. /\ i \in DOMAIN admitted[k] /\ ~ admitted[k][i].lost
                  /\ admitted[k][i].age < end + Window
                BY <1>1, <3>2 DEF InTime, InWindow
            <4>2. admitted[k][i] \in AdmissionType
                BY <4>1, LenProperties, ElementOfSeq DEF RateTypeOK
            <4>3. PICK a \in Nat, u \in 0 .. MaxDelay : a = admitted[k][i].age /\ u = newest[w]
                BY <4>2, Bounds DEF AdmissionType
            <4>4. admitted[k][i].age < now + Window /\ admitted[k][i].age < newest[w] + Window
                <5>1. a < end + Window /\ ~ (u < now) /\ end <= now /\ now \in 0 .. MaxDelay
                    BY <2>2, <4>1, <4>3
                <5>2. a < now + Window /\ a < u + Window
                    BY <5>1, RateAssumption
                <5> QED
                    BY <4>3, <5>2
            <4>5. i \in timestamps[w]
                BY <1>2, <2>2, <4>1, <4>4 DEF KeyInv
            <4> QED
                BY <4>4, <4>5 DEF Valid
        <3> QED
            BY <1>3, <3>1, <3>2
    <2>4. IsFiniteSet(T) /\ Cardinality(T) <= Cardinality(timestamps'[w])
        BY <2>3, FS_Subset
    <2>5. Cardinality(T) \in Nat /\ Cardinality(timestamps'[w]) \in Nat /\ Limit \in Nat
        BY <2>4, FS_CardinalityType, RateAssumption
    <2> QED
        BY <2>4, <2>5
<1> QED
    BY <1>1, <1>4, <1>5

\* allow keeps a window's entries bounded and current, and an admission that
\* counts stays in the window the map has for its key.
LEMMA StepAllow ==
    ASSUME IInv, NEW r \in Requests, Allow(r)
    PROVE  IInv'
<1> PICK k : k = requests[r].key
    OBVIOUS
<1> PICK w : w = requests[r].window
    OBVIOUS
<1>1. SliceAfter(r, k, w)
    BY AllowSlice
<1> USE DEF IInv, SliceAfter
<1> PICK pc \in {"admitted", "refused"} : Answered(r, pc)
    BY DEF Allow
<1> PICK x : x = [requests[r] EXCEPT !.pc = pc, !.window = NoWindow]
    OBVIOUS
<1>2. requests[r] \in RequestType
    BY DEF RateTypeOK
<1>3. /\ x \in RequestType /\ x.pc = pc /\ x.window = NoWindow
      /\ requests' = [requests EXCEPT ![r] = x] /\ UNCHANGED <<windows, janitor>>
    BY <1>2, Zenon DEF RequestType, Answered, Allow
<1>4. timestamps' \in [Windows -> SUBSET Nat]
    <2>1. DOMAIN admitted'[k] \subseteq Nat
        BY <1>1, LenProperties
    <2> QED
        BY <1>1, <2>1, Zenon DEF RateTypeOK
<1>5. RateTypeOK' /\ newest' = [newest EXCEPT ![w] = newest'[w]]
      /\ newest'[w] <= requests[r].now /\ newest'[w] <= newest[w] /\ newest'[w] \in 0 .. MaxDelay
      /\ newest[w] \in 0 .. MaxDelay /\ requests[r].now \in 0 .. MaxDelay
    <2>1. /\ newest \in [Windows -> 0 .. MaxDelay] /\ requests[r].now \in 0 .. MaxDelay
          /\ newest' = [newest EXCEPT ![w] = IF requests[r].now < newest[w]
                                             THEN requests[r].now ELSE newest[w]]
        BY <1>2 DEF RateTypeOK, RequestType, Allow, Locked
    <2>2. /\ newest' \in [Windows -> 0 .. MaxDelay] /\ newest[w] \in 0 .. MaxDelay
          /\ newest' = [newest EXCEPT ![w] = newest'[w]]
          /\ newest'[w] <= requests[r].now /\ newest'[w] <= newest[w] /\ newest'[w] \in 0 .. MaxDelay
        <3>1. PICK n \in 0 .. MaxDelay : n = IF requests[r].now < newest[w]
                                             THEN requests[r].now ELSE newest[w]
            BY <1>1, <2>1
        <3>2. n <= requests[r].now /\ n <= newest[w] /\ newest[w] \in 0 .. MaxDelay
            BY <1>1, <2>1, <3>1, RateAssumption
        <3>3. newest' = [newest EXCEPT ![w] = n] /\ newest'[w] = n
            BY <1>1, <2>1, <3>1
        <3> QED
            BY <2>1, <3>2, <3>3
    <2> QED
        BY <1>1, <1>3, <1>4, <2>1, <2>2 DEF RateTypeOK
<1>6. \A u \in Windows : \A l \in Keys : Holds(u, l)' => Holds(u, l)
    BY <1>3, RateAssumption DEF Holds, RateTypeOK
<1>7. \A l \in Keys : Holds(w, l) => l = k
    BY <1>1 DEF WindowInv
<1>8. \A l \in Keys : DOMAIN admitted[l] \subseteq DOMAIN admitted'[l]
    BY <1>1
<1>9. \A u \in Windows \ {w} : timestamps'[u] = timestamps[u] /\ newest'[u] = newest[u]
    BY <1>1, <1>5 DEF RateTypeOK
<1>10. ASSUME NEW u \in Windows PROVE WindowInv(u)'
    <2>1. WindowInv(u)
        OBVIOUS
    <2>2. CASE u = w
        BY <1>1, <1>6, <1>7, <2>2 DEF WindowInv
    <2>3. CASE u # w
        BY <1>6, <1>8, <1>9, <2>1, <2>3 DEF WindowInv
    <2> QED
        BY <2>2, <2>3
<1>11. ASSUME NEW l \in Keys PROVE KeyInv(l)'
    <2>1. KeyInv(l)
        OBVIOUS
    <2>2. CASE l # k
        <3>1. windows[l] # w
            BY <1>7, <2>2 DEF Holds
        <3>2. windows[l] # NoWindow => /\ timestamps'[windows[l]] = timestamps[windows[l]]
                                       /\ newest'[windows[l]] = newest[windows[l]]
            BY <1>9, <3>1 DEF RateTypeOK
        <3> QED
            BY <1>1, <1>3, <2>1, <2>2, <3>2 DEF KeyInv
    <2>3. CASE l = k
        <3> SUFFICES ASSUME NEW i \in DOMAIN admitted'[k], ~ admitted'[k][i].lost
                     PROVE  /\ windows[k] # NoWindow
                            /\ admitted'[k][i].age < newest'[windows[k]] + Window =>
                                  i \in timestamps'[windows[k]]
            BY <1>3, <2>3 DEF KeyInv
        <3>1. CASE i \notin DOMAIN admitted[k]
            BY <1>1, <3>1, RateAssumption, ZenonT(40)
        <3>2. CASE i \in DOMAIN admitted[k]
            <4>1. admitted'[k][i] = admitted[k][i] /\ admitted[k][i] \in AdmissionType
                BY <1>1, <3>2, LenProperties, ElementOfSeq DEF RateTypeOK
            <4>2. windows[k] # NoWindow
                  /\ (admitted[k][i].age < newest[windows[k]] + Window => i \in timestamps[windows[k]])
                BY <2>1, <2>3, <3>2, <4>1 DEF KeyInv
            <4>3. ASSUME windows[k] = w, admitted[k][i].age < newest'[w] + Window PROVE i \in Valid(r)
                <5>1. admitted[k][i].age \in Nat
                    BY <4>1, Bounds DEF AdmissionType
                <5>2. /\ admitted[k][i].age < requests[r].now + Window
                      /\ admitted[k][i].age < newest[w] + Window
                    BY <1>5, <4>3, <5>1, RateAssumption
                <5> QED
                    BY <4>2, <4>3, <5>2 DEF Valid
            <4> QED
                BY <1>1, <1>9, <4>1, <4>2, <4>3 DEF RateTypeOK
        <3> QED
            BY <3>1, <3>2
    <2> QED
        BY <2>2, <2>3
<1>12. ASSUME NEW l \in Keys PROVE TimelyInv(l)'
    <2>1. CASE l # k
        BY <1>1, <2>1, SameTimely
    <2>2. CASE l = k
        BY <1>1, <1>5, <2>2, AllowTimely
    <2> QED
        BY <2>1, <2>2
<1> QED
    BY <1>5, <1>10, <1>11, <1>12

\* The janitor marks a key; nothing that the invariant speaks of changes.
LEMMA StepJanitorFindsIdle ==
    ASSUME IInv, NEW k \in Keys, JanitorFindsIdle(k)
    PROVE  IInv'
<1> USE DEF IInv
<1>1. UNCHANGED <<windows, timestamps, requests, admitted, newest>> /\ janitor' \in Keys
    BY DEF JanitorFindsIdle
<1>2. RateTypeOK'
    BY <1>1 DEF RateTypeOK
<1>3. \A w \in Windows : WindowInv(w)'
    BY <1>1, FewerHolders DEF Holds
<1>4. \A l \in Keys : KeyInv(l)' /\ TimelyInv(l)'
    BY <1>1, SameTimely DEF KeyInv
<1> QED
    BY <1>2, <1>3, <1>4

\* When the janitor deletes a key its window may be in use again; all that it
\* recorded is lost, whatever it recorded since the janitor looked.
LEMMA StepJanitorDeletes ==
    ASSUME IInv, JanitorDeletes
    PROVE  IInv'
<1> USE DEF IInv
<1>1. janitor \in Keys
    BY DEF JanitorDeletes, RateTypeOK
<1> PICK s : s = [i \in DOMAIN admitted[janitor] |-> [admitted[janitor][i] EXCEPT !.lost = TRUE]]
    BY Zenon
<1>2. /\ windows' = [windows EXCEPT ![janitor] = NoWindow] /\ janitor' = NoKey
      /\ admitted' = [admitted EXCEPT ![janitor] = s] /\ UNCHANGED <<timestamps, requests, newest>>
    BY DEF JanitorDeletes
<1>3. admitted[janitor] \in Seq(AdmissionType)
    BY <1>1 DEF RateTypeOK
<1>4. /\ DOMAIN admitted[janitor] = 1 .. Len(admitted[janitor]) /\ Len(admitted[janitor]) \in Nat
      /\ \A i \in DOMAIN admitted[janitor] : admitted[janitor][i] \in AdmissionType
    BY <1>3, LenProperties, ElementOfSeq
<1>5. \A i \in DOMAIN s : s[i] \in AdmissionType /\ s[i].lost
    BY <1>4 DEF AdmissionType
<1>6. s \in Seq(AdmissionType) /\ DOMAIN s = DOMAIN admitted[janitor]
    <2>1. s \in [1 .. Len(admitted[janitor]) -> AdmissionType]
        BY <1>4, <1>5, Zenon
    <2> QED
        BY <1>4, <2>1
<1>7. RateTypeOK'
    BY <1>1, <1>2, <1>6 DEF RateTypeOK
<1>8. \A w \in Windows : \A l \in Keys : Holds(w, l)' => Holds(w, l)
    BY <1>1, <1>2, RateAssumption DEF Holds, RateTypeOK
<1>9. \A l \in Keys : DOMAIN admitted'[l] = DOMAIN admitted[l]
    BY <1>1, <1>2, <1>6 DEF RateTypeOK
<1>10. \A w \in Windows : WindowInv(w)'
    BY <1>2, <1>8, <1>9 DEF WindowInv
<1>11. ASSUME NEW l \in Keys PROVE KeyInv(l)' /\ TimelyInv(l)'
    <2>1. CASE l = janitor
        <3>1. KeyInv(l)'
            BY <1>1, <1>2, <1>5, <2>1 DEF KeyInv, RateTypeOK
        <3>2. admitted'[l] = s
            BY <1>1, <1>2, <2>1 DEF RateTypeOK
        <3>3. \A end : InTime(l, end)' = {}
            BY <1>5, <3>2 DEF InTime, InWindow
        <3>4. \A end : Cardinality(InTime(l, end)') <= Limit
            BY <3>3, FS_EmptySet, RateAssumption
        <3> QED
            BY <3>1, <3>4 DEF TimelyInv
    <2>2. CASE l # janitor
        <3>1. KeyInv(l)'
            BY <1>1, <1>2, <2>2 DEF KeyInv, RateTypeOK
        <3>2. admitted'[l] = admitted[l]
            BY <1>1, <1>2, <2>2 DEF RateTypeOK
        <3> QED
            BY <3>1, <3>2, SameTimely
    <2> QED
        BY <2>1, <2>2
<1> QED
    BY <1>7, <1>10, <1>11

\* Time makes admissions older and nothing younger.
LEMMA StepTick ==
    ASSUME IInv, Tick
    PROVE  IInv'
<1> USE DEF IInv
<1>1. UNCHANGED <<windows, timestamps, janitor>>
    BY DEF Tick
<1>2. ASSUME NEW k \in Keys
      PROVE  /\ admitted'[k] \in Seq(AdmissionType) /\ DOMAIN admitted'[k] = DOMAIN admitted[k]
             /\ \A i \in DOMAIN admitted[k] :
                   /\ admitted'[k][i].lost = admitted[k][i].lost
                   /\ admitted'[k][i].late = admitted[k][i].late
                   /\ admitted[k][i].age \in Nat /\ admitted'[k][i].age \in Nat
                   /\ admitted'[k][i].age < MaxAge => admitted'[k][i].age = admitted[k][i].age + 1
    <2> PICK s : s = [i \in DOMAIN admitted[k] |->
                        [admitted[k][i] EXCEPT !.age = Older(admitted[k][i].age)]]
        BY Zenon
    <2>1. admitted'[k] = s
        BY DEF Tick
    <2>2. admitted[k] \in Seq(AdmissionType)
        BY DEF RateTypeOK
    <2>3. /\ DOMAIN admitted[k] = 1 .. Len(admitted[k]) /\ Len(admitted[k]) \in Nat
          /\ \A i \in DOMAIN admitted[k] : admitted[k][i] \in AdmissionType
        BY <2>2, LenProperties, ElementOfSeq
    <2>4. \A age \in 0 .. MaxAge : /\ Older(age) \in 0 .. MaxAge
                                     /\ Older(age) < MaxAge => Older(age) = age + 1
        BY Bounds DEF Older
    <2>5. ASSUME NEW i \in DOMAIN s
          PROVE  /\ s[i] \in AdmissionType /\ s[i].lost = admitted[k][i].lost
                 /\ s[i].late = admitted[k][i].late
                 /\ admitted[k][i].age \in Nat /\ s[i].age \in Nat
                 /\ s[i].age < MaxAge => s[i].age = admitted[k][i].age + 1
        <3>1. admitted[k][i] \in AdmissionType /\ s[i] = [admitted[k][i] EXCEPT !.age = Older(admitted[k][i].age)]
            BY <2>3
        <3>2. s[i] \in AdmissionType /\ s[i].lost = admitted[k][i].lost
              /\ s[i].late = admitted[k][i].late /\ s[i].age = Older(admitted[k][i].age)
            <4>1. Older(admitted[k][i].age) \in 0 .. MaxAge
                <5>1. admitted[k][i].age \in 0 .. MaxAge
                    BY <3>1, Zenon DEF AdmissionType
                <5> QED
                    BY <5>1, Bounds DEF Older
            <4> QED
                BY <3>1, <4>1, Zenon DEF AdmissionType
        <3> QED
            BY <2>4, <3>1, <3>2, Bounds DEF AdmissionType
    <2>6. s \in Seq(AdmissionType)
        <3>1. s \in [1 .. Len(admitted[k]) -> AdmissionType]
            BY <2>3, <2>5, Zenon
        <3> QED
            BY <2>3, <3>1
    <2> QED
        BY <2>1, <2>5, <2>6
<1>3. admitted' \in [Keys -> Seq(AdmissionType)]
    BY <1>2 DEF Tick
<1>4. ASSUME NEW r \in Requests
      PROVE  /\ requests'[r] \in RequestType /\ requests'[r].pc = requests[r].pc
             /\ requests'[r].key = requests[r].key /\ requests'[r].window = requests[r].window
    <2>1. requests[r] \in RequestType
        BY DEF RateTypeOK
    <2>2. requests'[r] = IF requests[r].pc = "clock" THEN [requests[r] EXCEPT !.now = @ + 1]
                         ELSE requests[r]
        BY DEF Tick
    <2>3. requests[r].pc = "clock" => requests[r].now + 1 \in 0 .. MaxDelay
        BY <2>1, RateAssumption DEF Tick, RequestType
    <2> QED
        BY <2>1, <2>2, <2>3 DEF RequestType
<1>5. requests' \in [Requests -> RequestType]
    BY <1>4 DEF Tick
<1>6. /\ newest' \in [Windows -> 0 .. MaxDelay]
      /\ \A w \in Windows : newest[w] \in 0 .. MaxDelay /\ newest'[w] \in 0 .. MaxDelay
                             /\ newest'[w] <= newest[w] + 1
    BY RateAssumption DEF Tick, RateTypeOK
<1>7. RateTypeOK'
    BY <1>1, <1>3, <1>4, <1>5, <1>6, Zenon DEF RateTypeOK
<1>8. \A w \in Windows : \A l \in Keys : Holds(w, l)' => Holds(w, l)
    BY <1>1, <1>4 DEF Holds
<1>9. \A w \in Windows : WindowInv(w)'
    BY <1>1, <1>2, <1>8 DEF WindowInv
<1>10. ASSUME NEW l \in Keys PROVE KeyInv(l)'
    <2> SUFFICES ASSUME NEW i \in DOMAIN admitted[l], ~ admitted[l][i].lost
                 PROVE  /\ windows[l] # NoWindow
                        /\ admitted'[l][i].age < newest'[windows[l]] + Window =>
                              i \in timestamps[windows[l]]
        BY <1>1, <1>2 DEF KeyInv
    <2>1. /\ windows[l] # NoWindow /\ windows[l] \in Windows
          /\ admitted[l][i].age < newest[windows[l]] + Window => i \in timestamps[windows[l]]
        BY DEF KeyInv, RateTypeOK
    <2>2. PICK w \in Windows : w = windows[l]
        BY <2>1
    <2>3. PICK a \in Nat, b \in Nat : a = admitted[l][i].age /\ b = admitted'[l][i].age
        BY <1>2
    <2>4. b < MaxAge => b = a + 1
        BY <1>2, <2>3
    <2>5. b < newest'[w] + Window => a < newest[w] + Window
        BY <1>6, <2>4, RateAssumption DEF MaxAge
    <2> QED
        BY <2>1, <2>2, <2>3, <2>5
<1>11. ASSUME NEW l \in Keys PROVE TimelyInv(l)'
    <2> SUFFICES ASSUME NEW end \in 0 .. MaxDelay PROVE Cardinality(InTime(l, end)') <= Limit
        BY DEF TimelyInv
    <2>1. PICK before \in 0 .. MaxDelay : before = IF end = 0 THEN 0 ELSE end - 1
        BY RateAssumption
    <2>2. PICK S, T : S = InTime(l, before) /\ T = InTime(l, end)'
        OBVIOUS
    <2>3. ASSUME NEW i \in T PROVE i \in S
        <3>1. /\ i \in DOMAIN admitted[l] /\ ~ admitted[l][i].lost /\ ~ admitted[l][i].late
              /\ end <= admitted'[l][i].age /\ admitted'[l][i].age < end + Window
            BY <1>2, <2>2 DEF InTime, InWindow
        <3>2. PICK a \in Nat, b \in Nat : a = admitted[l][i].age /\ b = admitted'[l][i].age
            BY <1>2, <3>1
        <3>3. b < MaxAge => b = a + 1
            BY <1>2, <3>1, <3>2
        <3>4. before <= a /\ a < before + Window
            BY <2>1, <3>1, <3>2, <3>3, RateAssumption DEF MaxAge
        <3> QED
            BY <2>2, <3>1, <3>2, <3>4 DEF InTime, InWindow
    <2>4. IsFiniteSet(S)
        <3>1. admitted[l] \in Seq(AdmissionType)
            BY DEF RateTypeOK
        <3>2. DOMAIN admitted[l] = 1 .. Len(admitted[l]) /\ Len(admitted[l]) \in Int
            BY <3>1, LenProperties
        <3>3. IsFiniteSet(DOMAIN admitted[l])
            BY <3>2, FS_Interval
        <3>4. S \subseteq DOMAIN admitted[l]
            BY <2>2 DEF InTime, InWindow
        <3> QED
            BY <3>3, <3>4, FS_Subset
    <2>5. IsFiniteSet(T) /\ Cardinality(T) <= Cardinality(S)
        BY <2>3, <2>4, FS_Subset
    <2>6. Cardinality(T) \in Nat /\ Cardinality(S) \in Nat /\ Limit \in Nat
        BY <2>4, <2>5, FS_CardinalityType, RateAssumption
    <2>7. Cardinality(S) <= Limit
        BY <2>2 DEF TimelyInv
    <2> QED
        BY <2>2, <2>5, <2>6, <2>7
<1> QED
    BY <1>7, <1>9, <1>10, <1>11

\* Every step of the limiter keeps the invariant.
LEMMA NextIInv == IInv /\ [Next]_vars => IInv'
<1> SUFFICES ASSUME IInv, [Next]_vars PROVE IInv'
    OBVIOUS
<1>1. CASE UNCHANGED vars
    <2>1. UNCHANGED <<windows, timestamps, requests, janitor, admitted, newest>>
        BY <1>1 DEF vars
    <2>2. RateTypeOK'
        BY <2>1 DEF IInv, RateTypeOK
    <2>3. \A w \in Windows : WindowInv(w)'
        BY <2>1, FewerHolders DEF IInv, Holds
    <2>4. \A l \in Keys : KeyInv(l)' /\ TimelyInv(l)'
        BY <2>1, SameTimely DEF IInv, KeyInv
    <2> QED
        BY <2>2, <2>3, <2>4 DEF IInv
<1>2. ASSUME NEW r \in Requests, NEW k \in Keys, LoadOrStore(r, k) PROVE IInv'
    BY <1>2, StepLoadOrStore
<1>3. ASSUME NEW r \in Requests, ReadClock(r) PROVE IInv'
    BY <1>3, StepReadClock
<1>4. ASSUME NEW r \in Requests, Allow(r) PROVE IInv'
    BY <1>4, StepAllow
<1>5. ASSUME NEW r \in Requests, Respond(r) PROVE IInv'
    BY <1>5, StepRespond
<1>6. ASSUME NEW k \in Keys, JanitorFindsIdle(k) PROVE IInv'
    BY <1>6, StepJanitorFindsIdle
<1>7. CASE JanitorDeletes
    BY <1>7, StepJanitorDeletes
<1>8. CASE Tick
    BY <1>8, StepTick
<1> QED
    BY <1>1, <1>2, <1>3, <1>4, <1>5, <1>6, <1>7, <1>8 DEF Next

\* The inductive invariant holds in every reachable state of the limiter.
THEOREM RateInvariant == Spec => []IInv
BY InitIInv, NextIInv, PTL DEF Spec

\* What counts against the limit now is in one window, which never has more than
\* limit entries; for the other windows the invariant says it.
LEMMA IInvRateBound == IInv => RateBound
<1> SUFFICES ASSUME IInv, NEW k \in Keys PROVE Cardinality(InWindow(k, 0)) <= Limit
    BY DEF RateBound, IInv, TimelyInv, InTime
<1> PICK S : S = InWindow(k, 0)
    OBVIOUS
<1>1. CASE S = {}
    <2>1. Cardinality(S) = 0
        BY <1>1, FS_EmptySet
    <2> QED
        BY <2>1, RateAssumption
<1>2. CASE S # {}
    <2>1. windows[k] \in Windows
        BY <1>2 DEF IInv, KeyInv, RateTypeOK, InWindow
    <2>0. ASSUME NEW i \in S PROVE i \in timestamps[windows[k]]
        <3>1. i \in DOMAIN admitted[k] /\ ~ admitted[k][i].lost /\ admitted[k][i].age < 0 + Window
            BY DEF InWindow
        <3>2. admitted[k][i] \in AdmissionType /\ newest[windows[k]] \in 0 .. MaxDelay
            BY <2>1, <3>1, LenProperties, ElementOfSeq DEF IInv, RateTypeOK
        <3>3. admitted[k][i].age \in Nat
            BY <3>2, Bounds DEF AdmissionType
        <3>4. admitted[k][i].age < newest[windows[k]] + Window
            BY <3>1, <3>2, <3>3, RateAssumption
        <3> QED
            BY <3>1, <3>4 DEF IInv, KeyInv
    <2>2. IsFiniteSet(timestamps[windows[k]]) /\ Cardinality(timestamps[windows[k]]) <= Limit
        BY <2>1 DEF IInv, WindowInv
    <2>3. IsFiniteSet(S) /\ Cardinality(S) <= Cardinality(timestamps[windows[k]])
        BY <2>0, <2>2, FS_Subset
    <2>4. Cardinality(S) \in Nat /\ Cardinality(timestamps[windows[k]]) \in Nat /\ Limit \in Nat
        BY <2>2, <2>3, FS_CardinalityType, RateAssumption
    <2> QED
        BY <2>2, <2>3, <2>4
<1> QED
    BY <1>1, <1>2

\* For every limit, window and delay, at no moment have more than limit requests
\* of a key been admitted with readings in the window that ends then, and no window
\* at all has more than limit admissions that were in time, under any interleaving
\* of requests.  Left out are the admissions that the janitor made the map forget,
\* and, for windows that have ended, those overtaken by a later reading.
THEOREM RateIsBounded == Spec => []RateBound
BY RateInvariant, IInvRateBound, PTL

\* A refusal counts timestamps of the request's own key that are recent enough.
LEMMA NextJustlyRefused ==
    IInv /\ [Next]_vars => JustlyRefused
<1> SUFFICES ASSUME IInv, [Next]_vars, NEW r \in Requests,
                    requests[r].pc = "clock", requests'[r].pc = "refused"
             PROVE  Cardinality({i \in DOMAIN admitted[requests[r].key] :
                       admitted[requests[r].key][i].age < requests[r].now + Window}) >= Limit
    BY DEF JustlyRefused
<1>1. requests \in [Requests -> RequestType]
    BY DEF IInv, RateTypeOK
<1>3. Allow(r) /\ Cardinality(Valid(r)) >= Limit
    <2>1. CASE UNCHANGED vars
        BY <2>1 DEF vars
    <2>2. ASSUME NEW q \in Requests, NEW k \in Keys, LoadOrStore(q, k) PROVE FALSE
        <3>1. requests[q].pc = "idle"
            BY <2>2, Zenon DEF LoadOrStore
        <3>2. q # r
            BY <3>1
        <3>3. requests'[r] = requests[r]
            BY <1>1, <2>2, <3>2, Zenon DEF LoadOrStore
        <3> QED
            BY <3>3
    <2>3. ASSUME NEW q \in Requests, ReadClock(q) PROVE FALSE
        BY <1>1, <2>3 DEF ReadClock
    <2>4. ASSUME NEW q \in Requests, Allow(q) PROVE q = r /\ Cardinality(Valid(r)) >= Limit
        <3>1. q = r
            BY <1>1, <2>4 DEF Allow, Answered
        <3>2. CASE ~ (Cardinality(Valid(r)) >= Limit)
            <4>1. Answered(r, "admitted")
                BY <2>4, <3>1, <3>2 DEF Allow
            <4> QED
                BY <1>1, <4>1 DEF Answered, RequestType
        <3> QED
            BY <3>1, <3>2
    <2>5. ASSUME NEW q \in Requests, Respond(q) PROVE FALSE
        BY <1>1, <2>5 DEF Respond
    <2>6. ASSUME NEW k \in Keys, JanitorFindsIdle(k) PROVE FALSE
        BY <2>6 DEF JanitorFindsIdle
    <2>7. CASE JanitorDeletes
        BY <2>7 DEF JanitorDeletes
    <2>8. CASE Tick
        BY <1>1, <2>8 DEF Tick, RequestType
    <2> QED
        BY <2>1, <2>2, <2>3, <2>4, <2>5, <2>6, <2>7, <2>8 DEF Next
<1> PICK k : k = requests[r].key
    OBVIOUS
<1> PICK w : w = requests[r].window
    OBVIOUS
<1> PICK S : S = {i \in DOMAIN admitted[k] : admitted[k][i].age < requests[r].now + Window}
    BY Zenon
<1>4. k \in Keys /\ w \in Windows /\ Holds(w, k) /\ admitted[k] \in Seq(AdmissionType)
    BY DEF IInv, RateTypeOK, Holds
<1>5. timestamps[w] \subseteq DOMAIN admitted[k]
    BY <1>4 DEF IInv, WindowInv
<1>6. Valid(r) \subseteq S
    BY <1>5 DEF Valid
<1>7. IsFiniteSet(DOMAIN admitted[k])
    <2>1. DOMAIN admitted[k] = 1 .. Len(admitted[k]) /\ Len(admitted[k]) \in Int
        BY <1>4, LenProperties
    <2> QED
        BY <2>1, FS_Interval
<1>8. IsFiniteSet(S)
    BY <1>7, FS_Subset
<1>9. IsFiniteSet(Valid(r)) /\ Cardinality(Valid(r)) <= Cardinality(S)
    BY <1>6, <1>8, FS_Subset
<1>10. Cardinality(S) \in Nat /\ Cardinality(Valid(r)) \in Nat /\ Limit \in Nat
    BY <1>8, <1>9, FS_CardinalityType, RateAssumption
<1> QED
    BY <1>3, <1>9, <1>10

\* For every limit and window, a request is refused only when limit requests
\* of its own key were admitted within the window before its clock reading: a
\* window recycled by the janitor never refuses on another key's account.
THEOREM RefusalsAreJustified == Spec => RefusalJustified
BY RateInvariant, NextJustlyRefused, PTL DEF Spec, RefusalJustified
=============================================================================
