--------------------------- MODULE CatalogProofs ---------------------------
(***************************************************************************)
(* The catalogue for any number of concurrent requests, any tables at the     *)
(* start and any page size: rows refer to rows that exist, updates replace     *)
(* sets, prompts and pages are true, and a walk through the pages skips        *)
(* nothing.                                                                  *)
(***************************************************************************)
EXTENDS Catalog, FiniteSetTheorems, TLAPS

Messages == [role : {"user", "assistant"}, by : Requests]
IsSeq(s) == s \in Seq(Range(s))
SubmissionRow ==
    {row \in [problem : Nat, kind : {"submit", "run"}, accepted : BOOLEAN, once : BOOLEAN] :
        row.accepted => row.once}

RowsInv ==
    /\ CatalogTypeOK
    /\ born \in Nat /\ DOMAIN links = Kinds
    /\ \A p \in Problems : /\ DOMAIN problems[p] = {"slug", "visibility"}
                           /\ hints[p] \in Seq(Messages)
    /\ \A t \in DOMAIN tests : DOMAIN tests[t] = {"problem", "active", "hidden"}
    /\ IsFiniteSet(DOMAIN submissions)
    /\ \A s \in DOMAIN submissions :
          submissions[s] \in SubmissionRow

\* An update in progress: what is in the set by now is what it is going to
\* delete or others committed since it began; and of what it asks for, what it
\* has dealt with is inserted, or was there and is there still or was undone.
Updating(r) ==
    r.pc \in {"deleting", "insert"} =>
        /\ r.kind \in Kinds /\ IsSeq(r.rest)
        /\ r.inserted \subseteq IF r.kind = "tags" THEN tags ELSE DOMAIN languages
        /\ r.inserted \subseteq Range(r.list) /\ Range(r.rest) \subseteq Range(r.list)
        /\ r.pc = "deleting" => r.rest = r.list /\ r.inserted = {}
        /\ r.p \in Problems /\ r.pc = "deleting" =>
              links[r.kind][r.p] \subseteq r.snap \cup r.since
        /\ r.p \in Problems /\ r.pc = "insert" =>
              /\ links[r.kind][r.p] \ r.deleted \subseteq r.since
              /\ Range(r.list) \subseteq Range(r.rest) \cup r.inserted \cup
                    IF r.kind = "tags" THEN {}
                                       ELSE (links[r.kind][r.p] \ r.deleted) \cup r.undone

Agree(s, n, t) == n <= Len(t) /\ \A i \in 1 .. n : s[i] = t[i]

\* A hint request q: its question is nowhere before it is saved, and the prompt
\* agrees with the conversation up to the question.
Hinting(q, r) ==
    /\ r.pc \in {"idle", "save"} =>
          \A p \in Problems : \A i \in DOMAIN hints[p] : hints[p][i].by # q
    /\ r.pc = "save" =>
          /\ r.prompt \in Seq(Messages)
          /\ \A i \in DOMAIN r.prompt : r.prompt[i].by # q
          /\ r.p \in Problems => Agree(r.prompt, Len(r.prompt), hints[r.p])
    /\ r.pc \in {"ask", "reply"} =>
          /\ r.prompt \in Seq(Messages) /\ Len(r.prompt) > 0
          /\ r.prompt[Len(r.prompt)] = Question(q)
          /\ \A i \in DOMAIN r.prompt : r.prompt[i].by = q => i = Len(r.prompt)
          /\ r.p \in Problems => Agree(r.prompt, Len(r.prompt) - 1, hints[r.p])

RequestOK(q, r) ==
    /\ DOMAIN r = DOMAIN NoRequest
    /\ r.visibility \in Visibility /\ r.p \in 0 .. born
    /\ Updating(r) /\ Hinting(q, r)

Accepted(p) == \E s \in Judged(p) : submissions[s].once

\* What the client has been told of solved problems and rates.
Grounded(w) ==
    /\ w.solved \subseteq w.found
    /\ \A p \in w.solved : p \in 1 .. born /\ (p \in Problems => Accepted(p))
    /\ \A p \in DOMAIN w.rates :
          /\ p \in 1 .. born
          /\ w.rates[p][1] \in Nat /\ w.rates[p][2] \in Nat
          /\ w.rates[p][1] <= w.rates[p][2] /\ w.rates[p][2] > 0
          /\ p \in Problems /\ w.rates[p][1] > 0 => Accepted(p)

\* Where a problem is that the walk has still to see: not before the page it
\* asks for and, once the page is there, on it or after it.
Awaited(w, p) ==
    LET rank == Rank(p, Matching(w.filter)) IN
    /\ p \in Matching(w.filter)
    /\ rank > (w.page - 1) * PageSize
    /\ w.pc = "list" \/ p \in w.found \/ rank > w.page * PageSize
    /\ w.pc \in {"list", "count"} \/ p \in w.found \/ w.total > w.page * PageSize
    /\ w.pc # "done"

WalkOK(w) ==
    /\ DOMAIN w = DOMAIN NoWalk
    /\ w.pc \in {"start", "list", "count", "tags", "rates", "solved", "reply", "done"}
    /\ w.page \in Nat \ {0} /\ w.total \in Nat
    /\ Grounded(w)
    /\ w.pc = "start" \/ removed \/ \A p \in w.expect : p \in w.seen \/ Awaited(w, p)
    /\ w.pc = "start" => w.page = 1

IInv ==
    /\ RowsInv
    /\ DOMAIN requests = Requests
    /\ \A q \in Requests : RequestOK(q, requests[q])
    /\ WalkOK(walk) /\ removed \in BOOLEAN
-----------------------------------------------------------------------------
\* A list is a function on the positions up to its length.
LEMMA ListLength ==
    ASSUME NEW S, NEW s \in Seq(S)
    PROVE  Len(s) \in Nat /\ s \in [1 .. Len(s) -> S] /\ DOMAIN s = 1 .. Len(s)
OBVIOUS

\* Appending adds one position, the last, and leaves the others.
LEMMA ListAppend ==
    ASSUME NEW S, NEW s \in Seq(S), NEW e \in S
    PROVE  /\ Append(s, e) \in Seq(S) /\ Len(Append(s, e)) = Len(s) + 1
           /\ Append(s, e)[Len(s) + 1] = e
           /\ \A i \in 1 .. Len(s) : Append(s, e)[i] = s[i]
OBVIOUS

\* A sequence over any set is one over its own elements.
LEMMA SeqOfItsElements ==
    ASSUME NEW S, NEW s \in Seq(S)
    PROVE  IsSeq(s)
<1>1. Len(s) \in Nat /\ s \in [1 .. Len(s) -> S] /\ DOMAIN s = 1 .. Len(s)
    BY ListLength, Zenon
<1>2. \A i \in 1 .. Len(s) : s[i] \in Range(s)
    BY <1>1, Zenon DEF Range
<1>3. s \in [1 .. Len(s) -> Range(s)]
    BY <1>1, <1>2, Zenon
<1> QED
    BY <1>1, <1>3 DEF IsSeq

\* The elements of a list are its first and those of the rest.
LEMMA HeadAndRest ==
    ASSUME NEW s, IsSeq(s), s # <<>>
    PROVE  IsSeq(Tail(s)) /\ Range(s) = Range(Tail(s)) \cup {Head(s)}
<1> PICK S : S = Range(s)
    BY Zenon
<1>1. s \in Seq(S)
    BY Zenon DEF IsSeq
<1>2. /\ Tail(s) \in Seq(S) /\ Len(Tail(s)) = Len(s) - 1
      /\ \A i \in 1 .. Len(Tail(s)) : Tail(s)[i] = s[i + 1]
    BY <1>1
<1>3. /\ Len(s) \in Nat /\ Len(s) > 0 /\ DOMAIN s = 1 .. Len(s) /\ Head(s) = s[1]
    BY <1>1, ListLength
<1>4. DOMAIN Tail(s) = 1 .. Len(s) - 1
    BY <1>2, ListLength, Zenon
<1>5. ASSUME NEW i \in 1 .. Len(s) PROVE s[i] \in Range(Tail(s)) \cup {Head(s)}
    <2>1. CASE i = 1
        BY <1>3, <2>1, Zenon
    <2>2. CASE i # 1
        <3>1. i - 1 \in 1 .. Len(s) - 1 /\ (i - 1) + 1 = i
            BY <1>3, <2>2
        <3>2. Tail(s)[i - 1] = s[i]
            BY <1>2, <3>1, Zenon
        <3> QED
            BY <1>4, <3>1, <3>2, Zenon DEF Range
    <2> QED
        BY <2>1, <2>2, Zenon
<1>6. ASSUME NEW i \in 1 .. Len(s) - 1 PROVE Tail(s)[i] \in Range(s)
    <2>1. i + 1 \in 1 .. Len(s)
        BY <1>3
    <2> QED
        BY <1>2, <1>3, <2>1, Zenon DEF Range
<1>7. Head(s) \in Range(s)
    BY <1>3 DEF Range
<1>8. Range(s) = Range(Tail(s)) \cup {Head(s)}
    BY <1>3, <1>4, <1>5, <1>6, <1>7, ZenonT(40) DEF Range
<1> QED
    BY <1>2, <1>8, SeqOfItsElements, Zenon

\* Deduplicating a list gives a list.
LEMMA DedupIsSeq ==
    ASSUME NEW list, IsSeq(list)
    PROVE  IsSeq(Dedup(list))
<1> PICK F : F = Firsts(list)
    BY Zenon
<1>1. Len(list) \in Nat /\ DOMAIN list = 1 .. Len(list)
    BY ListLength, Zenon DEF IsSeq
<1>2. IsFiniteSet(1 .. Len(list)) /\ F \in SUBSET (1 .. Len(list))
    BY <1>1, FS_Interval DEF Firsts
<1>3. IsFiniteSet(F) /\ Cardinality(F) \in Nat
    BY <1>2, FS_Subset, FS_CardinalityType, Zenon
<1> PICK n : n = Cardinality(F)
    BY Zenon
<1> PICK d : d = Dedup(list)
    BY Zenon
<1>4. d = [m \in 1 .. n |-> list[Place(m, F)]]
    BY Zenon DEF Dedup, Pick
<1>5. DOMAIN d = 1 .. n
    BY <1>4, Zenon
<1>6. d \in [1 .. n -> Range(d)]
    BY <1>4, <1>5, Zenon DEF Range
<1> QED
    BY <1>3, <1>6 DEF IsSeq

\* A set of row ids is finite.
LEMMA FiniteIds ==
    ASSUME NEW n \in Nat, NEW S \in SUBSET (1 .. n)
    PROVE  IsFiniteSet(S) /\ Cardinality(S) \in Nat
<1>1. IsFiniteSet(1 .. n)
    BY FS_Interval
<1> QED
    BY <1>1, FS_Subset, FS_CardinalityType, Zenon

\* Every request that has ended, or has not begun, is in order.
LEMMA RestingOK ==
    ASSUME RowsInv, NEW q \in Requests
    PROVE  RequestOK(q, Done)
<1>1. Done.pc = "done" /\ Done.visibility = "draft" /\ Done.p = 0 /\ DOMAIN Done = DOMAIN NoRequest
    BY Zenon DEF Done, NoRequest
<1>2. Updating(Done) /\ Hinting(q, Done)
    BY <1>1, Zenon DEF Updating, Hinting
<1>3. 0 \in 0 .. born
    BY DEF RowsInv
<1> QED
    BY <1>1, <1>2, <1>3, Zenon DEF RequestOK, Visibility

\* The tables at the start are in order, no request and no walk has begun.
LEMMA InitIInv == Init => IInv
<1> SUFFICES ASSUME Init PROVE IInv
    BY Zenon
<1>1. /\ Problems = DOMAIN Seed /\ born = Len(Seed) /\ DOMAIN links = Kinds /\ DOMAIN hints = Problems
      /\ \A kind \in Kinds : links[kind] = [p \in DOMAIN Seed |-> Seed[p][kind]]
    BY Zenon DEF Init, Problems
<1>2. \A p \in Problems : hints[p] = <<>>
    BY <1>1, Zenon DEF Init
<1>3. \A p \in Problems : /\ problems[p].slug = Seed[p].slug
                           /\ problems[p].visibility = Seed[p].visibility
                           /\ DOMAIN problems[p] = {"slug", "visibility"}
    BY <1>1, Zenon DEF Init
<1>4. Problems = DOMAIN Seed
    BY <1>1, Zenon
<1>5. \A kind \in Kinds : \A p \in DOMAIN Seed :
         links[kind][p] \subseteq IF kind = "tags" THEN tags ELSE DOMAIN languages
    <2>1. \A p \in DOMAIN Seed : Seed[p].tags \subseteq tags /\ Seed[p].languages \subseteq DOMAIN languages
        BY Zenon DEF Init
    <2> QED
        BY <1>1, <2>1, ZenonT(40) DEF Kinds
<1>6. \A t \in DOMAIN tests : tests[t].problem \in DOMAIN Seed /\ DOMAIN tests[t] = {"problem", "active", "hidden"}
    BY Zenon DEF Init
<1>7. submissions = <<>> /\ DOMAIN submissions = {}
    BY DEF Init
<1>8. CatalogTypeOK
    <2>1. \A p \in Problems : problems[p].visibility \in Visibility
        BY <1>3, <1>4, CatalogAssumption, ZenonT(40)
    <2>2. \A p, o \in Problems : p # o => problems[p].slug # problems[o].slug
        BY <1>3, <1>4, CatalogAssumption
    <2>3. \A p \in Problems : links["tags"][p] \subseteq tags /\ links["languages"][p] \subseteq DOMAIN languages
        BY <1>1, <1>5, Zenon DEF Kinds
    <2> QED
        BY <1>1, <1>6, <1>7, <2>1, <2>2, <2>3, CatalogAssumption, Zenon DEF CatalogTypeOK
<1>9. RowsInv
    <2>1. IsFiniteSet(DOMAIN submissions)
        BY <1>7, FS_EmptySet, Zenon
    <2>2. \A p \in Problems : DOMAIN problems[p] = {"slug", "visibility"} /\ hints[p] \in Seq(Messages)
        <3>1. <<>> \in Seq(Messages)
            OBVIOUS
        <3> QED
            BY <1>2, <1>3, <3>1, Zenon
    <2> QED
        BY <1>1, <1>6, <1>7, <1>8, <2>1, <2>2, CatalogAssumption, ZenonT(40) DEF RowsInv
<1>10. DOMAIN requests = Requests /\ \A q \in Requests : requests[q] = NoRequest
    BY Zenon DEF Init
<1>11. ASSUME NEW q \in Requests PROVE RequestOK(q, NoRequest)
    <2>1. NoRequest.pc = "idle" /\ NoRequest.visibility = "draft" /\ NoRequest.p = 0
        BY Zenon DEF NoRequest
    <2>2. Updating(NoRequest)
        BY <2>1, Zenon DEF Updating
    <2>3. \A p \in Problems : DOMAIN hints[p] = {}
        BY <1>2
    <2>4. Hinting(q, NoRequest)
        BY <2>1, <2>3, Zenon DEF Hinting
    <2> QED
        BY <1>9, <2>1, <2>2, <2>4 DEF RequestOK, Visibility, RowsInv
<1>12. WalkOK(walk) /\ removed = FALSE
    <2>1. walk = NoWalk /\ removed = FALSE
        BY Zenon DEF Init
    <2>2. /\ NoWalk.pc = "start" /\ NoWalk.page = 1 /\ NoWalk.total = 0 /\ NoWalk.solved = {}
          /\ DOMAIN NoWalk.rates = {}
        BY DEF NoWalk
    <2>3. Grounded(NoWalk)
        BY <2>2, Zenon DEF Grounded
    <2> QED
        BY <2>1, <2>2, <2>3 DEF WalkOK
<1> QED
    BY <1>9, <1>10, <1>11, <1>12, ZenonT(40) DEF IInv
-----------------------------------------------------------------------------
(* What a step of request q leaves alone.                                    *)

\* Ids are never used twice, and tags and languages stay.
Grows ==
    /\ born' \in Nat /\ born <= born'
    /\ \A p \in Problems' : p \in Problems \/ p > born
    /\ tags \subseteq tags' /\ DOMAIN languages \subseteq (DOMAIN languages)'

LinksKept ==
    \A kind \in Kinds : \A p \in Problems : p \in Problems' => links'[kind][p] = links[kind][p]

\* Conversations only get longer, by messages of q.
HintsKept(q) ==
    \A p \in Problems' :
        IF p \in Problems
        THEN \/ hints'[p] = hints[p]
             \/ \E m \in Messages : m.by = q /\ hints'[p] = Append(hints[p], m)
        ELSE hints'[p] = <<>>

\* Submissions go only with their problem, and what was once accepted stays so.
SubmissionsKept ==
    \A s \in DOMAIN submissions : submissions[s].problem \in Problems' =>
        /\ s \in DOMAIN submissions'
        /\ submissions'[s].problem = submissions[s].problem
        /\ submissions'[s].kind = submissions[s].kind
        /\ submissions[s].once => submissions'[s].once

\* A step that leaves problems, tags and languages alone takes nothing back.
LEMMA NothingMoved ==
    ASSUME born \in Nat, Problems' = Problems, UNCHANGED <<born, tags, languages>>, NEW q
    PROVE  /\ Grows
           /\ UNCHANGED links => LinksKept
           /\ UNCHANGED hints => HintsKept(q)
<1>1. born' \in Nat /\ born <= born'
    OBVIOUS
<1>2. Grows
    BY <1>1, Zenon DEF Grows
<1>3. UNCHANGED links => LinksKept
    BY Zenon DEF LinksKept
<1>4. UNCHANGED hints => HintsKept(q)
    BY Zenon DEF HintsKept
<1> QED
    BY <1>2, <1>3, <1>4, Zenon

\* An update in progress is not disturbed while its set stays as it is.
LEMMA UpdatingKept ==
    ASSUME RowsInv, Grows, LinksKept, NEW r, Updating(r), r.p \in 0 .. born
    PROVE  Updating(r)'
<1> SUFFICES ASSUME r.pc \in {"deleting", "insert"}
             PROVE  Updating(r)'
    BY Zenon DEF Updating
<1>1. r.kind \in Kinds
    BY Zenon DEF Updating
<1>2. r.p \in Problems' => r.p \in Problems
    BY DEF Grows, RowsInv
<1>3. r.p \in Problems' => links'[r.kind][r.p] = links[r.kind][r.p]
    BY <1>1, <1>2, Zenon DEF LinksKept
<1>4. r.inserted \subseteq (IF r.kind = "tags" THEN tags ELSE DOMAIN languages)'
    BY Zenon DEF Updating, Grows
<1> QED
    BY <1>1, <1>2, <1>3, <1>4, Zenon DEF Updating

\* Nor is a hint request by the messages of others.
LEMMA HintingKept ==
    ASSUME RowsInv, Grows, NEW q, HintsKept(q), NEW o \in Requests, o # q,
           NEW r, Hinting(o, r), r.p \in 0 .. born
    PROVE  Hinting(o, r)'
<1>1. ASSUME NEW p \in Problems', p \in Problems
      PROVE  /\ Len(hints[p]) \in Nat /\ Len(hints'[p]) \in Nat
             /\ DOMAIN hints[p] = 1 .. Len(hints[p]) /\ DOMAIN hints'[p] = 1 .. Len(hints'[p])
             /\ Len(hints[p]) <= Len(hints'[p])
             /\ \A i \in DOMAIN hints[p] : hints'[p][i] = hints[p][i]
             /\ \A i \in DOMAIN hints'[p] \ DOMAIN hints[p] : hints'[p][i].by = q
    <2>1. hints[p] \in Seq(Messages)
        BY <1>1, Zenon DEF RowsInv
    <2>2. Len(hints[p]) \in Nat /\ DOMAIN hints[p] = 1 .. Len(hints[p])
        BY <2>1, ListLength, Zenon
    <2>3. CASE hints'[p] = hints[p]
        BY <2>2, <2>3
    <2>4. ASSUME NEW m \in Messages, m.by = q, hints'[p] = Append(hints[p], m)
          PROVE  /\ hints'[p] \in Seq(Messages) /\ Len(hints'[p]) = Len(hints[p]) + 1
                 /\ \A i \in 1 .. Len(hints[p]) : hints'[p][i] = hints[p][i]
                 /\ hints'[p][Len(hints[p]) + 1].by = q
        BY <2>1, <2>4, ListAppend
    <2>5. CASE hints'[p] # hints[p]
        <3>1. PICK m \in Messages : m.by = q /\ hints'[p] = Append(hints[p], m)
            BY <1>1, <2>5, Zenon DEF HintsKept
        <3>2. /\ hints'[p] \in Seq(Messages) /\ Len(hints'[p]) = Len(hints[p]) + 1
              /\ \A i \in 1 .. Len(hints[p]) : hints'[p][i] = hints[p][i]
              /\ hints'[p][Len(hints[p]) + 1].by = q
            BY <2>4, <3>1, Zenon
        <3>3. DOMAIN hints'[p] = 1 .. Len(hints[p]) + 1
            BY <3>2, ListLength, Zenon
        <3> QED
            BY <2>2, <3>2, <3>3
    <2> QED
        BY <2>3, <2>5, Zenon
<1>2. r.p \in Problems' => r.p \in Problems
    BY DEF Grows, RowsInv
<1>3. ASSUME NEW n, n \in Int, r.p \in Problems', Agree(r.prompt, n, hints[r.p])
      PROVE  Agree(r.prompt, n, hints'[r.p])
    BY <1>1, <1>2, <1>3 DEF Agree
<1>4. r.pc \in {"idle", "save"} =>
         \A p \in Problems' : \A i \in DOMAIN hints'[p] : hints'[p][i].by # o
    <2> SUFFICES ASSUME r.pc \in {"idle", "save"}, NEW p \in Problems', NEW i \in DOMAIN hints'[p]
                 PROVE  hints'[p][i].by # o
        BY Zenon
    <2>1. CASE p \in Problems
        BY <1>1, <2>1 DEF Hinting
    <2>2. CASE p \notin Problems
        BY <2>2 DEF HintsKept
    <2> QED
        BY <2>1, <2>2, Zenon
<1>5. r.pc = "save" => (r.p \in Problems' => Agree(r.prompt, Len(r.prompt), hints'[r.p]))
    <2>1. r.pc = "save" => Len(r.prompt) \in Int
        BY ListLength DEF Hinting
    <2> QED
        BY <1>2, <1>3, <2>1, ZenonT(40) DEF Hinting
<1>6. r.pc \in {"ask", "reply"} =>
          (r.p \in Problems' => Agree(r.prompt, Len(r.prompt) - 1, hints'[r.p]))
    <2>1. r.pc \in {"ask", "reply"} => Len(r.prompt) - 1 \in Int
        BY ListLength DEF Hinting
    <2> QED
        BY <1>2, <1>3, <2>1, ZenonT(40) DEF Hinting
<1>7. (r.pc = "save" => (r.p \in Problems => Agree(r.prompt, Len(r.prompt), hints[r.p])))'
    BY <1>5, Zenon
<1>8. (r.pc \in {"ask", "reply"} =>
          (r.p \in Problems => Agree(r.prompt, Len(r.prompt) - 1, hints[r.p])))'
    BY <1>6, Zenon
<1> QED
    BY <1>4, <1>7, <1>8, Zenon DEF Hinting

\* The other requests are in order after a step of q.
LEMMA OthersKept ==
    ASSUME IInv, Grows, LinksKept, NEW q, HintsKept(q), NEW o \in Requests, o # q
    PROVE  RequestOK(o, requests[o])'
           \/ requests'[o] # requests[o]
<1> SUFFICES ASSUME requests'[o] = requests[o] PROVE RequestOK(o, requests[o])'
    BY Zenon
<1> PICK r : r = requests[o]
    BY Zenon
<1>1. RequestOK(o, r) /\ RowsInv
    BY Zenon DEF IInv
<1>2. Updating(r)' /\ Hinting(o, r)'
    BY <1>1, UpdatingKept, HintingKept, ZenonT(40) DEF RequestOK
<1>3. r.p \in 0 .. born'
    BY <1>1 DEF RequestOK, Grows, RowsInv
<1>4. RequestOK(o, r)'
    BY <1>1, <1>2, <1>3, ZenonT(40) DEF RequestOK
<1> QED
    BY <1>4, Zenon

\* What the client was told stays true.
LEMMA GroundedKept ==
    ASSUME RowsInv, Grows, SubmissionsKept, NEW w, Grounded(w)
    PROVE  Grounded(w)'
<1>1. ASSUME NEW p \in 1 .. born PROVE p \in 1 .. born'
    BY DEF Grows, RowsInv
<1>2. ASSUME NEW p \in 1 .. born, p \in Problems' PROVE p \in Problems
    BY <1>2 DEF Grows, RowsInv
<1>3. ASSUME NEW p \in 1 .. born, p \in Problems', Accepted(p) PROVE Accepted(p)'
    <2>1. PICK s \in DOMAIN submissions : /\ submissions[s].problem = p /\ submissions[s].kind = "submit"
                                          /\ submissions[s].once
        BY <1>3, Zenon DEF Accepted, Judged
    <2>2. /\ s \in DOMAIN submissions' /\ submissions'[s].problem = p /\ submissions'[s].kind = "submit"
          /\ submissions'[s].once
        BY <1>3, <2>1, Zenon DEF SubmissionsKept
    <2> QED
        BY <2>2, Zenon DEF Accepted, Judged
<1>4. \A p \in w.solved : p \in 1 .. born' /\ (p \in Problems' => Accepted(p)')
    BY <1>1, <1>2, <1>3, ZenonT(40) DEF Grounded
<1>5. \A p \in DOMAIN w.rates :
         /\ p \in 1 .. born'
         /\ w.rates[p][1] \in Nat /\ w.rates[p][2] \in Nat
         /\ w.rates[p][1] <= w.rates[p][2] /\ w.rates[p][2] > 0
         /\ p \in Problems' /\ w.rates[p][1] > 0 => Accepted(p)'
    BY <1>1, <1>2, <1>3, Zenon DEF Grounded
<1>6. w.solved \subseteq w.found
    BY Zenon DEF Grounded
<1> QED
    BY <1>4, <1>5, <1>6, Zenon DEF Grounded

\* More rows in the listing only move a problem towards later pages.
LEMMA RankGrows ==
    ASSUME NEW S, NEW T, S \subseteq T, IsFiniteSet(T), NEW p
    PROVE  /\ Rank(p, S) \in Nat /\ Rank(p, T) \in Nat /\ Rank(p, S) <= Rank(p, T)
           /\ Cardinality(T) \in Nat /\ Rank(p, T) <= Cardinality(T)
<1> PICK A : A = {o \in S : o >= p}
    BY Zenon
<1> PICK B : B = {o \in T : o >= p}
    BY Zenon
<1>1. A \subseteq B /\ B \subseteq T
    BY Zenon
<1>2. IsFiniteSet(B) /\ Cardinality(B) <= Cardinality(T)
    BY <1>1, FS_Subset, Zenon
<1>3. IsFiniteSet(A) /\ Cardinality(A) <= Cardinality(B)
    BY <1>1, <1>2, FS_Subset, Zenon
<1>4. Cardinality(A) \in Nat /\ Cardinality(B) \in Nat /\ Cardinality(T) \in Nat
    BY <1>2, <1>3, FS_CardinalityType, ZenonT(40)
<1> QED
    BY <1>2, <1>3, <1>4, Zenon DEF Rank

\* A problem that the walk has still to see stays ahead of it.
LEMMA AwaitedKept ==
    ASSUME RowsInv, RowsInv', NEW w, w.page \in Nat \ {0},
           Matching(w.filter) \subseteq Matching(w.filter)',
           NEW p, Awaited(w, p)
    PROVE  Awaited(w, p)'
<1> PICK S : S = Matching(w.filter)
    BY Zenon
<1> PICK T : T = Matching(w.filter)'
    BY Zenon
<1>1. IsFiniteSet(T)
    <2>1. born' \in Nat /\ T \in SUBSET (1 .. born')
        BY Zenon DEF RowsInv, CatalogTypeOK, Matching
    <2> QED
        BY <2>1, FiniteIds, Zenon
<1>2. Rank(p, S) \in Nat /\ Rank(p, T) \in Nat /\ Rank(p, S) <= Rank(p, T)
    BY <1>1, RankGrows, ZenonT(40)
<1>3. (w.page - 1) * PageSize \in Int /\ w.page * PageSize \in Int
    BY CatalogAssumption
<1> PICK a : a = (w.page - 1) * PageSize
    BY Zenon
<1> PICK b : b = w.page * PageSize
    BY Zenon
<1>4. /\ p \in S /\ Rank(p, S) > a
      /\ w.pc = "list" \/ p \in w.found \/ Rank(p, S) > b
      /\ w.pc \in {"list", "count"} \/ p \in w.found \/ w.total > b
      /\ w.pc # "done"
    BY ZenonT(40) DEF Awaited
<1>5. p \in T /\ Rank(p, T) > a /\ (Rank(p, S) > b => Rank(p, T) > b)
    BY <1>2, <1>3, <1>4
<1>6. Rank(p, T) = Rank(p, Matching(w.filter))'
    BY Zenon DEF Rank
<1> QED
    BY <1>4, <1>5, <1>6, ZenonT(40) DEF Awaited

\* The walk is in order after a step that is not its own.
LEMMA WalkKept ==
    ASSUME IInv, RowsInv', Grows, SubmissionsKept, UNCHANGED walk, TrackRemoval
    PROVE  WalkOK(walk)' /\ removed' \in BOOLEAN
<1> PICK w : w = walk
    BY Zenon
<1>1. RowsInv /\ WalkOK(w) /\ w.page \in Nat \ {0}
    BY Zenon DEF IInv, WalkOK
<1>2. Grounded(w)'
    BY <1>1, GroundedKept, Zenon DEF WalkOK
<1>3. removed' \in BOOLEAN
    BY Zenon DEF TrackRemoval
<1>4. w.pc = "start" \/ removed' \/ \A p \in w.expect : p \in w.seen \/ Awaited(w, p)'
    <2> SUFFICES ASSUME w.pc # "start", ~ removed', NEW p \in w.expect, p \notin w.seen
                 PROVE  Awaited(w, p)'
        BY Zenon
    <2>1. ~ removed /\ Matching(w.filter) \subseteq Matching(w.filter)'
        BY Zenon DEF TrackRemoval, IInv
    <2>2. Awaited(w, p)
        BY <1>1, <2>1, Zenon DEF WalkOK
    <2> QED
        BY <1>1, <2>1, <2>2, AwaitedKept, ZenonT(40)
<1>5. WalkOK(w)'
    BY <1>1, <1>2, <1>4, Zenon DEF WalkOK
<1> QED
    BY <1>3, <1>5, Zenon

\* A step of request q that leaves the tables in order and lets the others be.
LEMMA StepOf ==
    ASSUME IInv, NEW q \in Requests, NEW x, requests' = [requests EXCEPT ![q] = x],
           RowsInv', RequestOK(q, x)', Grows, LinksKept, HintsKept(q), SubmissionsKept,
           WalkOK(walk)', removed' \in BOOLEAN
    PROVE  IInv'
<1>1. DOMAIN requests = Requests
    BY Zenon DEF IInv
<1>2. (DOMAIN requests = Requests)' /\ requests'[q] = x /\ \A o \in Requests \ {q} : requests'[o] = requests[o]
    BY <1>1, Zenon
<1>3. ASSUME NEW o \in Requests PROVE RequestOK(o, requests[o])'
    <2>1. CASE o = q
        BY <1>2, <2>1, Zenon
    <2>2. CASE o # q
        BY <1>2, <2>2, OthersKept, Zenon
    <2> QED
        BY <2>1, <2>2, Zenon
<1> QED
    BY <1>2, <1>3, Zenon DEF IInv

\* When no row changes, nothing that depends on rows does.
LEMMA RowsSame ==
    ASSUME IInv, UNCHANGED rows
    PROVE  /\ RowsInv' /\ Grows /\ LinksKept /\ SubmissionsKept
           /\ \A q : HintsKept(q)
           /\ \A q, r : RequestOK(q, r) => RequestOK(q, r)'
           /\ \A f : Matching(f)' = Matching(f)
<1>1. /\ UNCHANGED <<problems, born, tags, languages, links, tests, submissions, hints>>
      /\ Problems' = Problems
    BY Zenon DEF rows, Problems
<1>2. RowsInv
    BY Zenon DEF IInv
<1>3. RowsInv'
    BY <1>1, <1>2, ZenonT(40) DEF RowsInv, CatalogTypeOK
<1>4. Grows
    BY <1>1, <1>2 DEF Grows, RowsInv
<1>5. LinksKept /\ SubmissionsKept /\ \A q : HintsKept(q)
    BY <1>1, ZenonT(40) DEF LinksKept, SubmissionsKept, HintsKept
<1>6. \A r : Updating(r) => Updating(r)'
    BY <1>1, Zenon DEF Updating
<1>7. \A q, r : Hinting(q, r) => Hinting(q, r)'
    BY <1>1, ZenonT(40) DEF Hinting
<1>8. \A q, r : RequestOK(q, r) => RequestOK(q, r)'
    BY <1>1, <1>6, <1>7, Zenon DEF RequestOK
<1>9. \A f : Matching(f)' = Matching(f)
    BY <1>1, Zenon DEF Matching
<1> QED
    BY <1>3, <1>4, <1>5, <1>8, <1>9, ZenonT(40)

\* A step that changes only what request q remembers.
LEMMA QuietStep ==
    ASSUME IInv, UNCHANGED <<rows, walk>>, TrackRemoval,
           NEW q \in Requests, NEW x, requests' = [requests EXCEPT ![q] = x], RequestOK(q, x)
    PROVE  IInv'
<1>1. UNCHANGED rows /\ UNCHANGED walk
    BY Zenon
<1>2. /\ RowsInv' /\ Grows /\ LinksKept /\ SubmissionsKept /\ HintsKept(q)
      /\ RequestOK(q, x)'
    BY <1>1, RowsSame, Zenon
<1>3. WalkOK(walk)' /\ removed' \in BOOLEAN
    BY <1>1, <1>2, WalkKept, Zenon
<1> QED
    BY <1>2, <1>3, StepOf, Zenon
-----------------------------------------------------------------------------
(* Steps that change only what a request remembers.                          *)

\* A request that neither updates a set nor asks for a hint.
LEMMA PlainOK ==
    ASSUME NEW q, NEW r, DOMAIN r = DOMAIN NoRequest, r.visibility \in Visibility,
           r.p \in 0 .. born, r.pc \in {"create", "gaveup", "cascade", "tag", "done"}
    PROVE  RequestOK(q, r)
<1>1. Updating(r)
    BY Zenon DEF Updating
<1>2. Hinting(q, r)
    BY Zenon DEF Hinting
<1> QED
    BY <1>1, <1>2, ZenonT(40) DEF RequestOK

\* A request that ends without changing a row.
LEMMA StepEnd ==
    ASSUME IInv, NEW q \in Requests, End(q), UNCHANGED <<rows, walk>>, TrackRemoval
    PROVE  IInv'
<1>1. requests' = [requests EXCEPT ![q] = Done] /\ RequestOK(q, Done)
    BY RestingOK, Zenon DEF End, IInv
<1> QED
    BY <1>1, QuietStep, Zenon

\* CreateProblem generates the slug and begins to try.
LEMMA StepCreateProblem ==
    ASSUME IInv, NEW q \in Requests, NEW title, NEW visibility,
           CreateProblem(q, title, visibility), TrackRemoval
    PROVE  IInv'
<1> PICK slug : slug = GenerateSlug(title)
    BY Zenon
<1> PICK x : x = [NoRequest EXCEPT !.pc = "create", !.base = slug, !.slug = slug, !.i = 1,
                                   !.visibility = visibility]
    BY Zenon
<1>1. requests' = [requests EXCEPT ![q] = x] /\ UNCHANGED <<rows, walk>> /\ visibility \in Visibility
    BY Zenon DEF CreateProblem, validateCreateRequest
<1>2. x.pc = "create" /\ x.visibility = visibility /\ x.p = 0 /\ DOMAIN x = DOMAIN NoRequest
    BY Zenon DEF NoRequest
<1>3. 0 \in 0 .. born
    BY DEF IInv, RowsInv
<1>4. RequestOK(q, x)
    BY <1>1, <1>2, <1>3, PlainOK, ZenonT(40)
<1> QED
    BY <1>1, <1>4, QuietStep, Zenon

\* A slug that is taken is replaced by the next one, or the request gives up.
LEMMA StepConflict ==
    ASSUME IInv, NEW q \in Requests, NEW slug, NEW i, NEW pc \in {"create", "gaveup"},
           requests' = [requests EXCEPT ![q] =
                          [requests[q] EXCEPT !.slug = slug, !.i = i, !.pc = pc]],
           UNCHANGED <<rows, walk>>, TrackRemoval
    PROVE  IInv'
<1> PICK x : x = [requests[q] EXCEPT !.slug = slug, !.i = i, !.pc = pc]
    BY Zenon
<1>1. RequestOK(q, requests[q])
    BY Zenon DEF IInv
<1>2. DOMAIN requests[q] = DOMAIN NoRequest
    BY <1>1, Zenon DEF RequestOK
<1>3. x.pc = pc /\ x.visibility = requests[q].visibility /\ x.p = requests[q].p /\ DOMAIN x = DOMAIN NoRequest
    BY <1>2, Zenon DEF NoRequest
<1>4. RequestOK(q, x)
    BY <1>1, <1>3, PlainOK, ZenonT(40) DEF RequestOK
<1> QED
    BY <1>4, QuietStep, Zenon

\* The row of a problem that is to be deleted is locked.
LEMMA StepDeleteProblem ==
    ASSUME IInv, NEW q \in Requests, NEW p \in 1 .. born, DeleteProblem(q, p), TrackRemoval
    PROVE  IInv'
<1> PICK x : x = [NoRequest EXCEPT !.pc = "cascade", !.p = p]
    BY Zenon
<1>1. x.pc = "cascade" /\ x.visibility = "draft" /\ x.p = p /\ DOMAIN x = DOMAIN NoRequest
    BY Zenon DEF NoRequest
<1>2. p \in 0 .. born
    BY DEF IInv, RowsInv
<1>3. RequestOK(q, x)
    BY <1>1, <1>2, PlainOK, Zenon DEF Visibility
<1>4. UNCHANGED <<rows, walk>>
    BY Zenon DEF DeleteProblem
<1>5. CASE p \in Problems
    <2>1. requests' = [requests EXCEPT ![q] = x]
        BY <1>5, Zenon DEF DeleteProblem
    <2> QED
        BY <1>3, <1>4, <2>1, QuietStep, ZenonT(40)
<1>6. CASE p \notin Problems
    <2>1. End(q)
        BY <1>6, Zenon DEF DeleteProblem, End
    <2> QED
        BY <1>4, <2>1, StepEnd, Zenon
<1> QED
    BY <1>5, <1>6, Zenon

\* A tag that is not there by name is going to be inserted.
LEMMA StepCreateTag ==
    ASSUME IInv, NEW q \in Requests, NEW name, CreateTag(q, name), TrackRemoval
    PROVE  IInv'
<1> PICK x : x = [NoRequest EXCEPT !.pc = "tag", !.list = <<name>>]
    BY Zenon
<1>1. x.pc = "tag" /\ x.visibility = "draft" /\ x.p = 0 /\ DOMAIN x = DOMAIN NoRequest
    BY Zenon DEF NoRequest
<1>2. 0 \in 0 .. born
    BY DEF IInv, RowsInv
<1>3. RequestOK(q, x)
    BY <1>1, <1>2, PlainOK, ZenonT(40) DEF Visibility
<1>4. UNCHANGED <<rows, walk>>
    BY Zenon DEF CreateTag
<1>5. CASE name \in tags
    <2>1. End(q)
        BY <1>5, Zenon DEF CreateTag, End
    <2> QED
        BY <1>4, <2>1, StepEnd, Zenon
<1>6. CASE name \notin tags
    <2>1. requests' = [requests EXCEPT ![q] = x]
        BY <1>6, Zenon DEF CreateTag
    <2> QED
        BY <1>3, <1>4, <2>1, QuietStep, ZenonT(40)
<1> QED
    BY <1>5, <1>6, Zenon

\* An update begins with a snapshot of the set.
LEMMA StepBeginSet ==
    ASSUME IInv, NEW q \in Requests, NEW kind \in Kinds, NEW p \in 1 .. born, NEW list, IsSeq(list),
           BeginSet(q, kind, p, list), TrackRemoval
    PROVE  IInv'
<1> PICK snap : snap = IF p \in Problems THEN links[kind][p] ELSE {}
    BY Zenon
<1> PICK x : x = [NoRequest EXCEPT !.pc = "deleting", !.kind = kind, !.p = p, !.list = list,
                                   !.rest = list, !.snap = snap]
    BY Zenon
<1>1. requests' = [requests EXCEPT ![q] = x] /\ UNCHANGED <<rows, walk>>
    BY Zenon DEF BeginSet
<1>2. /\ x.pc = "deleting" /\ x.kind = kind /\ x.p = p /\ x.list = list /\ x.rest = list
      /\ x.snap = snap /\ x.inserted = {} /\ x.visibility = "draft" /\ DOMAIN x = DOMAIN NoRequest
    BY Zenon DEF NoRequest
<1>3. Updating(x)
    BY <1>2, Zenon DEF Updating
<1>4. Hinting(q, x)
    BY <1>2, Zenon DEF Hinting
<1>5. x.p \in 0 .. born
    BY <1>2 DEF IInv, RowsInv
<1>6. RequestOK(q, x)
    BY <1>2, <1>3, <1>4, <1>5, ZenonT(40) DEF RequestOK, Visibility
<1> QED
    BY <1>1, <1>6, QuietStep, ZenonT(40)

\* The rows of the snapshot that are left are deleted.
LEMMA StepDeleteSet ==
    ASSUME IInv, NEW q \in Requests, DeleteSet(q), TrackRemoval
    PROVE  IInv'
<1> PICK r : r = requests[q]
    BY Zenon
<1> PICK x : x = [r EXCEPT !.pc = "insert", !.deleted = r.snap]
    BY Zenon
<1>1. RequestOK(q, r) /\ r.pc = "deleting"
    BY Zenon DEF IInv, DeleteSet, Ready
<1>2. DOMAIN r = DOMAIN NoRequest
    BY <1>1, Zenon DEF RequestOK
<1>3. requests' = [requests EXCEPT ![q] = x] /\ UNCHANGED <<rows, walk>>
    BY Zenon DEF DeleteSet
<1>4. /\ x.pc = "insert" /\ x.kind = r.kind /\ x.p = r.p /\ x.list = r.list /\ x.rest = r.rest
      /\ x.deleted = r.snap /\ x.inserted = r.inserted /\ x.since = r.since
      /\ x.visibility = r.visibility /\ DOMAIN x = DOMAIN NoRequest
    BY <1>2, Zenon DEF NoRequest
<1>5. Updating(x)
    BY <1>1, <1>4, ZenonT(40) DEF RequestOK, Updating
<1>6. Hinting(q, x)
    BY <1>4, Zenon DEF Hinting
<1>7. RequestOK(q, x)
    BY <1>1, <1>4, <1>5, <1>6, Zenon DEF RequestOK
<1> QED
    BY <1>3, <1>7, QuietStep, Zenon

\* A row is inserted that the transaction does not see yet.
LEMMA StepInserted ==
    ASSUME IInv, NEW q \in Requests, Ready(q, "insert"), requests[q].rest # <<>>,
           Head(requests[q].rest) \in IF requests[q].kind = "tags" THEN tags ELSE DOMAIN languages,
           requests' = [requests EXCEPT ![q] = Inserted(q)], UNCHANGED <<rows, walk>>, TrackRemoval
    PROVE  IInv'
<1> PICK r : r = requests[q]
    BY Zenon
<1> PICK h : h = Head(r.rest)
    BY Zenon
<1> PICK x : x = [r EXCEPT !.rest = Tail(r.rest), !.inserted = r.inserted \cup {h}]
    BY Zenon
<1>1. RequestOK(q, r) /\ r.pc = "insert" /\ Updating(r)
    BY Zenon DEF IInv, Ready, RequestOK
<1>2. DOMAIN r = DOMAIN NoRequest
    BY <1>1, Zenon DEF RequestOK
<1>3. requests' = [requests EXCEPT ![q] = x]
    BY <1>2, Zenon DEF Inserted, NoRequest
<1>4. /\ x.pc = "insert" /\ x.kind = r.kind /\ x.p = r.p /\ x.list = r.list /\ x.rest = Tail(r.rest)
      /\ x.deleted = r.deleted /\ x.inserted = r.inserted \cup {h} /\ x.since = r.since
      /\ x.undone = r.undone /\ x.visibility = r.visibility /\ DOMAIN x = DOMAIN NoRequest
    BY <1>1, <1>2, Zenon DEF NoRequest
<1>5. IsSeq(Tail(r.rest)) /\ Range(r.rest) = Range(Tail(r.rest)) \cup {h}
    BY <1>1, HeadAndRest, ZenonT(40) DEF Updating
<1>6. Updating(x)
    BY <1>1, <1>4, <1>5, ZenonT(40) DEF Updating
<1>7. Hinting(q, x)
    BY <1>4, Zenon DEF Hinting
<1>8. RequestOK(q, x)
    BY <1>1, <1>4, <1>6, <1>7, Zenon DEF RequestOK
<1> QED
    BY <1>3, <1>8, QuietStep, ZenonT(40)

\* A tag that is there already, or unknown, ends the update.
LEMMA StepInsertTag ==
    ASSUME IInv, NEW q \in Requests, InsertTag(q), TrackRemoval
    PROVE  IInv'
<1>1. CASE End(q)
    BY <1>1, StepEnd, Zenon DEF InsertTag
<1>2. CASE ~ End(q)
    BY <1>2, StepInserted, Zenon DEF InsertTag
<1> QED
    BY <1>1, <1>2, Zenon

\* A language that is there already is skipped, an unknown one ends the update.
LEMMA StepInsertLanguage ==
    ASSUME IInv, NEW q \in Requests, InsertLanguage(q), TrackRemoval
    PROVE  IInv'
<1> PICK r : r = requests[q]
    BY Zenon
<1> PICK h : h = Head(r.rest)
    BY Zenon
<1>1. UNCHANGED <<rows, walk>> /\ Ready(q, "insert") /\ r.kind = "languages" /\ r.rest # <<>>
    BY Zenon DEF InsertLanguage
<1>2. CASE h \in Visible(q)
    <2> PICK x : x = [r EXCEPT !.rest = Tail(r.rest)]
        BY Zenon
    <2>1. RequestOK(q, r) /\ r.pc = "insert" /\ Updating(r) /\ DOMAIN r = DOMAIN NoRequest
        BY <1>1, Zenon DEF IInv, Ready, RequestOK
    <2>2. DOMAIN requests = Requests
        BY Zenon DEF IInv
    <2>3. requests' = [requests EXCEPT ![q] = x]
        BY <1>2, <2>1, <2>2, ZenonT(40) DEF InsertLanguage, NoRequest
    <2>4. /\ x.pc = "insert" /\ x.kind = r.kind /\ x.p = r.p /\ x.list = r.list /\ x.rest = Tail(r.rest)
          /\ x.deleted = r.deleted /\ x.inserted = r.inserted /\ x.since = r.since
          /\ x.undone = r.undone /\ x.visibility = r.visibility /\ DOMAIN x = DOMAIN NoRequest
        BY <2>1, Zenon DEF NoRequest
    <2>5. IsSeq(Tail(r.rest)) /\ Range(r.rest) = Range(Tail(r.rest)) \cup {h}
        BY <1>1, <2>1, HeadAndRest, ZenonT(40) DEF Updating
    <2>6. r.p \in Problems /\ h \in (links[r.kind][r.p] \ r.deleted) \cup r.inserted
        BY <1>2, ZenonT(40) DEF Visible
    <2>7. Updating(x)
        BY <1>1, <2>1, <2>4, <2>5, <2>6 DEF Updating
    <2>8. Hinting(q, x)
        BY <2>4, Zenon DEF Hinting
    <2>9. RequestOK(q, x)
        BY <2>1, <2>4, <2>7, <2>8, ZenonT(40) DEF RequestOK
    <2> QED
        BY <1>1, <2>3, <2>9, QuietStep, ZenonT(40)
<1>3. CASE h \notin Visible(q) /\ r.p \in Problems /\ h \in DOMAIN languages
    BY <1>1, <1>3, StepInserted, ZenonT(40) DEF InsertLanguage
<1>4. CASE h \notin Visible(q) /\ ~ (r.p \in Problems /\ h \in DOMAIN languages)
    <2>1. End(q)
        BY <1>4, Zenon DEF InsertLanguage
    <2> QED
        BY <1>1, <2>1, StepEnd, ZenonT(40)
<1> QED
    BY <1>2, <1>3, <1>4, ZenonT(40)

\* A hint request loads the conversation, in which it has not written.
LEMMA StepGetHint ==
    ASSUME IInv, NEW q \in Requests, NEW p \in 1 .. born, GetHint(q, p), TrackRemoval
    PROVE  IInv'
<1> PICK s : s = hints[p]
    BY Zenon
<1> PICK x : x = [NoRequest EXCEPT !.pc = "save", !.p = p, !.prompt = s]
    BY Zenon
<1>1. /\ requests' = [requests EXCEPT ![q] = x] /\ UNCHANGED <<rows, walk>> /\ p \in Problems
      /\ requests[q].pc = "idle"
    BY Zenon DEF GetHint, GetHintHistory, Starts
<1>2. x.pc = "save" /\ x.p = p /\ x.prompt = s /\ x.visibility = "draft" /\ DOMAIN x = DOMAIN NoRequest
    BY Zenon DEF NoRequest
<1>3. Hinting(q, requests[q]) /\ s \in Seq(Messages)
    BY <1>1, Zenon DEF IInv, RowsInv, RequestOK
<1>4. \A o \in Problems : \A i \in DOMAIN hints[o] : hints[o][i].by # q
    BY <1>1, <1>3, Zenon DEF Hinting
<1>5. Agree(s, Len(s), hints[p])
    BY <1>3, ListLength DEF Agree
<1>6. Hinting(q, x)
    BY <1>1, <1>2, <1>3, <1>4, <1>5, ZenonT(40) DEF Hinting
<1>7. Updating(x)
    BY <1>2, Zenon DEF Updating
<1>8. x.p \in 0 .. born
    BY <1>2 DEF IInv, RowsInv
<1>9. RequestOK(q, x)
    BY <1>2, <1>6, <1>7, <1>8, ZenonT(40) DEF RequestOK, Visibility
<1> QED
    BY <1>1, <1>9, QuietStep, ZenonT(40)

\* The model's answer does not change the prompt.
LEMMA StepGenerateText ==
    ASSUME IInv, NEW q \in Requests, GenerateText(q), TrackRemoval
    PROVE  IInv'
<1> PICK r : r = requests[q]
    BY Zenon
<1> PICK x : x = [r EXCEPT !.pc = "reply"]
    BY Zenon
<1>1. RequestOK(q, r) /\ r.pc = "ask"
    BY Zenon DEF IInv, GenerateText
<1>2. DOMAIN r = DOMAIN NoRequest
    BY <1>1, Zenon DEF RequestOK
<1>3. requests' = [requests EXCEPT ![q] = x] /\ UNCHANGED <<rows, walk>>
    BY Zenon DEF GenerateText
<1>4. x.pc = "reply" /\ x.p = r.p /\ x.prompt = r.prompt /\ x.visibility = r.visibility
      /\ DOMAIN x = DOMAIN NoRequest
    BY <1>2, Zenon DEF NoRequest
<1>5. Hinting(q, x)
    BY <1>1, <1>4, ZenonT(40) DEF RequestOK, Hinting
<1>6. Updating(x)
    BY <1>4, Zenon DEF Updating
<1>7. RequestOK(q, x)
    BY <1>1, <1>4, <1>5, <1>6, ZenonT(40) DEF RequestOK
<1> QED
    BY <1>3, <1>7, QuietStep, ZenonT(40)
-----------------------------------------------------------------------------
(* Steps that change rows.                                                   *)

\* A request that ends with a change of the tables.
LEMMA StepRows ==
    ASSUME IInv, NEW q \in Requests, End(q), RowsInv', Grows, LinksKept, HintsKept(q),
           SubmissionsKept, UNCHANGED walk, TrackRemoval
    PROVE  IInv'
<1>1. Done.pc = "done" /\ Done.visibility = "draft" /\ Done.p = 0 /\ DOMAIN Done = DOMAIN NoRequest
    BY Zenon DEF Done, NoRequest
<1>2. Updating(Done)'
    BY <1>1, Zenon DEF Updating
<1>3. Hinting(q, Done)'
    BY <1>1, ZenonT(40) DEF Hinting
<1>4. 0 \in 0 .. born'
    BY DEF RowsInv
<1>5. RequestOK(q, Done)'
    BY <1>1, <1>2, <1>3, <1>4, ZenonT(40) DEF RequestOK, Visibility
<1>6. WalkOK(walk)' /\ removed' \in BOOLEAN
    BY WalkKept, Zenon
<1> QED
    BY <1>5, <1>6, StepOf, ZenonT(40) DEF End

\* A new problem has a new id, a slug that was free, and no other rows yet.
LEMMA StepInsertProblem ==
    ASSUME IInv, NEW q \in Requests, InsertProblem(q), TrackRemoval
    PROVE  IInv'
<1> PICK r : r = requests[q]
    BY Zenon
<1> PICK id : id = born + 1
    BY Zenon
<1> PICK row : row = [slug |-> r.slug, visibility |-> r.visibility]
    BY ZenonT(40)
<1>1. RowsInv /\ CatalogTypeOK /\ born \in Nat /\ r.visibility \in Visibility
    BY ZenonT(40) DEF IInv, RowsInv, RequestOK
<1>2. /\ problems' = Insert(problems, id, row) /\ born' = id /\ hints' = Insert(hints, id, <<>>)
      /\ links' = [kind \in Kinds |-> Insert(links[kind], id, {})] /\ End(q)
      /\ UNCHANGED <<tags, languages, tests, submissions, walk>> /\ ~ Taken(r.slug)
    BY Zenon DEF InsertProblem
<1>3. /\ Problems' = Problems \cup {id} /\ problems'[id] = row
      /\ \A p \in Problems \ {id} : problems'[p] = problems[p]
    BY <1>2, ZenonT(40) DEF Problems, Insert
<1>4. id \notin Problems /\ id \in Nat /\ id > born /\ Problems \subseteq 1 .. born
    <2>1. Problems \subseteq 1 .. born
        BY <1>1, Zenon DEF CatalogTypeOK
    <2>2. id \notin 1 .. born /\ id \in Nat /\ id > born
        BY <1>1
    <2> QED
        BY <2>1, <2>2, Zenon
<1>5. /\ DOMAIN hints' = Problems' /\ hints'[id] = <<>> /\ \A p \in Problems : hints'[p] = hints[p]
    BY <1>1, <1>2, <1>3, <1>4, ZenonT(40) DEF CatalogTypeOK, Insert
<1>6. ASSUME NEW kind \in Kinds
      PROVE  /\ DOMAIN links'[kind] = Problems' /\ links'[kind][id] = {}
             /\ \A p \in Problems : links'[kind][p] = links[kind][p]
    <2>1. links'[kind] = Insert(links[kind], id, {}) /\ DOMAIN links[kind] = Problems
        BY <1>1, <1>2, Zenon DEF CatalogTypeOK
    <2> QED
        BY <1>3, <1>4, <2>1, ZenonT(40) DEF Insert
<1>7. Problems' \subseteq 1 .. born'
    <2>1. 1 .. born \subseteq 1 .. id /\ id \in 1 .. id
        BY <1>1, <1>4, SMTT(20)
    <2> QED
        BY <1>2, <1>3, <1>4, <2>1, ZenonT(40)
<1>8. \A p \in Problems' : problems'[p].visibility \in Visibility /\ DOMAIN problems'[p] = {"slug", "visibility"}
    BY <1>1, <1>3, <1>4, SMTT(20) DEF CatalogTypeOK, RowsInv
<1>9. \A p, o \in Problems' : p # o => problems'[p].slug # problems'[o].slug
    BY <1>1, <1>2, <1>3, <1>4, SMTT(20) DEF CatalogTypeOK, Taken
<1>10. \A p \in Problems' : links'["tags"][p] \subseteq tags' /\ links'["languages"][p] \subseteq DOMAIN languages'
    BY <1>1, <1>2, <1>3, <1>6 DEF CatalogTypeOK, Kinds
<1>11. CatalogTypeOK'
    BY <1>1, <1>2, <1>3, <1>5, <1>6, <1>7, <1>8, <1>9, <1>10, ZenonT(40) DEF CatalogTypeOK
<1>12. \A p \in Problems' : hints'[p] \in Seq(Messages)
    <2>1. <<>> \in Seq(Messages)
        BY SMTT(20)
    <2> QED
        BY <1>1, <1>3, <1>5, <2>1, ZenonT(40) DEF RowsInv
<1>13. RowsInv'
    BY <1>1, <1>2, <1>4, <1>8, <1>11, <1>12, ZenonT(40) DEF RowsInv
<1>14. Grows /\ LinksKept /\ SubmissionsKept
    <2>0. born' = id
        BY <1>2, ZenonT(40)
    <2>1. born' \in Nat /\ born <= born'
        BY <1>1, <1>4, <2>0
    <2>2. Grows
        BY <1>2, <1>3, <1>4, <2>1, ZenonT(40) DEF Grows
    <2>3. LinksKept
        BY <1>6, ZenonT(40) DEF LinksKept
    <2>4. SubmissionsKept
        BY <1>2, ZenonT(40) DEF SubmissionsKept
    <2> QED
        BY <2>2, <2>3, <2>4, ZenonT(40)
<1>15. HintsKept(q)
    BY <1>3, <1>5, ZenonT(40) DEF HintsKept
<1> QED
    BY <1>2, <1>13, <1>14, <1>15, StepRows, ZenonT(40)

\* CreateProblem inserts, or goes on to the next slug.
LEMMA StepRepoCreate ==
    ASSUME IInv, NEW q \in Requests, RepoCreate(q), TrackRemoval
    PROVE  IInv'
<1>1. CASE InsertProblem(q)
    BY <1>1, StepInsertProblem, Zenon
<1>2. CASE ~ InsertProblem(q)
    <2> PICK r : r = requests[q]
        BY Zenon
    <2> PICK slug : slug = NumberedSlug(r.base, r.i)
        BY Zenon
    <2> PICK pc : pc = IF r.i < SlugAttempts THEN "create" ELSE "gaveup"
        BY Zenon
    <2> PICK i : i = r.i + 1
        BY ZenonT(40)
    <2>1. DOMAIN r = DOMAIN NoRequest
        BY Zenon DEF IInv, RequestOK
    <2>2. requests' = [requests EXCEPT ![q] = [r EXCEPT !.slug = slug, !.i = i, !.pc = pc]]
          /\ UNCHANGED <<rows, walk>>
        BY <1>2, <2>1, ZenonT(40) DEF RepoCreate, NoRequest
    <2>3. pc \in {"create", "gaveup"}
        BY Zenon
    <2> QED
        BY <2>2, <2>3, StepConflict, ZenonT(40)
<1> QED
    BY <1>1, <1>2, Zenon

\* An edit keeps slugs distinct and changes no other row.
LEMMA StepUpdateProblem ==
    ASSUME IInv, NEW q \in Requests, NEW p, NEW edit, UpdateProblem(q, p, edit), TrackRemoval
    PROVE  IInv'
<1>1. RowsInv /\ CatalogTypeOK
    BY Zenon DEF IInv, RowsInv
<1>2. /\ UNCHANGED <<born, tags, languages, links, tests, submissions, hints, walk>> /\ End(q)
      /\ RepoUpdate(p, edit) /\ edit.visibility \in Visibility \cup {"nil"}
    BY Zenon DEF UpdateProblem, validateUpdateRequest
<1>3. Problems' = Problems
    BY <1>2, ZenonT(40) DEF RepoUpdate, Problems
<1>4. CASE p \in Problems /\ (edit.slug \in {NoSlug, problems[p].slug} \/ ~ Taken(edit.slug))
    <2> PICK slug : slug = IF edit.slug = NoSlug THEN problems[p].slug ELSE edit.slug
        BY Zenon
    <2> PICK visibility : visibility = IF edit.visibility = "nil" THEN problems[p].visibility ELSE edit.visibility
        BY ZenonT(40)
    <2>1. DOMAIN problems[p] = {"slug", "visibility"} /\ p \in DOMAIN problems
        BY <1>1, <1>4, ZenonT(40) DEF RowsInv, Problems
    <2>2. /\ problems'[p].slug = slug /\ problems'[p].visibility = visibility
          /\ DOMAIN problems'[p] = {"slug", "visibility"}
          /\ \A o \in Problems \ {p} : problems'[o] = problems[o]
        BY <1>2, <1>4, <2>1, ZenonT(40) DEF RepoUpdate, Problems
    <2>3. visibility \in Visibility
        BY <1>1, <1>2, <1>4, ZenonT(40) DEF CatalogTypeOK
    <2>4. \A o \in Problems \ {p} : problems[o].slug # slug
        BY <1>1, <1>4, ZenonT(40) DEF CatalogTypeOK, Taken
    <2>5. CatalogTypeOK'
        <3>1. \A o \in Problems' : problems'[o].visibility \in Visibility
            BY <1>1, <1>3, <2>2, <2>3, ZenonT(40) DEF CatalogTypeOK
        <3>2. \A o, u \in Problems' : o # u => problems'[o].slug # problems'[u].slug
            BY <1>1, <1>3, <2>2, <2>4, SMTT(20) DEF CatalogTypeOK
        <3> QED
            BY <1>1, <1>2, <1>3, <3>1, <3>2, ZenonT(40) DEF CatalogTypeOK
    <2>6. \A o \in Problems' : DOMAIN problems'[o] = {"slug", "visibility"}
        BY <1>1, <1>3, <2>2, ZenonT(40) DEF RowsInv
    <2>7. RowsInv'
        BY <1>1, <1>2, <1>3, <2>5, <2>6, ZenonT(40) DEF RowsInv
    <2>8. Grows /\ LinksKept /\ SubmissionsKept /\ HintsKept(q)
        <3>1. SubmissionsKept
            BY <1>2, <1>3, ZenonT(40) DEF SubmissionsKept
        <3>2. born \in Nat
            BY <1>1, Zenon DEF RowsInv
        <3> QED
            BY <1>2, <1>3, <3>1, <3>2, NothingMoved, ZenonT(40)
    <2> QED
        BY <1>2, <2>7, <2>8, StepRows, ZenonT(40)
<1>5. CASE ~ (p \in Problems /\ (edit.slug \in {NoSlug, problems[p].slug} \/ ~ Taken(edit.slug)))
    <2>1. problems' = problems
        BY <1>2, <1>5, Zenon DEF RepoUpdate
    <2>2. UNCHANGED <<rows, walk>>
        BY <1>2, <2>1, ZenonT(40) DEF rows
    <2> QED
        BY <1>2, <2>2, StepEnd, ZenonT(40)
<1> QED
    BY <1>4, <1>5, ZenonT(40)

\* A delete takes every row of the problem with it.
LEMMA StepRepoDelete ==
    ASSUME IInv, NEW q \in Requests, RepoDelete(q), TrackRemoval
    PROVE  IInv'
<1> PICK gone : gone = {requests[q].p}
    BY Zenon
<1>1. RowsInv /\ CatalogTypeOK /\ born \in Nat
    BY Zenon DEF IInv, RowsInv
<1> PICK deadTests : deadTests = {t \in DOMAIN tests : tests[t].problem \in gone}
    BY Zenon
<1> PICK dead : dead = {s \in DOMAIN submissions : submissions[s].problem \in gone}
    BY ZenonT(40)
<1>2. /\ problems' = Without(problems, gone) /\ hints' = Without(hints, gone)
      /\ links' = [kind \in Kinds |-> Without(links[kind], gone)]
      /\ tests' = Without(tests, deadTests) /\ submissions' = Without(submissions, dead)
      /\ End(q) /\ UNCHANGED <<born, tags, languages, walk>>
    BY Zenon DEF RepoDelete
<1>3. Problems' = Problems \ gone /\ \A p \in Problems \ gone : problems'[p] = problems[p]
    BY <1>2, ZenonT(40) DEF Problems, Without, Restrict
<1>4. DOMAIN hints' = Problems' /\ \A p \in Problems' : hints'[p] = hints[p]
    BY <1>1, <1>2, <1>3, ZenonT(40) DEF CatalogTypeOK, Without, Restrict
<1>5. ASSUME NEW kind \in Kinds
      PROVE  DOMAIN links'[kind] = Problems' /\ \A p \in Problems' : links'[kind][p] = links[kind][p]
    <2>1. links'[kind] = Without(links[kind], gone) /\ DOMAIN links[kind] = Problems
        BY <1>1, <1>2, ZenonT(40) DEF CatalogTypeOK
    <2> QED
        BY <1>3, <2>1, ZenonT(40) DEF Without, Restrict
<1>6. DOMAIN tests' = DOMAIN tests \ deadTests /\ \A t \in DOMAIN tests' : tests'[t] = tests[t]
    BY <1>2, ZenonT(40) DEF Without, Restrict
<1>7. DOMAIN submissions' = DOMAIN submissions \ dead /\ \A s \in DOMAIN submissions' : submissions'[s] = submissions[s]
    BY <1>2, ZenonT(40) DEF Without, Restrict
<1>8. \A t \in DOMAIN tests' : tests'[t].problem \in Problems' /\ DOMAIN tests'[t] = {"problem", "active", "hidden"}
    BY <1>1, <1>3, <1>6, ZenonT(40) DEF CatalogTypeOK, RowsInv
<1>9. \A s \in DOMAIN submissions' : submissions'[s].problem \in Problems'
    BY <1>1, <1>3, <1>7, ZenonT(40) DEF CatalogTypeOK
<1>10. CatalogTypeOK'
    <2>1. \A p \in Problems' : problems'[p].visibility \in Visibility
        BY <1>1, <1>3, Zenon DEF CatalogTypeOK
    <2>2. ASSUME NEW p \in Problems', NEW o \in Problems', p # o PROVE problems'[p].slug # problems'[o].slug
        <3>1. p \in Problems \ gone /\ o \in Problems \ gone
            BY <1>3, <2>2, ZenonT(40)
        <3>2. problems'[p] = problems[p] /\ problems'[o] = problems[o]
            BY <1>3, <3>1, Zenon
        <3>3. problems[p].slug # problems[o].slug
            BY <1>1, <2>2, <3>1, ZenonT(40) DEF CatalogTypeOK
        <3> QED
            BY <3>2, <3>3, ZenonT(40)
    <2>3. \A p \in Problems' : links'["tags"][p] \subseteq tags' /\ links'["languages"][p] \subseteq DOMAIN languages'
        BY <1>1, <1>2, <1>3, <1>5, ZenonT(40) DEF CatalogTypeOK, Kinds
    <2>4. Problems' \subseteq 1 .. born'
        BY <1>1, <1>2, <1>3, Zenon DEF CatalogTypeOK
    <2> QED
        BY <1>4, <1>5, <1>8, <1>9, <2>1, <2>2, <2>3, <2>4, ZenonT(40) DEF CatalogTypeOK
<1>11. IsFiniteSet(DOMAIN submissions')
    BY <1>1, <1>7, FS_Subset, Zenon DEF RowsInv
<1>12. \A s \in DOMAIN submissions' :
          submissions'[s] \in SubmissionRow
    BY <1>1, <1>7, Zenon DEF RowsInv
<1>13. RowsInv'
    BY <1>1, <1>2, <1>3, <1>4, <1>8, <1>10, <1>11, <1>12, ZenonT(40) DEF RowsInv
<1>14. Grows
    <2>0. born' = born
        BY <1>2, ZenonT(40)
    <2>1. born' \in Nat /\ born <= born'
        BY <1>1, <2>0, SMTT(20)
    <2> QED
        BY <1>2, <1>3, <2>1, ZenonT(40) DEF Grows
<1>15. LinksKept
    BY <1>3, <1>5, ZenonT(40) DEF LinksKept
<1>16. HintsKept(q)
    BY <1>3, <1>4, ZenonT(40) DEF HintsKept
<1>17. SubmissionsKept
    BY <1>3, <1>7, ZenonT(40) DEF SubmissionsKept
<1> QED
    BY <1>2, <1>13, <1>14, <1>15, <1>16, <1>17, StepRows, ZenonT(40)

\* A change of the test cases alone.
LEMMA StepTests ==
    ASSUME IInv, NEW q \in Requests, End(q), TrackRemoval,
           UNCHANGED <<problems, born, tags, languages, links, submissions, hints, walk>>,
           \A t \in DOMAIN tests' : /\ tests'[t].problem \in Problems
                                    /\ DOMAIN tests'[t] = {"problem", "active", "hidden"}
    PROVE  IInv'
<1>1. RowsInv /\ CatalogTypeOK /\ Problems' = Problems
    BY Zenon DEF IInv, RowsInv, Problems
<1>2. CatalogTypeOK'
    BY <1>1, ZenonT(40) DEF CatalogTypeOK
<1>3. RowsInv'
    BY <1>1, <1>2, Zenon DEF RowsInv
<1>4. Grows /\ LinksKept /\ SubmissionsKept /\ HintsKept(q)
    BY <1>1, SMTT(20) DEF RowsInv, Grows, LinksKept, SubmissionsKept, HintsKept
<1> QED
    BY <1>3, <1>4, StepRows, ZenonT(40)

\* A test case is created for a problem that exists, or not at all.
LEMMA StepCreateTestCase ==
    ASSUME IInv, NEW q \in Requests, NEW p, NEW hidden, CreateTestCase(q, p, hidden), TrackRemoval
    PROVE  IInv'
<1> PICK t : t = Min(Unused(tests, MaxTests))
    BY Zenon
<1> PICK row : row = [problem |-> p, active |-> TRUE, hidden |-> hidden]
    BY ZenonT(40)
<1>1. \A u \in DOMAIN tests : tests[u].problem \in Problems /\ DOMAIN tests[u] = {"problem", "active", "hidden"}
    BY Zenon DEF IInv, RowsInv, CatalogTypeOK
<1>2. row.problem = p /\ DOMAIN row = {"problem", "active", "hidden"}
    BY Zenon
<1>3. tests' = IF p \in Problems THEN Insert(tests, t, row) ELSE tests
    BY Zenon DEF CreateTestCase, RepoCreateTestCase
<1>4. \A u \in DOMAIN tests' : tests'[u].problem \in Problems /\ DOMAIN tests'[u] = {"problem", "active", "hidden"}
    BY <1>1, <1>2, <1>3, ZenonT(40) DEF Insert
<1> QED
    BY <1>4, StepTests, Zenon DEF CreateTestCase

\* An edit or a soft delete leaves a test case with its problem.
LEMMA StepChangeTestCase ==
    ASSUME IInv, NEW q \in Requests, NEW t, NEW hidden,
           UpdateTestCase(q, t, hidden) \/ DeleteTestCase(q, t), TrackRemoval
    PROVE  IInv'
<1>1. \A u \in DOMAIN tests : tests[u].problem \in Problems /\ DOMAIN tests[u] = {"problem", "active", "hidden"}
    BY Zenon DEF IInv, RowsInv, CatalogTypeOK
<1>2. \A u \in DOMAIN tests' : tests'[u].problem \in Problems /\ DOMAIN tests'[u] = {"problem", "active", "hidden"}
    BY <1>1, ZenonT(40) DEF UpdateTestCase, DeleteTestCase, RepoUpdateTestCase, RepoDeleteTestCase
<1>3. End(q) /\ UNCHANGED <<problems, born, tags, languages, links, submissions, hints, walk>>
    BY Zenon DEF UpdateTestCase, DeleteTestCase
<1> QED
    BY <1>2, <1>3, StepTests, ZenonT(40)

\* Tags and languages are only added.
LEMMA StepMoreNames ==
    ASSUME IInv, NEW q \in Requests, End(q), TrackRemoval,
           UNCHANGED <<problems, born, links, tests, submissions, hints, walk>>,
           tags \subseteq tags', DOMAIN languages \subseteq DOMAIN languages'
    PROVE  IInv'
<1>1. RowsInv /\ CatalogTypeOK /\ Problems' = Problems
    BY ZenonT(40) DEF IInv, RowsInv, Problems
<1>2. CatalogTypeOK'
    BY <1>1, ZenonT(40) DEF CatalogTypeOK
<1>3. RowsInv'
    BY <1>1, <1>2, ZenonT(40) DEF RowsInv
<1>4. Grows /\ LinksKept /\ SubmissionsKept /\ HintsKept(q)
    BY <1>1 DEF RowsInv, Grows, LinksKept, SubmissionsKept, HintsKept
<1> QED
    BY <1>3, <1>4, StepRows, ZenonT(40)

\* A tag is inserted.
LEMMA StepInsertTagRow ==
    ASSUME IInv, NEW q \in Requests, InsertTagRow(q), TrackRemoval
    PROVE  IInv'
BY StepMoreNames, Zenon DEF InsertTagRow

\* A language is inserted or updated.
LEMMA StepCreateLanguage ==
    ASSUME IInv, NEW q \in Requests, NEW key, NEW enabled, CreateLanguage(q, key, enabled), TrackRemoval
    PROVE  IInv'
<1>1. DOMAIN languages \subseteq DOMAIN languages'
    BY Zenon DEF CreateLanguage, Upsert, Insert
<1> QED
    BY <1>1, StepMoreNames, Zenon DEF CreateLanguage

\* A message of q is added to one conversation.
LEMMA MessageSaved ==
    ASSUME IInv, NEW q \in Requests, NEW p \in Problems, NEW m \in Messages, m.by = q,
           hints' = [hints EXCEPT ![p] = Append(hints[p], m)],
           UNCHANGED <<problems, born, tags, languages, links, tests, submissions, walk>>
    PROVE  RowsInv' /\ Grows /\ LinksKept /\ SubmissionsKept /\ HintsKept(q)
<1>1. RowsInv /\ CatalogTypeOK /\ Problems' = Problems
    BY Zenon DEF IInv, RowsInv, Problems
<1>2. /\ DOMAIN hints' = Problems /\ hints'[p] = Append(hints[p], m)
      /\ \A o \in Problems \ {p} : hints'[o] = hints[o]
    BY <1>1, ZenonT(40) DEF CatalogTypeOK
<1>3. hints[p] \in Seq(Messages)
    BY <1>1, Zenon DEF RowsInv
<1>4. hints'[p] \in Seq(Messages)
    BY <1>2, <1>3, ListAppend, ZenonT(40)
<1>5. CatalogTypeOK'
    BY <1>1, <1>2, ZenonT(40) DEF CatalogTypeOK
<1>6. \A o \in Problems' : hints'[o] \in Seq(Messages)
    BY <1>1, <1>2, <1>4, ZenonT(40) DEF RowsInv
<1>7. RowsInv'
    BY <1>1, <1>5, <1>6, ZenonT(40) DEF RowsInv
<1>8. Grows /\ LinksKept /\ SubmissionsKept
    BY <1>1 DEF RowsInv, Grows, LinksKept, SubmissionsKept
<1>9. HintsKept(q)
    BY <1>1, <1>2, ZenonT(40) DEF HintsKept
<1> QED
    BY <1>7, <1>8, <1>9, ZenonT(40)

\* The question goes to the end of the conversation and of the prompt.
LEMMA StepSaveQuestion ==
    ASSUME IInv, NEW q \in Requests, SaveQuestion(q), TrackRemoval
    PROVE  IInv'
<1> PICK r : r = requests[q]
    BY Zenon
<1> PICK m : m = Question(q)
    BY Zenon
<1>1. RequestOK(q, r) /\ RowsInv /\ r.pc = "save"
    BY Zenon DEF IInv, SaveQuestion, Ready
<1>2. CASE r.p \notin Problems
    <2>1. End(q) /\ UNCHANGED <<rows, walk>>
        BY <1>2, Zenon DEF SaveQuestion, rows
    <2> QED
        BY <2>1, StepEnd, ZenonT(40)
<1>3. CASE r.p \in Problems
    <2> PICK s : s = r.prompt
        BY Zenon
    <2> PICK x : x = [r EXCEPT !.pc = "ask", !.prompt = Append(s, m)]
        BY Zenon
    <2>1. DOMAIN r = DOMAIN NoRequest /\ DOMAIN requests = Requests
        BY <1>1, Zenon DEF RequestOK, IInv
    <2>2. requests' = [requests EXCEPT ![q] = x]
        BY <1>3, <2>1, Zenon DEF SaveQuestion, NoRequest
    <2>3. /\ hints' = [hints EXCEPT ![r.p] = Append(hints[r.p], m)]
          /\ UNCHANGED <<problems, born, tags, languages, links, tests, submissions, walk>>
        BY <1>3, Zenon DEF SaveQuestion, SaveHintMessage
    <2>4. m \in Messages /\ m.by = q
        BY Zenon DEF Question, Messages
    <2>5. RowsInv' /\ Grows /\ LinksKept /\ SubmissionsKept /\ HintsKept(q)
        BY <1>3, <2>3, <2>4, MessageSaved, ZenonT(40)
    <2>6. x.pc = "ask" /\ x.p = r.p /\ x.prompt = Append(s, m) /\ x.visibility = r.visibility
          /\ DOMAIN x = DOMAIN NoRequest
        BY <2>1, Zenon DEF NoRequest
    <2>7. /\ s \in Seq(Messages) /\ (\A i \in DOMAIN s : s[i].by # q) /\ Agree(s, Len(s), hints[r.p])
          /\ hints[r.p] \in Seq(Messages)
        BY <1>1, <1>3, ZenonT(40) DEF RequestOK, Hinting, RowsInv
    <2> PICK t : t = Append(s, m)
        BY ZenonT(40)
    <2>8. /\ t \in Seq(Messages) /\ Len(t) = Len(s) + 1 /\ t[Len(s) + 1] = m
          /\ \A i \in 1 .. Len(s) : t[i] = s[i]
        BY <2>4, <2>7, ListAppend
    <2>9. /\ Len(s) \in Nat /\ DOMAIN s = 1 .. Len(s) /\ DOMAIN t = 1 .. Len(s) + 1
          /\ Len(hints[r.p]) \in Nat
        BY <2>7, <2>8, ListLength, ZenonT(40)
    <2>10. \A i \in DOMAIN t : t[i].by = q => i = Len(t)
        BY <2>7, <2>8, <2>9
    <2> PICK u : u = hints'[r.p]
        BY Zenon
    <2>11. u = Append(hints[r.p], m)
        BY <1>1, <1>3, <2>3, ZenonT(40) DEF RowsInv, CatalogTypeOK
    <2>12. Len(u) = Len(hints[r.p]) + 1 /\ \A i \in 1 .. Len(hints[r.p]) : u[i] = hints[r.p][i]
        BY <2>4, <2>7, <2>11, ListAppend, SMTT(20)
    <2>13. Agree(t, Len(t) - 1, u)
        BY <2>7, <2>8, <2>9, <2>12, SMTT(20) DEF Agree
    <2>14. Len(t) > 0 /\ t[Len(t)] = Question(q)
        BY <2>8, <2>9
    <2>15. Hinting(q, x)'
        BY <2>6, <2>8, <2>10, <2>13, <2>14, ZenonT(40) DEF Hinting
    <2>16. Updating(x)'
        BY <2>6, Zenon DEF Updating
    <2>17. RequestOK(q, x)'
        BY <1>1, <2>3, <2>6, <2>15, <2>16, ZenonT(40) DEF RequestOK
    <2>18. WalkOK(walk)' /\ removed' \in BOOLEAN
        BY <2>3, <2>5, WalkKept, ZenonT(40)
    <2> QED
        BY <2>2, <2>5, <2>17, <2>18, StepOf, ZenonT(40)
<1> QED
    BY <1>2, <1>3, ZenonT(40)

\* The answer goes to the end of the conversation.
LEMMA StepSaveAnswer ==
    ASSUME IInv, NEW q \in Requests, SaveAnswer(q), TrackRemoval
    PROVE  IInv'
<1> PICK p : p = requests[q].p
    BY Zenon
<1> PICK m : m = Answer(q)
    BY Zenon
<1>1. End(q) /\ UNCHANGED <<problems, born, tags, languages, links, tests, submissions, walk>>
    BY Zenon DEF SaveAnswer
<1>2. CASE p \notin Problems
    <2>1. UNCHANGED <<rows, walk>>
        BY <1>1, <1>2, Zenon DEF SaveAnswer, rows
    <2> QED
        BY <1>1, <2>1, StepEnd, ZenonT(40)
<1>3. CASE p \in Problems
    <2>1. m \in Messages /\ m.by = q
        BY Zenon DEF Answer, Messages
    <2>2. hints' = [hints EXCEPT ![p] = Append(hints[p], m)]
        BY <1>3, ZenonT(40) DEF SaveAnswer, SaveHintMessage
    <2>3. RowsInv' /\ Grows /\ LinksKept /\ SubmissionsKept /\ HintsKept(q)
        BY <1>1, <1>3, <2>1, <2>2, MessageSaved, ZenonT(40)
    <2> QED
        BY <1>1, <2>3, StepRows, ZenonT(40)
<1> QED
    BY <1>2, <1>3, Zenon

\* The least unused id is unused.
LEMMA MinUnused ==
    ASSUME NEW table, NEW max, Unused(table, max) # {}
    PROVE  Min(Unused(table, max)) \in Unused(table, max)
<1> DEFINE R == OpToRel(LAMBDA x, y : x < y, Nat)
<1> PICK U : U = Unused(table, max)
    BY Zenon
<1>1. U \subseteq Nat /\ U # {}
    BY DEF Unused
<1>2. IsWellFoundedOn(R, Nat)
    BY NatLessThanWellFounded, Zenon
<1>3. PICK x \in U : \A y \in U : <<y, x>> \notin R
    <2> HIDE DEF R
    <2> QED
        BY <1>1, <1>2, WFMin, ZenonT(40)
<1>4. \A y \in U : ~ (y < x)
    BY <1>1, <1>3, ZenonT(40) DEF OpToRel
<1>5. \A y \in U : x =< y
    BY <1>1, <1>4
<1> QED
    BY <1>5, Zenon DEF Min

\* A submission is inserted under a new id for a problem that exists.
LEMMA StepSubmit ==
    ASSUME IInv, NEW q \in Requests, NEW p, NEW kind \in {"submit", "run"}, Submit(q, p, kind), TrackRemoval
    PROVE  IInv'
<1> PICK n : n = Min(Unused(submissions, MaxSubmissions))
    BY Zenon
<1> PICK row : row = [problem |-> p, kind |-> kind, accepted |-> FALSE, once |-> FALSE]
    BY ZenonT(40)
<1>1. /\ submissions' = Insert(submissions, n, row) /\ End(q) /\ p \in Problems
      /\ Unused(submissions, MaxSubmissions) # {}
      /\ UNCHANGED <<problems, born, tags, languages, links, tests, hints, walk>>
    BY Zenon DEF Submit
<1>2. n \notin DOMAIN submissions
    BY <1>1, MinUnused, ZenonT(40) DEF Unused
<1>3. RowsInv /\ CatalogTypeOK /\ Problems' = Problems /\ born \in Nat
    BY <1>1, ZenonT(40) DEF IInv, RowsInv, Problems
<1>4. p \in Nat
    BY <1>1, <1>3 DEF CatalogTypeOK
<1>5. /\ DOMAIN submissions' = DOMAIN submissions \cup {n} /\ submissions'[n] = row
      /\ \A s \in DOMAIN submissions : submissions'[s] = submissions[s]
    BY <1>1, <1>2, ZenonT(40) DEF Insert
<1>6. row \in SubmissionRow /\ row.problem = p
    BY <1>4, Zenon DEF SubmissionRow
<1>7. IsFiniteSet(DOMAIN submissions')
    <2>1. IsFiniteSet(DOMAIN submissions)
        BY <1>3, Zenon DEF RowsInv
    <2>2. IsFiniteSet(DOMAIN submissions \cup {n})
        BY <2>1, FS_AddElement, Zenon
    <2> QED
        BY <1>5, <2>2, Zenon
<1>8. CatalogTypeOK'
    <2>0. \A s \in DOMAIN submissions : submissions[s].problem \in Problems
        BY <1>3, Zenon DEF CatalogTypeOK
    <2>1. ASSUME NEW s \in DOMAIN submissions' PROVE submissions'[s].problem \in Problems'
        <3>1. CASE s = n
            <4>1. submissions'[s] = row
                BY <1>5, <3>1, ZenonT(40)
            <4>2. row.problem \in Problems'
                BY <1>1, <1>3, <1>6, ZenonT(40)
            <4> QED
                BY <4>1, <4>2, ZenonT(40)
        <3>2. CASE s \in DOMAIN submissions
            BY <1>3, <1>5, <2>0, <3>2, ZenonT(40)
        <3> QED
            BY <1>5, <3>1, <3>2, ZenonT(40)
    <2> QED
        BY <1>1, <1>3, <2>1, ZenonT(40) DEF CatalogTypeOK
<1>9. \A s \in DOMAIN submissions' :
         submissions'[s] \in SubmissionRow
    BY <1>3, <1>5, <1>6, ZenonT(40) DEF RowsInv
<1>10. RowsInv'
    BY <1>1, <1>3, <1>7, <1>8, <1>9, ZenonT(40) DEF RowsInv
<1>11. Grows /\ LinksKept /\ HintsKept(q)
    BY <1>1, <1>3, NothingMoved, ZenonT(40)
<1>12. SubmissionsKept
    BY <1>5, Zenon DEF SubmissionsKept
<1> QED
    BY <1>1, <1>10, <1>11, <1>12, StepRows, ZenonT(40)

\* A reader stores a verdict or an older status: what was accepted once stays so.
LEMMA StepStoreStatus ==
    ASSUME IInv, NEW s \in DOMAIN submissions, NEW v, SaveResult(s, v) \/ UpdateStatus(s), TrackRemoval
    PROVE  IInv'
<1>1. UNCHANGED <<problems, born, tags, languages, links, tests, hints, requests, walk>>
    BY Zenon DEF SaveResult, UpdateStatus
<1>2. RowsInv /\ CatalogTypeOK /\ Problems' = Problems /\ born \in Nat
    BY <1>1, Zenon DEF IInv, RowsInv, Problems
<1>3. \A t \in DOMAIN submissions : submissions[t] \in SubmissionRow
    BY <1>2, Zenon DEF RowsInv
<1>4. /\ DOMAIN submissions' = DOMAIN submissions
      /\ \A t \in DOMAIN submissions :
            /\ submissions'[t] \in SubmissionRow
            /\ submissions'[t].problem = submissions[t].problem
            /\ submissions'[t].kind = submissions[t].kind
            /\ submissions[t].once => submissions'[t].once
    <2>1. CASE UpdateStatus(s)
        <3>1. submissions' = [submissions EXCEPT ![s].accepted = FALSE]
            BY <2>1, Zenon DEF UpdateStatus
        <3> QED
            BY <1>3, <3>1, ZenonT(40) DEF SubmissionRow
    <2>2. CASE SaveResult(s, v)
        <3>1. PICK acc \in BOOLEAN : acc = (v = "accepted")
            BY Zenon
        <3>2. PICK once \in BOOLEAN : once = (submissions[s].once \/ v = "accepted")
            BY Zenon
        <3>3. submissions' = [submissions EXCEPT ![s].accepted = acc, ![s].once = once]
            BY <2>2, <3>1, <3>2, Zenon DEF SaveResult
        <3>4. acc => once
            BY <3>1, <3>2, Zenon
        <3>5. submissions[s].once => once
            BY <3>2, Zenon
        <3> QED
            BY <1>3, <3>3, <3>4, <3>5, ZenonT(40) DEF SubmissionRow
    <2> QED
        BY <2>1, <2>2
<1>5. CatalogTypeOK'
    BY <1>1, <1>2, <1>4 DEF CatalogTypeOK
<1>6. RowsInv'
    BY <1>1, <1>2, <1>4, <1>5, ZenonT(40) DEF RowsInv
<1>7. Grows /\ LinksKept /\ HintsKept(0)
    BY <1>1, <1>2 DEF RowsInv, Grows, LinksKept, HintsKept
<1>8. SubmissionsKept
    BY <1>4, Zenon DEF SubmissionsKept
<1>9. WalkOK(walk)' /\ removed' \in BOOLEAN
    BY <1>1, <1>6, <1>7, <1>8, WalkKept, ZenonT(40)
<1>10. ASSUME NEW o \in Requests PROVE RequestOK(o, requests[o])'
    <2>1. o # 0 /\ requests'[o] = requests[o]
        BY <1>1 DEF Requests
    <2> QED
        BY <1>7, <2>1, OthersKept, ZenonT(40)
<1> QED
    BY <1>1, <1>6, <1>9, <1>10, ZenonT(40) DEF IInv

\* A commit replaces the set of its problem; the other updates of that set
\* learn what it deleted and inserted.
LEMMA StepCommitSet ==
    ASSUME IInv, NEW q \in Requests, CommitSet(q), TrackRemoval
    PROVE  IInv'
<1> PICK r : r = requests[q]
    BY Zenon
<1> PICK V : V = Visible(q)
    BY Zenon
<1>1. RequestOK(q, r) /\ r.pc = "insert" /\ Updating(r) /\ r.kind \in Kinds
    BY ZenonT(40) DEF IInv, CommitSet, RequestOK, Updating
<1>2. RowsInv /\ CatalogTypeOK /\ born \in Nat /\ DOMAIN links = Kinds
    BY Zenon DEF IInv, RowsInv
<1>3. /\ links' = IF r.p \in Problems THEN [links EXCEPT ![r.kind][r.p] = V] ELSE links
      /\ UNCHANGED <<problems, born, tags, languages, tests, submissions, hints, walk>>
      /\ Problems' = Problems
    BY ZenonT(40) DEF CommitSet, Problems
<1>4. /\ DOMAIN links' = Kinds
      /\ \A kind \in Kinds : DOMAIN links'[kind] = Problems
      /\ \A kind \in Kinds : \A p \in Problems :
            links'[kind][p] = IF kind = r.kind /\ p = r.p THEN V ELSE links[kind][p]
    BY <1>1, <1>2, <1>3, ZenonT(40) DEF CatalogTypeOK
<1>5. r.p \in Problems => V = (links[r.kind][r.p] \ r.deleted) \cup r.inserted
    BY Zenon DEF Visible
<1>6. r.p \in Problems => V \subseteq IF r.kind = "tags" THEN tags ELSE DOMAIN languages
    BY <1>1, <1>2, <1>5, ZenonT(40) DEF Updating, CatalogTypeOK, Kinds
<1>7. \A p \in Problems : links'["tags"][p] \subseteq tags /\ links'["languages"][p] \subseteq DOMAIN languages
    <2>1. \A p \in Problems : links["tags"][p] \subseteq tags /\ links["languages"][p] \subseteq DOMAIN languages
        BY <1>2, ZenonT(40) DEF CatalogTypeOK
    <2> QED
        BY <1>1, <1>4, <1>6, <2>1, ZenonT(40) DEF Kinds
<1>8. CatalogTypeOK'
    BY <1>2, <1>3, <1>4, <1>7, ZenonT(40) DEF CatalogTypeOK
<1>9. RowsInv'
    BY <1>2, <1>3, <1>4, <1>8, Zenon DEF RowsInv
<1>10. Grows /\ SubmissionsKept
    BY <1>2, <1>3 DEF Grows, SubmissionsKept
<1>11. WalkOK(walk)' /\ removed' \in BOOLEAN
    BY <1>3, <1>9, <1>10, WalkKept, ZenonT(40)
<1>12. ASSUME NEW o \in Requests, NEW y, Hinting(o, y) PROVE Hinting(o, y)'
    BY <1>3, <1>12, Zenon DEF Hinting
<1>13. ASSUME NEW o \in Requests, o # q, requests[o].pc \in {"deleting", "insert"}, SameSet(o, q)
       PROVE  RequestOK(o, requests[o])'
    <2> PICK y : y = requests[o]
        BY Zenon
    <2> PICK x : x = [y EXCEPT !.snap = y.snap \ r.deleted, !.since = y.since \cup r.inserted,
                               !.undone = y.undone \cup r.deleted]
        BY Zenon
    <2>1. RequestOK(o, y) /\ Updating(y) /\ y.p = r.p /\ y.kind = r.kind
        BY <1>13, Zenon DEF IInv, RequestOK, SameSet
    <2>2. DOMAIN y = DOMAIN NoRequest
        BY <2>1, Zenon DEF RequestOK
    <2>3. requests'[o] = x
        BY <1>13, <2>2, Zenon DEF CommitSet, NoRequest
    <2>4. /\ x.pc = y.pc /\ x.kind = y.kind /\ x.p = y.p /\ x.list = y.list /\ x.rest = y.rest
          /\ x.deleted = y.deleted /\ x.inserted = y.inserted /\ x.visibility = y.visibility
          /\ x.snap = y.snap \ r.deleted /\ x.since = y.since \cup r.inserted
          /\ x.undone = y.undone \cup r.deleted /\ DOMAIN x = DOMAIN NoRequest
        BY <2>2, ZenonT(40) DEF NoRequest
    <2>5. y.p \in Problems => links'[y.kind][y.p] = (links[y.kind][y.p] \ r.deleted) \cup r.inserted
        BY <1>1, <1>4, <1>5, <2>1, ZenonT(40)
    <2>6. Updating(x)'
        <3>1. /\ y.kind \in Kinds /\ IsSeq(y.rest)
              /\ y.inserted \subseteq IF y.kind = "tags" THEN tags ELSE DOMAIN languages
              /\ y.inserted \subseteq Range(y.list) /\ Range(y.rest) \subseteq Range(y.list)
              /\ y.pc = "deleting" => y.rest = y.list /\ y.inserted = {}
            BY <1>13, <2>1, ZenonT(40) DEF Updating
        <3>2. ASSUME y.p \in Problems, y.pc = "deleting"
              PROVE  links'[y.kind][y.p] \subseteq x.snap \cup x.since
            <4>1. links[y.kind][y.p] \subseteq y.snap \cup y.since
                BY <2>1, <3>2, ZenonT(40) DEF Updating
            <4> QED
                BY <2>4, <2>5, <3>2, <4>1, ZenonT(40)
        <3>3. ASSUME y.p \in Problems, y.pc = "insert"
              PROVE  /\ links'[y.kind][y.p] \ y.deleted \subseteq x.since
                     /\ Range(y.list) \subseteq Range(y.rest) \cup y.inserted \cup
                           IF y.kind = "tags" THEN {}
                              ELSE (links'[y.kind][y.p] \ y.deleted) \cup x.undone
            <4>1. /\ links[y.kind][y.p] \ y.deleted \subseteq y.since
                  /\ Range(y.list) \subseteq Range(y.rest) \cup y.inserted \cup
                        IF y.kind = "tags" THEN {}
                           ELSE (links[y.kind][y.p] \ y.deleted) \cup y.undone
                BY <2>1, <3>3, ZenonT(40) DEF Updating
            <4>2. links'[y.kind][y.p] \ y.deleted \subseteq x.since
                BY <2>4, <2>5, <3>3, <4>1, ZenonT(40)
            <4>3. links[y.kind][y.p] \ r.deleted \subseteq links'[y.kind][y.p]
                BY <2>5, <3>3, ZenonT(40)
            <4>4. (links[y.kind][y.p] \ y.deleted) \cup y.undone
                     \subseteq (links'[y.kind][y.p] \ y.deleted) \cup x.undone
                BY <2>4, <4>3, ZenonT(40)
            <4> QED
                BY <4>1, <4>2, <4>4, ZenonT(40)
        <3>4. /\ x.kind \in Kinds /\ IsSeq(x.rest)
              /\ x.inserted \subseteq IF x.kind = "tags" THEN tags' ELSE DOMAIN languages'
              /\ x.inserted \subseteq Range(x.list) /\ Range(x.rest) \subseteq Range(x.list)
              /\ x.pc = "deleting" => x.rest = x.list /\ x.inserted = {}
            BY <1>3, <2>4, <3>1, ZenonT(40)
        <3>5. (x.p \in Problems' /\ x.pc = "deleting") => links'[x.kind][x.p] \subseteq x.snap \cup x.since
            BY <1>3, <2>4, <3>2, SMTT(20)
        <3>6. ASSUME x.p \in Problems', x.pc = "insert"
              PROVE  /\ links'[x.kind][x.p] \ x.deleted \subseteq x.since
                     /\ Range(x.list) \subseteq Range(x.rest) \cup x.inserted \cup
                           IF x.kind = "tags" THEN {}
                              ELSE (links'[x.kind][x.p] \ x.deleted) \cup x.undone
            <4>1. y.p \in Problems /\ y.pc = "insert" /\ links'[x.kind][x.p] = links'[y.kind][y.p]
                BY <1>3, <2>4, <3>6
            <4>2. Range(x.list) = Range(y.list) /\ Range(x.rest) = Range(y.rest)
                BY <2>4, ZenonT(40)
            <4>3. /\ links'[y.kind][y.p] \ y.deleted \subseteq x.since
                  /\ Range(y.list) \subseteq Range(y.rest) \cup y.inserted \cup
                        IF y.kind = "tags" THEN {}
                           ELSE (links'[y.kind][y.p] \ y.deleted) \cup x.undone
                BY <3>3, <4>1, ZenonT(40)
            <4> QED
                BY <2>4, <4>1, <4>2, <4>3, ZenonT(40)
        <3> QED
            BY <3>4, <3>5, <3>6, ZenonT(40) DEF Updating
    <2>7. Hinting(o, x)'
        BY <1>13, <2>4, ZenonT(40) DEF Hinting
    <2>8. RequestOK(o, x)'
        BY <1>3, <2>1, <2>4, <2>6, <2>7, ZenonT(40) DEF RequestOK
    <2> QED
        BY <2>3, <2>8, Zenon
<1>14. ASSUME NEW o \in Requests, o # q, ~ (requests[o].pc \in {"deleting", "insert"} /\ SameSet(o, q))
       PROVE  RequestOK(o, requests[o])'
    <2> PICK y : y = requests[o]
        BY Zenon
    <2>1. RequestOK(o, y) /\ Updating(y) /\ Hinting(o, y)
        BY Zenon DEF IInv, RequestOK
    <2>2. requests'[o] = y
        BY <1>14, Zenon DEF CommitSet
    <2>3. y.pc \in {"deleting", "insert"} => (y.p \in Problems => links'[y.kind][y.p] = links[y.kind][y.p])
        <3> SUFFICES ASSUME y.pc \in {"deleting", "insert"}, y.p \in Problems
                     PROVE  links'[y.kind][y.p] = links[y.kind][y.p]
            BY Zenon
        <3>1. y.kind \in Kinds
            BY <2>1, Zenon DEF Updating
        <3>2. ~ (y.kind = r.kind /\ y.p = r.p)
            BY <1>14, Zenon DEF SameSet
        <3> QED
            BY <1>4, <3>1, <3>2, ZenonT(40)
    <2>4. Updating(y)'
        BY <1>3, <2>1, <2>3, ZenonT(40) DEF Updating
    <2>5. RequestOK(o, y)'
        BY <1>3, <1>12, <2>1, <2>4, ZenonT(40) DEF RequestOK
    <2> QED
        BY <2>2, <2>5, ZenonT(40)
<1>15. RequestOK(q, requests[q])'
    <2>1. requests'[q] = Done
        BY Zenon DEF CommitSet
    <2>2. RequestOK(q, Done)
        BY <1>2, RestingOK, ZenonT(40)
    <2>3. Done.pc = "done"
        BY ZenonT(40) DEF Done, NoRequest
    <2>4. Updating(Done)'
        BY <2>3 DEF Updating
    <2>5. RequestOK(q, Done)'
        BY <1>3, <1>12, <2>2, <2>4, ZenonT(40) DEF RequestOK
    <2> QED
        BY <2>1, <2>5, ZenonT(40)
<1>16. (DOMAIN requests = Requests)'
    BY Zenon DEF CommitSet
<1>17. \A o \in Requests : RequestOK(o, requests[o])'
    BY <1>13, <1>14, <1>15, ZenonT(40)
<1> QED
    BY <1>9, <1>11, <1>16, <1>17, ZenonT(40) DEF IInv
-----------------------------------------------------------------------------
(* The walk through the pages.                                               *)

\* A step of the walk changes no row and no request.
LEMMA StepWalk ==
    ASSUME IInv, UNCHANGED <<rows, requests>>, WalkOK(walk)', removed' \in BOOLEAN
    PROVE  IInv'
<1>1. UNCHANGED rows /\ UNCHANGED requests
    BY Zenon
<1>2. RowsInv' /\ \A q, r : RequestOK(q, r) => RequestOK(q, r)'
    BY <1>1, RowsSame, ZenonT(40)
<1>3. \A q \in Requests : RequestOK(q, requests[q])'
    BY <1>1, <1>2, Zenon DEF IInv
<1> QED
    BY <1>1, <1>2, <1>3, ZenonT(40) DEF IInv

\* While no row changes no problem leaves the listing.
LEMMA NothingRemoved ==
    ASSUME IInv, UNCHANGED rows, walk'.filter = walk.filter, TrackRemoval
    PROVE  removed' = removed
<1>1. Matching(walk.filter)' = Matching(walk.filter)
    <2>1. \A f : Matching(f)' = Matching(f)
        BY RowsSame, ZenonT(40)
    <2> PICK f : f = walk.filter
        BY Zenon
    <2>2. Matching(f)' = Matching(f)
        BY <2>1, ZenonT(40)
    <2> QED
        BY <2>2, Zenon
<1> QED
    BY <1>1, Zenon DEF TrackRemoval, IInv

\* What is awaited and what is grounded does not depend on the rows that stay.
LEMMA WalkRowsSame ==
    ASSUME IInv, UNCHANGED rows, NEW w
    PROVE  /\ Grounded(w) => Grounded(w)'
           /\ \A p : Awaited(w, p) => Awaited(w, p)'
<1>1. RowsInv /\ Grows /\ SubmissionsKept /\ \A f : Matching(f)' = Matching(f)
    BY RowsSame, ZenonT(40) DEF IInv
<1>2. Grounded(w) => Grounded(w)'
    BY <1>1, GroundedKept, ZenonT(40)
<1>3. Matching(w.filter)' = Matching(w.filter)
    BY <1>1, ZenonT(40)
<1>4. \A p : Rank(p, Matching(w.filter))' = Rank(p, Matching(w.filter))
    BY <1>3, ZenonT(40) DEF Rank
<1>5. \A p : Awaited(w, p) => Awaited(w, p)'
    BY <1>3, <1>4, ZenonT(40) DEF Awaited
<1> QED
    BY <1>2, <1>5, ZenonT(40)

\* A walk after a step of its own is in order when it is so with today's rows.
LEMMA StepWalkTo ==
    ASSUME IInv, UNCHANGED <<rows, requests>>, TrackRemoval,
           NEW x, walk' = x, WalkOK(x), x.filter = walk.filter
    PROVE  IInv'
<1>1. UNCHANGED rows
    BY Zenon
<1>2. removed' = removed /\ removed \in BOOLEAN
    BY <1>1, NothingRemoved, ZenonT(40) DEF IInv
<1>3. Grounded(x)' /\ \A p : Awaited(x, p) => Awaited(x, p)'
    BY <1>1, WalkRowsSame, ZenonT(40) DEF WalkOK
<1>4. WalkOK(x)'
    BY <1>2, <1>3, ZenonT(40) DEF WalkOK
<1> QED
    BY <1>2, <1>4, StepWalk, ZenonT(40)

\* The listed problems are finitely many, and the place of each is between one
\* and their number.
LEMMA RankBounds ==
    ASSUME RowsInv, NEW f
    PROVE  /\ Matching(f) \subseteq Problems /\ IsFiniteSet(Matching(f))
           /\ Cardinality(Matching(f)) \in Nat
           /\ \A p \in Matching(f) :
                 /\ Rank(p, Matching(f)) \in Nat /\ Rank(p, Matching(f)) > 0
                 /\ Rank(p, Matching(f)) <= Cardinality(Matching(f))
<1> PICK S : S = Matching(f)
    BY Zenon
<1>1. S \subseteq Problems /\ Problems \subseteq 1 .. born /\ born \in Nat
    BY Zenon DEF RowsInv, CatalogTypeOK, Matching
<1>2. S \subseteq 1 .. born
    BY <1>1, Zenon
<1>3. IsFiniteSet(S) /\ Cardinality(S) \in Nat
    BY <1>1, <1>2, FiniteIds, ZenonT(40)
<1>4. ASSUME NEW p \in S
      PROVE  Rank(p, S) \in Nat /\ Rank(p, S) > 0 /\ Rank(p, S) <= Cardinality(S)
    <2> PICK A : A = {o \in S : o >= p}
        BY Zenon
    <2>1. p \in A /\ A \subseteq S
        BY <1>1, <1>2, <1>4
    <2>2. IsFiniteSet(A) /\ A # {}
        BY <1>3, <2>1, FS_Subset, ZenonT(40)
    <2>3. Cardinality(A) # 0
        BY <2>2, FS_EmptySet, ZenonT(40)
    <2>4. Rank(p, S) = Cardinality(A)
        BY Zenon DEF Rank
    <2>5. Rank(p, S) \in Nat /\ Rank(p, S) <= Cardinality(S)
        BY <1>3, RankGrows, ZenonT(40)
    <2> QED
        BY <2>3, <2>4, <2>5
<1> QED
    BY <1>1, <1>3, <1>4, ZenonT(40)

\* The first page begins with the first problem.
LEMMA FirstOffset == (1 - 1) * PageSize = 0
<1>1. PageSize \in Nat
    BY CatalogAssumption
<1> QED
    BY <1>1

\* The client begins at the first page and has still to see all that is listed.
LEMMA StepStartWalk ==
    ASSUME IInv, NEW q \in Requests, NEW f, StartWalk(q, f), TrackRemoval
    PROVE  IInv'
<1> DEFINE visibility == IF f.visibility # "" THEN f.visibility
                         ELSE IF f.canUnpublished THEN "any" ELSE "published"
<1> PICK g : g = [visibility |-> visibility, tags |-> f.tags]
    BY Zenon
<1> PICK w : w = walk
    BY Zenon
<1> PICK x : x = [w EXCEPT !.pc = "list", !.filter = g, !.expect = Matching(g)]
    BY Zenon
<1>1. walk.pc = "start" /\ walk' = x /\ End(q) /\ UNCHANGED rows
    BY Zenon DEF StartWalk
<1>2. WalkOK(w) /\ w.page = 1 /\ RowsInv
    BY <1>1, Zenon DEF IInv, WalkOK
<1>3. /\ x.pc = "list" /\ x.filter = g /\ x.expect = Matching(g) /\ x.page = 1
      /\ x.found = w.found /\ x.solved = w.solved /\ x.rates = w.rates /\ x.total = w.total
      /\ DOMAIN x = DOMAIN NoWalk
    BY <1>2, Zenon DEF WalkOK, NoWalk
<1>4. Grounded(x)
    BY <1>2, <1>3, ZenonT(40) DEF WalkOK, Grounded
<1>5. ASSUME NEW p \in x.expect PROVE Awaited(x, p)
    <2>1. Rank(p, Matching(g)) \in Nat /\ Rank(p, Matching(g)) > 0
        BY <1>2, <1>3, <1>5, RankBounds, ZenonT(40)
    <2>2. (x.page - 1) * PageSize = 0
        <3>1. x.page = 1
            BY <1>3, Zenon
        <3> QED
            BY <3>1, FirstOffset, Zenon
    <2> QED
        BY <1>3, <2>1, <2>2, ZenonT(40) DEF Awaited
<1>6. removed' = removed /\ removed \in BOOLEAN
    BY <1>1, Zenon DEF TrackRemoval, IInv
<1>7. Grounded(x)' /\ \A p : Awaited(x, p) => Awaited(x, p)'
    BY <1>1, <1>4, WalkRowsSame, ZenonT(40)
<1>8. WalkOK(x)'
    BY <1>2, <1>3, <1>5, <1>6, <1>7, ZenonT(40) DEF WalkOK
<1>9. RowsInv' /\ Grows /\ LinksKept /\ SubmissionsKept /\ HintsKept(q)
    BY <1>1, RowsSame, ZenonT(40)
<1>10. RequestOK(q, Done)'
    BY <1>1, <1>2, RestingOK, RowsSame, ZenonT(40)
<1>11. requests' = [requests EXCEPT ![q] = Done]
    BY <1>1, Zenon DEF End
<1> QED
    BY <1>1, <1>6, <1>8, <1>9, <1>10, <1>11, StepOf, ZenonT(40)

\* The page that List returns begins where the last one ended and holds the
\* next PageSize problems.
LEMMA StepRepoList ==
    ASSUME IInv, RepoList, TrackRemoval
    PROVE  IInv'
<1> PICK w : w = walk
    BY Zenon
<1> PICK S : S = Matching(w.filter)
    BY Zenon
<1> PICK F : F = Page(S, (w.page - 1) * PageSize)
    BY Zenon
<1> PICK x : x = [w EXCEPT !.pc = "count", !.found = F, !.solved = {}, !.rates = <<>>, !.tags = <<>>]
    BY Zenon
<1>1. w.pc = "list" /\ walk' = x /\ UNCHANGED <<rows, requests>>
    BY Zenon DEF RepoList, Offset
<1>2. WalkOK(w) /\ RowsInv /\ w.page \in Nat \ {0}
    BY Zenon DEF IInv, WalkOK
<1>3. /\ x.pc = "count" /\ x.filter = w.filter /\ x.expect = w.expect /\ x.page = w.page
      /\ x.found = F /\ x.solved = {} /\ x.rates = <<>> /\ x.total = w.total /\ x.seen = w.seen
      /\ DOMAIN x = DOMAIN NoWalk
    BY <1>2, ZenonT(40) DEF WalkOK, NoWalk
<1>4. Grounded(x)
    BY <1>3 DEF Grounded
<1>5. PageSize \in Nat /\ Limit = PageSize
    BY CatalogAssumption DEF Limit
<1>6. (w.page - 1) * PageSize + PageSize = w.page * PageSize /\ (w.page - 1) * PageSize \in Nat
    BY <1>2, <1>5
<1>7. ASSUME NEW p, Awaited(w, p) PROVE Awaited(x, p)
    <2>1. p \in S /\ Rank(p, S) > (w.page - 1) * PageSize
        BY <1>7, Zenon DEF Awaited
    <2>2. Rank(p, S) \in Nat
        BY <1>2, <2>1, RankBounds, ZenonT(40)
    <2>3. w.page * PageSize \in Nat
        BY <1>2, <1>5
    <2>4. p \in F \/ Rank(p, S) > w.page * PageSize
        BY <1>5, <1>6, <2>1, <2>2, <2>3, SMTT(20) DEF Page
    <2> QED
        BY <1>3, <2>1, <2>4, ZenonT(40) DEF Awaited
<1>8. WalkOK(x)
    BY <1>1, <1>2, <1>3, <1>4, <1>7, ZenonT(40) DEF WalkOK
<1> QED
    BY <1>1, <1>3, <1>8, StepWalkTo, ZenonT(40)

\* The number of problems that Count returns is no less than the place of any.
LEMMA StepRepoCount ==
    ASSUME IInv, RepoCount, TrackRemoval
    PROVE  IInv'
<1> PICK w : w = walk
    BY Zenon
<1> PICK S : S = Matching(w.filter)
    BY Zenon
<1> PICK pc : pc = IF w.found = {} THEN "reply" ELSE "tags"
    BY Zenon
<1> PICK x : x = [w EXCEPT !.total = Cardinality(S), !.pc = pc]
    BY Zenon
<1>1. w.pc = "count" /\ walk' = x /\ UNCHANGED <<rows, requests>> /\ pc \in {"reply", "tags"}
    BY Zenon DEF RepoCount
<1>2. WalkOK(w) /\ RowsInv /\ w.page \in Nat \ {0}
    BY Zenon DEF IInv, WalkOK
<1>3. /\ x.pc = pc /\ x.filter = w.filter /\ x.expect = w.expect /\ x.page = w.page
      /\ x.found = w.found /\ x.solved = w.solved /\ x.rates = w.rates /\ x.total = Cardinality(S)
      /\ x.seen = w.seen /\ DOMAIN x = DOMAIN NoWalk
    BY <1>2, Zenon DEF WalkOK, NoWalk
<1>4. Grounded(x)
    BY <1>2, <1>3, ZenonT(40) DEF WalkOK, Grounded
<1>5. Cardinality(S) \in Nat /\ w.page * PageSize \in Nat
    BY <1>2, RankBounds, CatalogAssumption
<1>6. ASSUME NEW p, Awaited(w, p) PROVE Awaited(x, p)
    <2>1. /\ p \in S /\ Rank(p, S) > (w.page - 1) * PageSize
          /\ p \in w.found \/ Rank(p, S) > w.page * PageSize
        BY <1>1, <1>6, ZenonT(40) DEF Awaited
    <2>2. Rank(p, S) \in Nat /\ Rank(p, S) <= Cardinality(S)
        BY <1>2, <2>1, RankBounds, ZenonT(40)
    <2>3. p \in w.found \/ Cardinality(S) > w.page * PageSize
        BY <1>5, <2>1, <2>2
    <2> QED
        BY <1>1, <1>3, <2>1, <2>3, ZenonT(40) DEF Awaited
<1>7. WalkOK(x)
    BY <1>1, <1>2, <1>3, <1>4, <1>5, <1>6, ZenonT(40) DEF WalkOK
<1> QED
    BY <1>1, <1>3, <1>7, StepWalkTo, ZenonT(40)

SamePage(w, x) ==
    /\ w.pc \in {"tags", "rates", "solved"} /\ x.pc \in {"rates", "solved", "reply"}
    /\ x.filter = w.filter /\ x.page = w.page /\ x.found = w.found /\ x.total = w.total
    /\ x.seen = w.seen /\ x.expect = w.expect

\* Between the two counts and the reply the walk only gathers data on the page.
LEMMA Gathering ==
    ASSUME NEW w, NEW x, WalkOK(w), Grounded(x), DOMAIN x = DOMAIN NoWalk,
           SamePage(w, x)
    PROVE  WalkOK(x)
<1>1. ASSUME NEW p, Awaited(w, p) PROVE Awaited(x, p)
    BY <1>1, Zenon DEF Awaited, SamePage
<1> QED
    BY <1>1, ZenonT(40) DEF WalkOK, SamePage

\* The tags of the page's problems are read.
LEMMA StepGetProblemTags ==
    ASSUME IInv, GetProblemTags, TrackRemoval
    PROVE  IInv'
<1> PICK w : w = walk
    BY Zenon
<1> PICK t : t = [p \in w.found \cap Problems |-> links["tags"][p]]
    BY Zenon
<1> PICK x : x = [w EXCEPT !.pc = "rates", !.tags = t]
    BY Zenon
<1>1. w.pc = "tags" /\ walk' = x /\ UNCHANGED <<rows, requests>>
    BY Zenon DEF GetProblemTags
<1>2. WalkOK(w)
    BY Zenon DEF IInv
<1>3. /\ x.pc = "rates" /\ x.filter = w.filter /\ x.expect = w.expect /\ x.page = w.page
      /\ x.found = w.found /\ x.solved = w.solved /\ x.rates = w.rates /\ x.total = w.total
      /\ x.seen = w.seen /\ DOMAIN x = DOMAIN NoWalk
    BY <1>2, Zenon DEF WalkOK, NoWalk
<1>4. Grounded(x)
    BY <1>2, <1>3, ZenonT(40) DEF WalkOK, Grounded
<1>5. WalkOK(x)
    <2>1. SamePage(w, x)
        BY <1>1, <1>3, ZenonT(40) DEF SamePage
    <2> QED
        BY <1>2, <1>3, <1>4, <2>1, Gathering, ZenonT(40)
<1> QED
    BY <1>1, <1>3, <1>5, StepWalkTo, ZenonT(40)

\* The judged submissions of a problem are finitely many rows, and the problem exists.
LEMMA JudgedFacts ==
    ASSUME RowsInv, NEW p
    PROVE  /\ IsFiniteSet(Judged(p)) /\ Cardinality(Judged(p)) \in Nat
           /\ Judged(p) # {} => p \in 1 .. born /\ Cardinality(Judged(p)) > 0
<1> PICK J : J = Judged(p)
    BY Zenon
<1>1. IsFiniteSet(DOMAIN submissions) /\ J \subseteq DOMAIN submissions
    BY Zenon DEF RowsInv, Judged
<1>2. IsFiniteSet(J)
    BY <1>1, FS_Subset, ZenonT(40)
<1>3. Cardinality(J) \in Nat
    BY <1>2, FS_CardinalityType, ZenonT(40)
<1>4. J # {} => Cardinality(J) # 0
    BY <1>2, FS_EmptySet, ZenonT(40)
<1>5. J # {} => p \in 1 .. born
    <2>1. \A s \in DOMAIN submissions : submissions[s].problem \in 1 .. born
        BY Zenon DEF RowsInv, CatalogTypeOK
    <2> QED
        BY <2>1, ZenonT(40) DEF Judged
<1> QED
    BY <1>2, <1>3, <1>4, <1>5, SMTT(20)

\* What is accepted was accepted once.
LEMMA AcceptedOnce ==
    ASSUME RowsInv, NEW p, NEW s \in Judged(p), submissions[s].accepted
    PROVE  Accepted(p)
<1>1. s \in DOMAIN submissions /\ submissions[s] \in SubmissionRow
    BY Zenon DEF Judged, RowsInv
<1> QED
    BY <1>1, Zenon DEF Accepted, SubmissionRow

\* A rate counts the accepted ones among the judged submissions of a problem.
LEMMA StepGetAcceptanceRates ==
    ASSUME IInv, GetAcceptanceRates, TrackRemoval
    PROVE  IInv'
<1> PICK w : w = walk
    BY Zenon
<1> DEFINE A(p) == {s \in Judged(p) : submissions[s].accepted}
<1> PICK D : D = {p \in w.found : Judged(p) # {}}
    BY Zenon
<1> PICK R : R = [p \in D |-> <<Cardinality(A(p)), Cardinality(Judged(p))>>]
    BY Zenon
<1> PICK x : x = [w EXCEPT !.pc = "solved", !.rates = R]
    BY Zenon
<1>1. w.pc = "rates" /\ walk' = x /\ UNCHANGED <<rows, requests>>
    BY Zenon DEF GetAcceptanceRates
<1>2. WalkOK(w) /\ RowsInv
    BY Zenon DEF IInv
<1>3. /\ x.pc = "solved" /\ x.filter = w.filter /\ x.expect = w.expect /\ x.page = w.page
      /\ x.found = w.found /\ x.solved = w.solved /\ x.rates = R /\ x.total = w.total
      /\ x.seen = w.seen /\ DOMAIN x = DOMAIN NoWalk
    BY <1>2, ZenonT(40) DEF WalkOK, NoWalk
<1>4. ASSUME NEW p \in D
      PROVE  /\ p \in 1 .. born /\ R[p][1] \in Nat /\ R[p][2] \in Nat
             /\ R[p][1] <= R[p][2] /\ R[p][2] > 0
             /\ R[p][1] > 0 => Accepted(p)
    <2>1. R[p][1] = Cardinality(A(p)) /\ R[p][2] = Cardinality(Judged(p))
        BY <1>4, ZenonT(40)
    <2>2. IsFiniteSet(Judged(p)) /\ Cardinality(Judged(p)) \in Nat /\ Cardinality(Judged(p)) > 0
          /\ p \in 1 .. born
        BY <1>2, <1>4, JudgedFacts, ZenonT(40)
    <2>3. A(p) \subseteq Judged(p)
        BY Zenon
    <2>4. IsFiniteSet(A(p)) /\ Cardinality(A(p)) <= Cardinality(Judged(p))
        BY <2>2, <2>3, FS_Subset, ZenonT(40)
    <2>5. Cardinality(A(p)) \in Nat
        BY <2>4, FS_CardinalityType, ZenonT(40)
    <2>6. A(p) = {} => Cardinality(A(p)) = 0
        BY FS_EmptySet, ZenonT(40)
    <2>7. A(p) # {} => Accepted(p)
        BY <1>2, AcceptedOnce, Zenon
    <2> HIDE DEF A
    <2>8. Cardinality(A(p)) > 0 => Accepted(p)
        BY <2>5, <2>6, <2>7
    <2> QED
        BY <2>1, <2>2, <2>4, <2>5, <2>8, ZenonT(40)
<1>5. w.solved \subseteq w.found /\ \A p \in w.solved : p \in 1 .. born /\ (p \in Problems => Accepted(p))
    BY <1>2, ZenonT(40) DEF WalkOK, Grounded
<1>6. DOMAIN R = D
    BY Zenon
<1>7. Grounded(x)
    BY <1>3, <1>4, <1>5, <1>6, ZenonT(40) DEF Grounded
<1>8. WalkOK(x)
    <2>1. SamePage(w, x)
        BY <1>1, <1>3, ZenonT(40) DEF SamePage
    <2> QED
        BY <1>2, <1>3, <1>7, <2>1, Gathering, ZenonT(40)
<1> QED
    BY <1>1, <1>3, <1>8, StepWalkTo, ZenonT(40)

\* A problem is reported as solved on account of an accepted submission.
LEMMA StepGetSolvedProblemIDs ==
    ASSUME IInv, GetSolvedProblemIDs, TrackRemoval
    PROVE  IInv'
<1> PICK w : w = walk
    BY Zenon
<1> PICK D : D = {p \in w.found : \E s \in Judged(p) : submissions[s].accepted}
    BY Zenon
<1> PICK x : x = [w EXCEPT !.pc = "reply", !.solved = D]
    BY Zenon
<1>1. w.pc = "solved" /\ walk' = x /\ UNCHANGED <<rows, requests>>
    BY Zenon DEF GetSolvedProblemIDs
<1>2. WalkOK(w) /\ RowsInv
    BY Zenon DEF IInv
<1>3. /\ x.pc = "reply" /\ x.filter = w.filter /\ x.expect = w.expect /\ x.page = w.page
      /\ x.found = w.found /\ x.solved = D /\ x.rates = w.rates /\ x.total = w.total
      /\ x.seen = w.seen /\ DOMAIN x = DOMAIN NoWalk
    BY <1>2, Zenon DEF WalkOK, NoWalk
<1>4. ASSUME NEW p \in D PROVE p \in 1 .. born /\ Accepted(p) /\ p \in w.found
    <2>1. Judged(p) # {} /\ Accepted(p)
        BY <1>2, <1>4, AcceptedOnce, ZenonT(40)
    <2> QED
        BY <1>2, <1>4, <2>1, JudgedFacts, ZenonT(40)
<1>5. Grounded(x)
    BY <1>2, <1>3, <1>4, ZenonT(40) DEF WalkOK, Grounded
<1>6. WalkOK(x)
    <2>1. SamePage(w, x)
        BY <1>1, <1>3, ZenonT(40) DEF SamePage
    <2> QED
        BY <1>2, <1>3, <1>5, <2>1, Gathering, ZenonT(40)
<1> QED
    BY <1>1, <1>3, <1>6, StepWalkTo, ZenonT(40)

\* After a failed query the client asks for the same page again.
LEMMA StepListFails ==
    ASSUME IInv, ListFails, TrackRemoval
    PROVE  IInv'
<1> PICK w : w = walk
    BY Zenon
<1> PICK x : x = [w EXCEPT !.pc = "list"]
    BY Zenon
<1>1. w.pc \notin {"start", "done"} /\ walk' = x /\ UNCHANGED <<rows, requests>>
    BY Zenon DEF ListFails
<1>2. WalkOK(w)
    BY Zenon DEF IInv
<1>3. /\ x.pc = "list" /\ x.filter = w.filter /\ x.expect = w.expect /\ x.page = w.page
      /\ x.found = w.found /\ x.solved = w.solved /\ x.rates = w.rates /\ x.total = w.total
      /\ x.seen = w.seen /\ DOMAIN x = DOMAIN NoWalk
    BY <1>2, Zenon DEF WalkOK, NoWalk
<1>4. Grounded(x)
    BY <1>2, <1>3, ZenonT(40) DEF WalkOK, Grounded
<1>5. ASSUME NEW p, Awaited(w, p) PROVE Awaited(x, p)
    BY <1>3, <1>5, ZenonT(40) DEF Awaited
<1>6. WalkOK(x)
    BY <1>1, <1>2, <1>3, <1>4, <1>5, ZenonT(40) DEF WalkOK
<1> QED
    BY <1>1, <1>3, <1>6, StepWalkTo, ZenonT(40)

\* The client has seen the page and goes on, unless it was the last: then no
\* problem is awaited on a page after it.
LEMMA StepNextPage ==
    ASSUME IInv, NextPage, TrackRemoval
    PROVE  IInv'
<1> PICK w : w = walk
    BY Zenon
<1> PICK more : more = (w.page * PageSize < w.total)
    BY Zenon
<1> PICK x : x = [w EXCEPT !.pc = IF more THEN "list" ELSE "done",
                           !.page = IF more THEN w.page + 1 ELSE w.page,
                           !.seen = w.seen \cup w.found]
    BY Zenon
<1>1. WalkOK(w) /\ w.page \in Nat \ {0} /\ DOMAIN w = DOMAIN NoWalk
    BY Zenon DEF IInv, WalkOK
<1>2. w.pc = "reply" /\ UNCHANGED <<rows, requests>>
    BY Zenon DEF NextPage
<1>3. walk' = x
    BY <1>1, Zenon DEF NextPage, NoWalk
<1>4. /\ x.pc = (IF more THEN "list" ELSE "done") /\ x.filter = w.filter /\ x.expect = w.expect
      /\ x.page = (IF more THEN w.page + 1 ELSE w.page) /\ x.seen = w.seen \cup w.found
      /\ x.found = w.found /\ x.solved = w.solved /\ x.rates = w.rates /\ x.total = w.total
      /\ DOMAIN x = DOMAIN NoWalk
    BY <1>1, Zenon DEF NoWalk
<1>5. Grounded(x)
    BY <1>1, <1>4, ZenonT(40) DEF WalkOK, Grounded
<1>6. PageSize \in Nat /\ w.page * PageSize \in Nat /\ w.page + 1 - 1 = w.page
    BY <1>1, CatalogAssumption
<1>7. ASSUME NEW p, Awaited(w, p) PROVE p \in x.seen \/ Awaited(x, p)
    <2> SUFFICES ASSUME p \notin w.found PROVE Awaited(x, p)
        BY <1>4, Zenon
    <2>1. /\ p \in Matching(w.filter)
          /\ Rank(p, Matching(w.filter)) > w.page * PageSize /\ w.total > w.page * PageSize
        BY <1>2, <1>7, ZenonT(40) DEF Awaited
    <2>2. more
        BY <1>1, <1>6, <2>1, ZenonT(40) DEF WalkOK
    <2>3. x.pc = "list" /\ x.page - 1 = w.page
        BY <1>1, <1>4, <2>2
    <2> QED
        BY <1>4, <2>1, <2>3, ZenonT(40) DEF Awaited
<1>8. \A p \in w.expect : removed \/ p \in w.seen \/ Awaited(w, p)
    BY <1>1, <1>2, ZenonT(40) DEF WalkOK
<1>9. x.page \in Nat \ {0} /\ x.total \in Nat /\ x.pc \in {"list", "done"}
    BY <1>1, <1>4 DEF WalkOK
<1>10. WalkOK(x)
    BY <1>4, <1>5, <1>7, <1>8, <1>9, ZenonT(40) DEF WalkOK
<1> QED
    BY <1>2, <1>3, <1>4, <1>10, StepWalkTo, ZenonT(40)
-----------------------------------------------------------------------------
(* Every step.                                                               *)

\* A request that arrives.
LEMMA StepArrive ==
    ASSUME IInv, NEW q \in Requests, Arrive(q), TrackRemoval
    PROVE  IInv'
<1>1. ASSUME NEW t \in Titles, NEW v \in {"draft", "published"}, CreateProblem(q, t, v) PROVE IInv'
    BY <1>1, StepCreateProblem, ZenonT(40)
<1>2. ASSUME NEW p \in 1 .. born, NEW e \in Edits, UpdateProblem(q, p, e) PROVE IInv'
    BY <1>2, StepUpdateProblem, ZenonT(40)
<1>3. ASSUME NEW p \in 1 .. born, DeleteProblem(q, p) PROVE IInv'
    BY <1>3, StepDeleteProblem, ZenonT(40)
<1>4. ASSUME NEW p \in 1 .. born, NEW l \in TagLists, UpdateProblemTags(q, p, l) PROVE IInv'
    <2>1. IsSeq(l) /\ "tags" \in Kinds
        BY CatalogAssumption, ZenonT(40) DEF IsSeq, Kinds
    <2>2. BeginSet(q, "tags", p, l)
        BY <1>4, Zenon DEF UpdateProblemTags
    <2> QED
        BY <2>1, <2>2, StepBeginSet, ZenonT(40)
<1>5. ASSUME NEW p \in 1 .. born, NEW l \in LanguageLists, UpdateProblemLanguages(q, p, l) PROVE IInv'
    <2>1. IsSeq(l) /\ "languages" \in Kinds
        BY CatalogAssumption, ZenonT(40) DEF IsSeq, Kinds
    <2>2. BeginSet(q, "languages", p, Dedup(l))
        BY <1>5, ZenonT(40) DEF UpdateProblemLanguages
    <2>3. IsSeq(Dedup(l))
        BY <2>1, DedupIsSeq, ZenonT(40)
    <2> QED
        BY <2>1, <2>2, <2>3, StepBeginSet, ZenonT(40)
<1>6. ASSUME NEW n \in TagNames, CreateTag(q, n) PROVE IInv'
    BY <1>6, StepCreateTag, ZenonT(40)
<1>7. ASSUME NEW k \in LanguageKeys, NEW e \in BOOLEAN, CreateLanguage(q, k, e) PROVE IInv'
    BY <1>7, StepCreateLanguage, ZenonT(40)
<1>8. ASSUME NEW p \in 1 .. born, NEW h \in BOOLEAN, CreateTestCase(q, p, h) PROVE IInv'
    BY <1>8, StepCreateTestCase, ZenonT(40)
<1>9. ASSUME NEW t \in 1 .. MaxTests, NEW h \in BOOLEAN, UpdateTestCase(q, t, h) PROVE IInv'
    BY <1>9, StepChangeTestCase, ZenonT(40)
<1>10. ASSUME NEW t \in 1 .. MaxTests, DeleteTestCase(q, t) PROVE IInv'
    BY <1>10, StepChangeTestCase, ZenonT(40)
<1>11. ASSUME NEW p \in 1 .. born, GetHint(q, p) PROVE IInv'
    BY <1>11, StepGetHint, Zenon
<1>12. ASSUME NEW p \in Problems, NEW k \in {"submit", "run"}, Submit(q, p, k) PROVE IInv'
    BY <1>12, StepSubmit, ZenonT(40)
<1>13. ASSUME NEW f \in Filters, StartWalk(q, f) PROVE IInv'
    BY <1>13, StepStartWalk, Zenon
<1> QED
    BY <1>1, <1>2, <1>3, <1>4, <1>5, <1>6, <1>7, <1>8, <1>9, <1>10, <1>11, <1>12, <1>13, ZenonT(40) DEF Arrive

\* A request in progress makes a step or fails.
LEMMA StepRequest ==
    ASSUME IInv, NEW q \in Requests, RequestStep(q) \/ RequestFails(q), TrackRemoval
    PROVE  IInv'
<1>1. CASE RepoCreate(q)
    BY <1>1, StepRepoCreate, ZenonT(40)
<1>2. CASE RepoDelete(q)
    BY <1>2, StepRepoDelete, ZenonT(40)
<1>3. CASE DeleteSet(q)
    BY <1>3, StepDeleteSet, Zenon
<1>4. CASE InsertTag(q)
    BY <1>4, StepInsertTag, Zenon
<1>5. CASE InsertLanguage(q)
    BY <1>5, StepInsertLanguage, Zenon
<1>6. CASE CommitSet(q)
    BY <1>6, StepCommitSet, Zenon
<1>7. CASE DeadlockVictim(q)
    BY <1>7, StepEnd, ZenonT(40) DEF DeadlockVictim
<1>8. CASE InsertTagRow(q)
    BY <1>8, StepInsertTagRow, Zenon
<1>9. CASE SaveQuestion(q)
    BY <1>9, StepSaveQuestion, Zenon
<1>10. CASE GenerateText(q)
    BY <1>10, StepGenerateText, Zenon
<1>11. CASE SaveAnswer(q)
    BY <1>11, StepSaveAnswer, Zenon
<1>12. CASE StatementFails(q)
    BY <1>12, StepEnd, ZenonT(40) DEF StatementFails
<1>13. CASE GenerateTextFails(q)
    BY <1>13, StepEnd, ZenonT(40) DEF GenerateTextFails
<1> QED
    BY <1>1, <1>2, <1>3, <1>4, <1>5, <1>6, <1>7, <1>8, <1>9, <1>10, <1>11, <1>12, <1>13, ZenonT(40)
       DEF RequestStep, RequestFails

\* The walk goes on, or nothing happens.
LEMMA StepWalking ==
    ASSUME IInv, WalkStep \/ ListFails \/ Quiet, TrackRemoval
    PROVE  IInv'
<1>1. CASE WalkStep
    BY <1>1, StepRepoList, StepRepoCount, StepGetProblemTags, StepGetAcceptanceRates,
       StepGetSolvedProblemIDs, StepNextPage, ZenonT(40) DEF WalkStep
<1>2. CASE ListFails
    BY <1>2, StepListFails, ZenonT(40)
<1>3. CASE Quiet
    <2> PICK x : x = walk
        BY Zenon
    <2>1. UNCHANGED <<rows, requests>> /\ walk' = x /\ WalkOK(x) /\ x.filter = walk.filter
        BY <1>3, Zenon DEF Quiet, IInv
    <2> QED
        BY <2>1, StepWalkTo, ZenonT(40)
<1> QED
    BY <1>1, <1>2, <1>3, ZenonT(40)

\* No step leaves the invariant.
LEMMA NextIInv == IInv /\ [Next]_vars => IInv'
<1> SUFFICES ASSUME IInv, [Next]_vars PROVE IInv'
    BY Zenon
<1>1. CASE Next
    <2>1. TrackRemoval
        BY <1>1, Zenon DEF Next
    <2>2. ASSUME NEW q \in Requests, Arrive(q) \/ RequestStep(q) \/ RequestFails(q) PROVE IInv'
        BY <2>1, <2>2, StepArrive, StepRequest, ZenonT(40)
    <2>3. ASSUME NEW s \in DOMAIN submissions, NEW v, SaveResult(s, v) \/ UpdateStatus(s) PROVE IInv'
        BY <2>1, <2>3, StepStoreStatus, ZenonT(40)
    <2>4. CASE WalkStep \/ ListFails \/ Quiet
        BY <2>1, <2>4, StepWalking, ZenonT(40)
    <2> QED
        BY <1>1, <2>2, <2>3, <2>4, ZenonT(40) DEF Next
<1>2. CASE UNCHANGED vars
    <2> PICK x : x = walk
        BY Zenon
    <2>1. /\ UNCHANGED <<rows, requests>> /\ UNCHANGED rows /\ removed' = removed /\ walk' = x
          /\ WalkOK(x) /\ removed \in BOOLEAN
        BY <1>2, ZenonT(40) DEF vars, IInv
    <2>2. Grounded(x)' /\ \A p : Awaited(x, p) => Awaited(x, p)'
        BY <2>1, WalkRowsSame, ZenonT(40) DEF WalkOK
    <2>3. WalkOK(x)'
        BY <2>1, <2>2, ZenonT(40) DEF WalkOK
    <2> QED
        BY <2>1, <2>3, StepWalk, ZenonT(40)
<1> QED
    BY <1>1, <1>2, ZenonT(40)
-----------------------------------------------------------------------------
(* The theorems.                                                             *)

\* The strengthening holds in every reachable state.
THEOREM CatalogInvariant == Spec => []IInv
BY InitIInv, NextIInv, PTL DEF Spec

\* Rows refer to rows that exist and slugs are unique, whatever requests run at
\* the same time: no link, test case, submission or conversation outlives its
\* problem when Delete cascades.
THEOREM RowsAreConsistent == Spec => []CatalogTypeOK
<1>1. IInv => CatalogTypeOK
    BY ZenonT(40) DEF IInv, RowsInv
<1> QED
    BY CatalogInvariant, <1>1, PTL

\* The prompt that GetHint sends ends with its own question, once, after a
\* prefix of the stored conversation.
THEOREM PromptsAreFaithful == Spec => []PromptsFaithful
<1>1. IInv => PromptsFaithful
    <2> SUFFICES ASSUME IInv, NEW q \in Requests, NEW r, r = requests[q], r.pc \in {"ask", "reply"}
                 PROVE  /\ r.prompt[Len(r.prompt)] = Question(q)
                        /\ \A i \in DOMAIN r.prompt : r.prompt[i].by = q => i = Len(r.prompt)
                        /\ r.p \in Problems =>
                              /\ Len(r.prompt) - 1 <= Len(hints[r.p])
                              /\ \A i \in 1 .. Len(r.prompt) - 1 : r.prompt[i] = hints[r.p][i]
        BY ZenonT(40) DEF PromptsFaithful
    <2>1. Hinting(q, r)
        BY Zenon DEF IInv, RequestOK
    <2> QED
        BY <2>1, Zenon DEF Hinting, Agree
<1> QED
    BY CatalogInvariant, <1>1, PTL

\* What a page of ListProblems reports as solved or accepted comes from submissions
\* of kind submit that were accepted, although readers may write an older status
\* over that of one while the page is put together.
THEOREM PagesAreGrounded == Spec => []PageGrounded
<1>1. IInv => PageGrounded
    BY ZenonT(40) DEF IInv, WalkOK, Grounded, PageGrounded, Accepted
<1> QED
    BY CatalogInvariant, <1>1, PTL

\* A client that follows the pages to the end has seen every problem that was
\* listed when it began, unless some problem left the listing.
THEOREM NoProblemIsSkipped == Spec => []NoProblemSkipped
<1>1. IInv => NoProblemSkipped
    BY ZenonT(40) DEF IInv, WalkOK, Awaited, NoProblemSkipped
<1> QED
    BY CatalogInvariant, <1>1, PTL
-----------------------------------------------------------------------------
\* An update that commits leaves what it asked for.
LEMMA CommitMerges ==
    ASSUME IInv, NEW q \in Requests, CommitSet(q)
    PROVE  ChangedByUpdate
<1> PICK r : r = requests[q]
    BY Zenon
<1> PICK V : V = Visible(q)
    BY Zenon
<1> SUFFICES ASSUME NEW kind \in Kinds, NEW p \in Problems, links'[kind][p] # links[kind][p]
             PROVE  Merges(q, kind, p)
    BY Zenon DEF ChangedByUpdate
<1>1. RequestOK(q, r) /\ r.pc = "insert" /\ Updating(r) /\ r.rest = <<>>
    BY ZenonT(40) DEF IInv, CommitSet, RequestOK
<1>2. DOMAIN links = Kinds /\ DOMAIN links[kind] = Problems
    BY ZenonT(40) DEF IInv, RowsInv, CatalogTypeOK
<1>3. links' = IF r.p \in Problems THEN [links EXCEPT ![r.kind][r.p] = V] ELSE links
    BY Zenon DEF CommitSet
<1>4. r.kind = kind /\ r.p = p
    BY <1>2, <1>3, ZenonT(40)
<1>5. links'[kind][p] = V /\ V = (links[kind][p] \ r.deleted) \cup r.inserted
    BY <1>2, <1>3, <1>4, ZenonT(40) DEF Visible
<1>6. requests'[q].pc = "done"
    BY ZenonT(40) DEF CommitSet, Done, NoRequest
<1>7. Range(r.rest) = {}
    BY <1>1 DEF Range
<1>8. /\ r.inserted \subseteq Range(r.list) /\ links[kind][p] \ r.deleted \subseteq r.since
      /\ Range(r.list) \subseteq Range(r.rest) \cup r.inserted \cup
            IF kind = "tags" THEN {} ELSE (links[kind][p] \ r.deleted) \cup r.undone
    BY <1>1, <1>4, ZenonT(40) DEF Updating
<1>9. /\ V \subseteq Range(r.list) \cup r.since
      /\ Range(r.list) \subseteq V \cup (IF kind = "tags" THEN {} ELSE r.undone)
    BY <1>5, <1>7, <1>8, ZenonT(40)
<1> QED
    BY <1>1, <1>4, <1>5, <1>6, <1>9, ZenonT(40) DEF Merges

\* A new problem and one that is deleted leave the sets of the others alone.
LEMMA OtherSetsKept ==
    ASSUME IInv, NEW q \in Requests, InsertProblem(q) \/ RepoDelete(q)
    PROVE  LinksKept
<1>1. RowsInv /\ CatalogTypeOK /\ born \in Nat
    BY Zenon DEF IInv, RowsInv
<1>2. CASE InsertProblem(q)
    <2>1. links' = [kind \in Kinds |-> Insert(links[kind], born + 1, {})]
        BY <1>2, Zenon DEF InsertProblem
    <2>2. born + 1 \notin Problems
        <3>1. Problems \subseteq 1 .. born
            BY <1>1, ZenonT(40) DEF CatalogTypeOK
        <3>2. born + 1 \notin 1 .. born
            BY <1>1
        <3> QED
            BY <3>1, <3>2, ZenonT(40)
    <2>3. ASSUME NEW kind \in Kinds, NEW p \in Problems PROVE links'[kind][p] = links[kind][p]
        <3>1. links'[kind] = Insert(links[kind], born + 1, {}) /\ DOMAIN links[kind] = Problems
            BY <1>1, <2>1, ZenonT(40) DEF CatalogTypeOK
        <3> QED
            BY <2>2, <3>1, ZenonT(40) DEF Insert
    <2> QED
        BY <2>3, ZenonT(40) DEF LinksKept
<1>3. CASE RepoDelete(q)
    <2> PICK gone : gone = {requests[q].p}
        BY Zenon
    <2>1. links' = [kind \in Kinds |-> Without(links[kind], gone)] /\ problems' = Without(problems, gone)
        BY <1>3, ZenonT(40) DEF RepoDelete
    <2>2. Problems' = Problems \ gone
        BY <2>1, ZenonT(40) DEF Problems, Without, Restrict
    <2>3. ASSUME NEW kind \in Kinds, NEW p \in Problems' PROVE links'[kind][p] = links[kind][p]
        <3>1. links'[kind] = Without(links[kind], gone) /\ DOMAIN links[kind] = Problems
            BY <1>1, <2>1, ZenonT(40) DEF CatalogTypeOK
        <3> QED
            BY <2>2, <3>1, ZenonT(40) DEF Without, Restrict
    <2> QED
        BY <2>3, Zenon DEF LinksKept
<1> QED
    BY <1>2, <1>3, ZenonT(40)

\* Everything else leaves the links table alone.
LEMMA NextChangedByUpdate == IInv /\ [Next]_vars => [ChangedByUpdate]_vars
<1> SUFFICES ASSUME IInv, Next PROVE ChangedByUpdate
    BY Zenon
<1>1. LinksKept => ChangedByUpdate
    BY Zenon DEF LinksKept, ChangedByUpdate
<1>2. links' = links => ChangedByUpdate
    BY Zenon DEF ChangedByUpdate
<1>3. UNCHANGED rows => links' = links
    BY Zenon DEF rows
<1>4. ASSUME NEW q \in Requests, Arrive(q) PROVE links' = links
    BY <1>3, <1>4, ZenonT(40) DEF Arrive, CreateProblem, UpdateProblem, DeleteProblem, UpdateProblemTags,
       UpdateProblemLanguages, BeginSet, CreateTag, CreateLanguage, CreateTestCase, UpdateTestCase,
       DeleteTestCase, GetHint, Submit, StartWalk
<1>5. ASSUME NEW q \in Requests, RequestStep(q) \/ RequestFails(q)
      PROVE  links' = links \/ InsertProblem(q) \/ RepoDelete(q) \/ CommitSet(q)
    BY <1>3, <1>5, ZenonT(40) DEF RequestStep, RequestFails, RepoCreate, DeleteSet, InsertTag, InsertLanguage,
       DeadlockVictim, InsertTagRow, SaveQuestion, GenerateText, SaveAnswer, StatementFails,
       GenerateTextFails
<1>6. ASSUME NEW q \in Requests, Arrive(q) \/ RequestStep(q) \/ RequestFails(q) PROVE ChangedByUpdate
    BY <1>1, <1>2, <1>4, <1>5, <1>6, CommitMerges, OtherSetsKept, ZenonT(40)
<1>7. ASSUME NEW s \in DOMAIN submissions, NEW v, SaveResult(s, v) \/ UpdateStatus(s) PROVE links' = links
    BY <1>7, ZenonT(40) DEF SaveResult, UpdateStatus
<1>8. ASSUME WalkStep \/ ListFails \/ Quiet PROVE links' = links
    BY <1>3, <1>8, ZenonT(40) DEF WalkStep, ListFails, Quiet, RepoList, RepoCount, GetProblemTags,
       GetAcceptanceRates, GetSolvedProblemIDs, NextPage
<1> QED
    BY <1>2, <1>6, <1>7, <1>8, ZenonT(40) DEF Next

\* SetsMerge: the tags or languages of a problem change only when an update
\* commits, to what it asked for and what the updates that SetProblemTags or
\* SetForProblem ran beside it have committed meanwhile.
THEOREM SetsOnlyMerge == Spec => SetsMerge
BY CatalogInvariant, NextChangedByUpdate, PTL DEF Spec, SetsMerge
=============================================================================
