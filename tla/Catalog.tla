------------------------------- MODULE Catalog -------------------------------
(***************************************************************************)
(* The problem catalogue of the API: problems and their slugs, tags,          *)
(* languages, test cases and hint conversations, the requests that change     *)
(* them, and a client that walks through the pages of ListProblems.           *)
(*                                                                          *)
(* Every statement runs under READ COMMITTED: it sees what is committed when  *)
(* it starts, waits for the row locks it needs, and what it changed is seen   *)
(* by others when its transaction commits.  Problem ids are ranks of          *)
(* insertion, and no two are inserted in the same microsecond, so that ORDER  *)
(* BY created_at is the order on ids.                                         *)
(***************************************************************************)
EXTENDS Slugs, FiniteSetsExt

CONSTANTS
    MaxRequests,     \* bound: requests, and walks of a client, numbered as they arrive
    TagNames, LanguageKeys,
    Titles,          \* titles of CreateProblem, as sequences of characters
    Edits,           \* bodies of UpdateProblem: [slug, visibility]
    TagLists, LanguageLists,  \* bodies of the two updates of a problem's sets
    Filters,         \* what a client lists: [visibility, tags]
    Seed,            \* rows at the start: [slug, visibility, tags, languages, hidden]
    SlugAttempts,    \* attempts of CreateProblem (10)
    DefaultLimit, MaxLimit,   \* 50 and 100
    PageSize,        \* limit the client asks for
    MaxProblems, MaxTests, MaxSubmissions,  \* bounds: rows ever inserted
    Faults           \* which faults happen: of db, ai

Requests == 1 .. MaxRequests
Visibility == {"draft", "published", "archived"}

\* The rows at the start satisfy the unique index on slugs; the client asks for
\* pages of a size that the service grants (20 and 15 of at most 100).  Titles are
\* strings, and the number of an attempt has at most two digits.
ASSUME CatalogAssumption ==
    /\ MaxRequests \in Nat /\ Len(Seed) \in Nat /\ DOMAIN Seed = 1 .. Len(Seed)
    /\ \A p \in DOMAIN Seed : Seed[p].visibility \in Visibility
    /\ \A p, o \in DOMAIN Seed : p # o => Seed[p].slug # Seed[o].slug
    /\ \A list \in Titles \cup TagLists \cup LanguageLists : list \in Seq(Range(list))
    /\ SlugAttempts \in 1 .. 99
    /\ MaxLimit \in Nat /\ PageSize \in 1 .. MaxLimit /\ MaxSubmissions \in Nat

VARIABLES
    problems,     \* id -> [slug, visibility]
    born,         \* how many problems were inserted
    tags,         \* the tags table
    languages,    \* key -> is_enabled
    links,        \* problem_tags and problem_languages: kind -> id -> set
    tests,        \* problem_test_cases: id -> [problem, active, hidden]
    submissions,  \* id -> [problem, kind, accepted], of one user; once: was accepted
    hints,        \* hint_messages of that user: id -> sequence of [role, by]
    requests,
    walk,         \* the client and its ListProblems call
    removed       \* history: some problem left the listing during the walk

rows == <<problems, born, tags, languages, links, tests, submissions, hints>>
vars == <<rows, requests, walk, removed>>
-----------------------------------------------------------------------------
Kinds == {"tags", "languages"}
NoSlug == <<"nil">>

NoRequest == [pc |-> "idle", kind |-> "", p |-> 0, base |-> <<>>, slug |-> <<>>, i |-> 0,
              visibility |-> "draft", list |-> <<>>, rest |-> <<>>, snap |-> {},
              deleted |-> {}, inserted |-> {}, since |-> {}, undone |-> {}, prompt |-> <<>>]
NoWalk == [pc |-> "start", filter |-> [visibility |-> "any", tags |-> {}], page |-> 1,
           found |-> {}, total |-> 0, tags |-> <<>>, rates |-> <<>>, solved |-> {},
           seen |-> {}, expect |-> {}]

Init ==
    /\ problems = [p \in DOMAIN Seed |-> [slug |-> Seed[p].slug, visibility |-> Seed[p].visibility]]
    /\ born = Len(Seed)
    /\ tags = UNION {Seed[p].tags : p \in DOMAIN Seed}
    /\ languages = [k \in UNION {Seed[p].languages : p \in DOMAIN Seed} |-> TRUE]
    /\ links = [kind \in Kinds |-> [p \in DOMAIN Seed |-> Seed[p][kind]]]
    /\ tests = [t \in DOMAIN Seed |-> [problem |-> t, active |-> TRUE, hidden |-> Seed[t].hidden]]
    /\ submissions = <<>>
    /\ hints = [p \in DOMAIN Seed |-> <<>>]
    /\ requests = [q \in Requests |-> NoRequest]
    /\ walk = NoWalk
    /\ removed = FALSE

Problems == DOMAIN problems
Without(table, gone) == Restrict(table, DOMAIN table \ gone)
Insert(table, key, row) == [k \in DOMAIN table \cup {key} |-> IF k = key THEN row ELSE table[k]]

Unused(table, max) == (1 .. max) \ DOMAIN table

Done == [NoRequest EXCEPT !.pc = "done"]
End(q) == requests' = [requests EXCEPT ![q] = Done]
Starts(q) == requests[q].pc = "idle" /\ \A o \in 1 .. q - 1 : requests[o].pc # "idle"
-----------------------------------------------------------------------------
(* Locks.  A transaction on a problem's set holds the rows it deleted and     *)
(* inserted, and through the foreign key of the latter the problem's row; a    *)
(* DELETE of a problem holds that row until its cascades are done.            *)

Open(r) == requests[r].pc = "insert"
SameSet(r, q) == requests[r].p = requests[q].p /\ requests[r].kind = requests[q].kind
Holds(r) == requests[r].deleted \cup requests[r].inserted

RowHolders(q, row) == {r \in Requests \ {q} : Open(r) /\ SameSet(r, q) /\ row \in Holds(r)}
Deleters(p) == {r \in Requests : requests[r].pc = "cascade" /\ requests[r].p = p}
KeySharers(p) == {r \in Requests : Open(r) /\ requests[r].p = p /\ requests[r].inserted # {}}
SetHolders(p) == {r \in Requests : Open(r) /\ requests[r].p = p /\ requests[r].deleted # {}}

\* The requests that the statement of q waits for.
WaitsFor(q) ==
    LET r == requests[q] IN
    CASE r.pc = "deleting" -> UNION {RowHolders(q, row) : row \in r.snap}
      [] r.pc = "insert" /\ r.rest # <<>> -> RowHolders(q, Head(r.rest)) \cup Deleters(r.p)
      [] r.pc = "cascade" -> SetHolders(r.p)
      [] r.pc \in {"save", "reply"} -> Deleters(r.p)
      [] OTHER -> {}
Ready(q, pc) == requests[q].pc = pc /\ WaitsFor(q) = {}
-----------------------------------------------------------------------------
(* Problems.  Requests that validation refuses change nothing.               *)

validateCreateRequest(title, visibility) == title # <<>> /\ visibility \in Visibility
validateUpdateRequest(edit) == edit.slug # <<>> /\ edit.visibility \in Visibility \cup {"nil"}

CreateProblem(q, title, visibility) ==
    /\ Starts(q)
    /\ validateCreateRequest(title, visibility)
    /\ requests' = [requests EXCEPT ![q] =
          [NoRequest EXCEPT !.pc = "create", !.base = GenerateSlug(title),
                            !.slug = GenerateSlug(title), !.i = 1, !.visibility = visibility]]
    /\ UNCHANGED <<rows, walk>>

Taken(slug) == \E p \in Problems : problems[p].slug = slug

InsertProblem(q) ==
    LET id == born + 1 IN
    /\ ~ Taken(requests[q].slug)
    /\ born < MaxProblems
    /\ born' = id
    /\ problems' = Insert(problems, id, [slug |-> requests[q].slug,
                                         visibility |-> requests[q].visibility])
    /\ links' = [kind \in Kinds |-> Insert(links[kind], id, {})]
    /\ hints' = Insert(hints, id, <<>>)
    /\ End(q)
    /\ UNCHANGED <<tags, languages, tests, submissions, walk>>

\* Mutant: a conflict is answered with the same slug, without counting.
RepoCreateForEver(q) ==
    /\ requests[q].pc = "create"
    /\ \/ InsertProblem(q)
       \/ Taken(requests[q].slug) /\ UNCHANGED <<rows, requests, walk>>

\* One turn of the loop: on a conflict the next slug, at most SlugAttempts times.
RepoCreate(q) ==
    LET r == requests[q] IN
    /\ r.pc = "create"
    /\ \/ InsertProblem(q)
       \/ /\ Taken(r.slug)
          /\ requests' = [requests EXCEPT ![q] =
                [r EXCEPT !.slug = NumberedSlug(r.base, r.i),
                          !.i = @ + 1, !.pc = IF r.i < SlugAttempts THEN "create" ELSE "gaveup"]]
          /\ UNCHANGED <<rows, walk>>

\* Only the fields the body has are set.
RepoUpdate(p, edit) ==
    problems' = IF p \in Problems /\ (edit.slug \in {NoSlug, problems[p].slug} \/ ~ Taken(edit.slug))
                THEN [problems EXCEPT
                        ![p].slug = IF edit.slug = NoSlug THEN @ ELSE edit.slug,
                        ![p].visibility = IF edit.visibility = "nil" THEN @ ELSE edit.visibility]
                ELSE problems

\* One statement.  A new slug is a key of the row: it waits for key sharers.
UpdateProblem(q, p, edit) ==
    /\ Starts(q)
    /\ validateUpdateRequest(edit)
    /\ Deleters(p) = {}
    /\ edit.slug # NoSlug => KeySharers(p) = {}
    /\ RepoUpdate(p, edit)
    /\ End(q)
    /\ UNCHANGED <<born, tags, languages, links, tests, submissions, hints, walk>>

\* The row is locked first; every other table cascades.
DeleteProblem(q, p) ==
    /\ Starts(q)
    /\ KeySharers(p) = {}
    /\ Deleters(p) = {}
    /\ requests' = [requests EXCEPT ![q] = IF p \in Problems
                                           THEN [NoRequest EXCEPT !.pc = "cascade", !.p = p]
                                           ELSE Done]
    /\ UNCHANGED <<rows, walk>>

\* Mutant: the test cases do not cascade.
RepoDeleteLeavesTests(q) ==
    LET gone == {requests[q].p} IN
    /\ Ready(q, "cascade")
    /\ problems' = Without(problems, gone)
    /\ links' = [kind \in Kinds |-> Without(links[kind], gone)]
    /\ hints' = Without(hints, gone)
    /\ End(q)
    /\ UNCHANGED <<born, tags, languages, tests, submissions, walk>>

RepoDelete(q) ==
    LET gone == {requests[q].p} IN
    /\ Ready(q, "cascade")
    /\ problems' = Without(problems, gone)
    /\ links' = [kind \in Kinds |-> Without(links[kind], gone)]
    /\ tests' = Without(tests, {t \in DOMAIN tests : tests[t].problem \in gone})
    /\ submissions' = Without(submissions, {s \in DOMAIN submissions : submissions[s].problem \in gone})
    /\ hints' = Without(hints, gone)
    /\ End(q)
    /\ UNCHANGED <<born, tags, languages, walk>>
-----------------------------------------------------------------------------
(* Replacing the tags or the languages of a problem: one transaction that      *)
(* deletes the set and inserts the new one row by row.                        *)

\* BeginTx and the start of the DELETE, which sees the rows committed by now.
BeginSet(q, kind, p, list) ==
    /\ Starts(q)
    /\ requests' = [requests EXCEPT ![q] =
          [NoRequest EXCEPT !.pc = "deleting", !.kind = kind, !.p = p, !.list = list, !.rest = list,
                            !.snap = IF p \in Problems THEN links[kind][p] ELSE {}]]
    /\ UNCHANGED <<rows, walk>>

UpdateProblemTags(q, p, list) == BeginSet(q, "tags", p, list)

\* The ids are deduplicated, the first of each kept.
Firsts(list) == {i \in DOMAIN list : \A j \in 1 .. i - 1 : list[j] # list[i]}
Dedup(list) == Pick(list, Firsts(list))
UpdateProblemLanguages(q, p, list) == BeginSet(q, "languages", p, Dedup(list))

\* Mutant: the delete is left out.
DeleteSetSkipped(q) ==
    /\ Ready(q, "deleting")
    /\ requests' = [requests EXCEPT ![q].pc = "insert"]
    /\ UNCHANGED <<rows, walk>>

\* The rows it waited for are skipped when their holder deleted them.
DeleteSet(q) ==
    /\ Ready(q, "deleting")
    /\ requests' = [requests EXCEPT ![q].pc = "insert", ![q].deleted = requests[q].snap]
    /\ UNCHANGED <<rows, walk>>

\* What the transaction of q sees of its set.
Visible(q) ==
    LET r == requests[q] IN
    IF r.p \in Problems THEN (links[r.kind][r.p] \ r.deleted) \cup r.inserted ELSE {}
Inserted(q) ==
    LET r == requests[q] IN
    [r EXCEPT !.rest = Tail(@), !.inserted = @ \cup {Head(r.rest)}]

\* A row that is there already, an unknown tag or a deleted problem is an
\* error, and the deferred Rollback undoes the transaction.
InsertTag(q) ==
    LET r == requests[q] IN
    /\ Ready(q, "insert")
    /\ r.kind = "tags"
    /\ r.rest # <<>>
    /\ IF r.p \in Problems /\ Head(r.rest) \in tags /\ Head(r.rest) \notin Visible(q)
       THEN requests' = [requests EXCEPT ![q] = Inserted(q)]
       ELSE End(q)
    /\ UNCHANGED <<rows, walk>>

\* ON CONFLICT DO NOTHING.
InsertLanguage(q) ==
    LET r == requests[q] IN
    /\ Ready(q, "insert")
    /\ r.kind = "languages"
    /\ r.rest # <<>>
    /\ CASE Head(r.rest) \in Visible(q) -> requests' = [requests EXCEPT ![q].rest = Tail(@)]
         [] Head(r.rest) \notin Visible(q) /\ r.p \in Problems /\ Head(r.rest) \in DOMAIN languages ->
              requests' = [requests EXCEPT ![q] = Inserted(q)]
         [] OTHER -> End(q)
    /\ UNCHANGED <<rows, walk>>

\* For the others on the same set, since and undone record what it changed.
CommitSet(q) ==
    LET r == requests[q] IN
    /\ r.pc = "insert"
    /\ r.rest = <<>>
    /\ links' = IF r.p \in Problems THEN [links EXCEPT ![r.kind][r.p] = Visible(q)] ELSE links
    /\ requests' = [o \in Requests |->
          CASE o = q -> Done
            [] o # q /\ requests[o].pc \in {"deleting", "insert"} /\ SameSet(o, q) ->
                 [requests[o] EXCEPT !.snap = @ \ r.deleted, !.since = @ \cup r.inserted,
                                     !.undone = @ \cup r.deleted]
            [] OTHER -> requests[o]]
    /\ UNCHANGED <<problems, born, tags, languages, tests, submissions, hints, walk>>

\* The database breaks a cycle of waiting statements: one of them fails.
Cycle(S) == S # {} /\ \A r \in S : WaitsFor(r) \cap S # {}
DeadlockVictim(q) ==
    /\ \E S \in SUBSET Requests : q \in S /\ Cycle(S) /\ \A T \in SUBSET S : Cycle(T) => T = S
    /\ End(q)
    /\ UNCHANGED <<rows, walk>>
-----------------------------------------------------------------------------
(* Tags, languages and test cases.                                           *)

\* GetByName: an existing tag is returned.
CreateTag(q, name) ==
    /\ Starts(q)
    /\ requests' = [requests EXCEPT ![q] =
          IF name \in tags THEN Done
                           ELSE [NoRequest EXCEPT !.pc = "tag", !.list = <<name>>]]
    /\ UNCHANGED <<rows, walk>>

\* A name that another request inserted in between is an error.
InsertTagRow(q) ==
    /\ requests[q].pc = "tag"
    /\ tags' = tags \cup {Head(requests[q].list)}
    /\ End(q)
    /\ UNCHANGED <<problems, born, languages, links, tests, submissions, hints, walk>>

\* INSERT ... ON CONFLICT (key) DO UPDATE.
Upsert(key, enabled) == languages' = Insert(languages, key, enabled)

CreateLanguage(q, key, enabled) ==
    /\ Starts(q)
    /\ Upsert(key, enabled)
    /\ End(q)
    /\ UNCHANGED <<problems, born, tags, links, tests, submissions, hints, walk>>

RepoCreateTestCase(p, hidden) ==
    tests' = IF p \in Problems
             THEN Insert(tests, Min(Unused(tests, MaxTests)),
                         [problem |-> p, active |-> TRUE, hidden |-> hidden])
             ELSE tests

RepoUpdateTestCase(t, hidden) ==
    tests' = IF t \in DOMAIN tests /\ tests[t].active
             THEN [tests EXCEPT ![t].hidden = hidden] ELSE tests

\* A test case is kept, and no longer active.
RepoDeleteTestCase(t) ==
    tests' = IF t \in DOMAIN tests THEN [tests EXCEPT ![t].active = FALSE] ELSE tests

CreateTestCase(q, p, hidden) ==
    /\ Starts(q)
    /\ Deleters(p) = {}
    /\ Unused(tests, MaxTests) # {}
    /\ RepoCreateTestCase(p, hidden)
    /\ End(q)
    /\ UNCHANGED <<problems, born, tags, languages, links, submissions, hints, walk>>

UpdateTestCase(q, t, hidden) ==
    /\ Starts(q)
    /\ RepoUpdateTestCase(t, hidden)
    /\ End(q)
    /\ UNCHANGED <<problems, born, tags, languages, links, submissions, hints, walk>>

DeleteTestCase(q, t) ==
    /\ Starts(q)
    /\ RepoDeleteTestCase(t)
    /\ End(q)
    /\ UNCHANGED <<problems, born, tags, languages, links, submissions, hints, walk>>
-----------------------------------------------------------------------------
(* Hints.                                                                    *)

Question(q) == [role |-> "user", by |-> q]
Answer(q) == [role |-> "assistant", by |-> q]

\* Both are of the same user and problem, in the order they were saved.
GetHintHistory(p) == hints[p]
SaveHintMessage(p, message) == hints' = [hints EXCEPT ![p] = Append(@, message)]

\* GetProblem and GetHintHistory.
GetHint(q, p) ==
    /\ Starts(q)
    /\ p \in Problems
    /\ requests' = [requests EXCEPT ![q] = [NoRequest EXCEPT !.pc = "save", !.p = p,
                                                             !.prompt = GetHintHistory(p)]]
    /\ UNCHANGED <<rows, walk>>

\* Mutant: the history is loaded after the question was saved.
SaveQuestionFirst(q) ==
    LET p == requests[q].p IN
    /\ Ready(q, "save")
    /\ p \in Problems
    /\ SaveHintMessage(p, Question(q))
    /\ requests' = [requests EXCEPT ![q].pc = "ask",
                                    ![q].prompt = hints[p] \o <<Question(q), Question(q)>>]
    /\ UNCHANGED <<problems, born, tags, languages, links, tests, submissions, walk>>

SaveQuestion(q) ==
    LET p == requests[q].p IN
    /\ Ready(q, "save")
    /\ IF p \in Problems
       THEN /\ SaveHintMessage(p, Question(q))
            /\ requests' = [requests EXCEPT ![q].pc = "ask",
                                            ![q].prompt = Append(@, Question(q))]
       ELSE End(q) /\ UNCHANGED hints
    /\ UNCHANGED <<problems, born, tags, languages, links, tests, submissions, walk>>

GenerateText(q) ==
    /\ requests[q].pc = "ask"
    /\ requests' = [requests EXCEPT ![q].pc = "reply"]
    /\ UNCHANGED <<rows, walk>>

\* The question stays, without an answer.
GenerateTextFails(q) ==
    /\ "ai" \in Faults
    /\ requests[q].pc = "ask"
    /\ End(q)
    /\ UNCHANGED <<rows, walk>>

SaveAnswer(q) ==
    LET p == requests[q].p IN
    /\ Ready(q, "reply")
    /\ IF p \in Problems THEN SaveHintMessage(p, Answer(q)) ELSE UNCHANGED hints
    /\ End(q)
    /\ UNCHANGED <<problems, born, tags, languages, links, tests, submissions, walk>>

\* A statement fails: the request is answered with an error, and a transaction
\* is rolled back.
StatementFails(q) ==
    /\ "db" \in Faults
    /\ requests[q].pc \notin {"idle", "done", "gaveup"}
    /\ End(q)
    /\ UNCHANGED <<rows, walk>>
-----------------------------------------------------------------------------
(* Submissions, as far as the listing reads them.                            *)

Submit(q, p, kind) ==
    /\ Starts(q)
    /\ p \in Problems
    /\ Deleters(p) = {}
    /\ Unused(submissions, MaxSubmissions) # {}
    /\ submissions' = Insert(submissions, Min(Unused(submissions, MaxSubmissions)),
                             [problem |-> p, kind |-> kind, accepted |-> FALSE, once |-> FALSE])
    /\ End(q)
    /\ UNCHANGED <<problems, born, tags, languages, links, tests, hints, walk>>

\* GetSubmission stores a verdict.
SaveResult(s, verdict) ==
    /\ submissions' = [submissions EXCEPT ![s].accepted = (verdict = "accepted"),
                                          ![s].once = @ \/ verdict = "accepted"]
    /\ UNCHANGED <<problems, born, tags, languages, links, tests, hints, requests, walk>>

\* GetSubmission stores the status of a job it read before: an accepted submission
\* may be back to running, until the next reader.
UpdateStatus(s) ==
    /\ submissions' = [submissions EXCEPT ![s].accepted = FALSE]
    /\ UNCHANGED <<problems, born, tags, languages, links, tests, hints, requests, walk>>
-----------------------------------------------------------------------------
(* ListProblems, and a client that asks for page after page.  The queries of   *)
(* one call are separate statements.  Difficulty and search are conditions on  *)
(* the row like visibility.                                                  *)

\* The WHERE clause of List and Count.
Matching(filter) ==
    {p \in Problems : /\ filter.visibility \in {"any", problems[p].visibility}
                      /\ filter.tags = {} \/ filter.tags \cap links["tags"][p] # {}}

\* Without the two permissions only published problems may be listed.
StartWalk(q, f) ==
    /\ Starts(q)
    /\ walk.pc = "start"
    /\ f.canUnpublished \/ f.visibility \in {"", "published"}
    /\ LET visibility == IF f.visibility # "" THEN f.visibility
                         ELSE IF f.canUnpublished THEN "any" ELSE "published"
           filter == [visibility |-> visibility, tags |-> f.tags]
       IN  walk' = [walk EXCEPT !.pc = "list", !.filter = filter, !.expect = Matching(filter)]
    /\ End(q)
    /\ UNCHANGED rows

Limit == IF PageSize <= 0 THEN DefaultLimit ELSE IF PageSize > MaxLimit THEN MaxLimit ELSE PageSize
Offset == (walk.page - 1) * PageSize

\* Place of a row under ORDER BY created_at DESC.
Rank(p, S) == Cardinality({o \in S : o >= p})
Page(S, offset) == {p \in S : offset < Rank(p, S) /\ Rank(p, S) <= offset + Limit}

\* Mutant: the offset is one too large.
RepoListShifted ==
    /\ walk.pc = "list"
    /\ walk' = [walk EXCEPT !.pc = "count", !.found = Page(Matching(walk.filter), Offset + 1),
                            !.solved = {}, !.rates = <<>>, !.tags = <<>>]
    /\ UNCHANGED <<rows, requests>>

RepoList ==
    /\ walk.pc = "list"
    /\ walk' = [walk EXCEPT !.pc = "count", !.found = Page(Matching(walk.filter), Offset),
                            !.solved = {}, !.rates = <<>>, !.tags = <<>>]
    /\ UNCHANGED <<rows, requests>>

\* An empty page is answered at once.
RepoCount ==
    /\ walk.pc = "count"
    /\ walk' = [walk EXCEPT !.total = Cardinality(Matching(walk.filter)),
                            !.pc = IF walk.found = {} THEN "reply" ELSE "tags"]
    /\ UNCHANGED <<rows, requests>>

GetProblemTags ==
    /\ walk.pc = "tags"
    /\ walk' = [walk EXCEPT !.pc = "rates",
                            !.tags = [p \in walk.found \cap Problems |-> links["tags"][p]]]
    /\ UNCHANGED <<rows, requests>>

Judged(p) == {s \in DOMAIN submissions : submissions[s].problem = p /\ submissions[s].kind = "submit"}

\* The rate as the pair of counts it is the quotient of.
GetAcceptanceRates ==
    /\ walk.pc = "rates"
    /\ walk' = [walk EXCEPT !.pc = "solved",
                  !.rates = [p \in {x \in walk.found : Judged(x) # {}} |->
                               <<Cardinality({s \in Judged(p) : submissions[s].accepted}),
                                 Cardinality(Judged(p))>>]]
    /\ UNCHANGED <<rows, requests>>

\* Mutant: runs count too.
GetSolvedProblemIDsAnyKind ==
    /\ walk.pc = "solved"
    /\ walk' = [walk EXCEPT !.pc = "reply",
                  !.solved = {p \in walk.found : \E s \in DOMAIN submissions :
                                submissions[s].problem = p /\ submissions[s].accepted}]
    /\ UNCHANGED <<rows, requests>>

GetSolvedProblemIDs ==
    /\ walk.pc = "solved"
    /\ walk' = [walk EXCEPT !.pc = "reply",
                  !.solved = {p \in walk.found : \E s \in Judged(p) : submissions[s].accepted}]
    /\ UNCHANGED <<rows, requests>>

\* A query fails, and the client asks for the page again.
ListFails ==
    /\ "db" \in Faults
    /\ walk.pc \in {"count", "tags", "rates", "solved"}
    /\ walk' = [walk EXCEPT !.pc = "list"]
    /\ UNCHANGED <<rows, requests>>

\* ceil(total / limit) pages.
NextPage ==
    /\ walk.pc = "reply"
    /\ walk' = [walk EXCEPT !.pc = IF walk.page * PageSize < walk.total THEN "list" ELSE "done",
                            !.page = IF walk.page * PageSize < walk.total THEN @ + 1 ELSE @,
                            !.seen = @ \cup walk.found]
    /\ UNCHANGED <<rows, requests>>
-----------------------------------------------------------------------------
Arrive(q) ==
    \/ \E t \in Titles, v \in {"draft", "published"} : CreateProblem(q, t, v)
    \/ \E p \in 1 .. born, e \in Edits : UpdateProblem(q, p, e)
    \/ \E p \in 1 .. born : DeleteProblem(q, p)
    \/ \E p \in 1 .. born, l \in TagLists : UpdateProblemTags(q, p, l)
    \/ \E p \in 1 .. born, l \in LanguageLists : UpdateProblemLanguages(q, p, l)
    \/ \E n \in TagNames : CreateTag(q, n)
    \/ \E k \in LanguageKeys, e \in BOOLEAN : CreateLanguage(q, k, e)
    \/ \E p \in 1 .. born, h \in BOOLEAN : CreateTestCase(q, p, h)
    \/ \E t \in 1 .. MaxTests, h \in BOOLEAN : UpdateTestCase(q, t, h)
    \/ \E t \in 1 .. MaxTests : DeleteTestCase(q, t)
    \/ \E p \in 1 .. born : GetHint(q, p)
    \/ \E p \in Problems, k \in {"submit", "run"} : Submit(q, p, k)
    \/ \E f \in Filters : StartWalk(q, f)

RequestStep(q) ==
    \/ RepoCreate(q)
    \/ RepoDelete(q)
    \/ DeleteSet(q)
    \/ InsertTag(q)
    \/ InsertLanguage(q)
    \/ CommitSet(q)
    \/ DeadlockVictim(q)
    \/ InsertTagRow(q)
    \/ SaveQuestion(q)
    \/ GenerateText(q)
    \/ SaveAnswer(q)

RequestFails(q) == StatementFails(q) \/ GenerateTextFails(q)

WalkStep ==
    \/ RepoList
    \/ RepoCount
    \/ GetProblemTags
    \/ GetAcceptanceRates
    \/ GetSolvedProblemIDs
    \/ NextPage

TrackRemoval ==
    removed' = (removed \/ /\ walk.pc # "start"
                           /\ ~ (Matching(walk.filter) \subseteq Matching(walk.filter)'))

\* Nothing is in progress: the service waits for the next request.
Quiet ==
    /\ \A q \in Requests : requests[q].pc \in {"done", "gaveup"}
    /\ walk.pc \in {"start", "done"}
    /\ UNCHANGED <<rows, requests, walk>>

Next ==
    /\ \/ \E q \in Requests : Arrive(q) \/ RequestStep(q) \/ RequestFails(q)
       \/ \E s \in DOMAIN submissions, v \in {"accepted", "wrong_answer"} : SaveResult(s, v)
       \/ \E s \in DOMAIN submissions : UpdateStatus(s)
       \/ WalkStep
       \/ ListFails
       \/ Quiet
    /\ TrackRemoval

Spec == Init /\ [][Next]_vars

\* A request goroutine goes on until it returns.
LiveSpec == Spec /\ \A q \in Requests : WF_vars(RequestStep(q) /\ TrackRemoval)
-----------------------------------------------------------------------------
(* Properties.                                                              *)

\* Rows have their types and refer to rows that exist: no set, test case,
\* submission or conversation outlives its problem, whatever transaction was
\* open when the problem was deleted, and no two problems share a slug.
CatalogTypeOK ==
    /\ Problems \subseteq 1 .. born
    /\ \A p \in Problems : problems[p].visibility \in Visibility
    /\ \A p, o \in Problems : p # o => problems[p].slug # problems[o].slug
    /\ \A kind \in Kinds : DOMAIN links[kind] = Problems
    /\ DOMAIN hints = Problems
    /\ \A p \in Problems : /\ links["tags"][p] \subseteq tags
                           /\ links["languages"][p] \subseteq DOMAIN languages
    /\ \A t \in DOMAIN tests : tests[t].problem \in Problems
    /\ \A s \in DOMAIN submissions : submissions[s].problem \in Problems

\* All short titles have the slug that the comments of GenerateSlug say.
TitlesCanonical ==
    \A title \in UNION {[1 .. n -> {"a", "B", "1", " ", "-", "!"}] : n \in 0 .. 4} : HasSlug(title)

\* GenerateSlug gives every title its canonical slug, and the numbered slugs that
\* CreateProblem goes on to are canonical as well, so that no later title is given
\* another spelling of one; but for a title without a letter or digit, whose
\* numbered slugs begin with a hyphen.
SlugCanonical ==
    /\ TitlesCanonical
    /\ \A q \in Requests :
          requests[q].base # <<>> => GenerateSlug(requests[q].slug) = requests[q].slug

\* The update of a problem's tags that q commits leaves the tags it asked for.
CommitsExactly(q) ==
    LET r == requests[q] IN
    r.kind = "tags" /\ r.pc = "insert" /\ r.rest = <<>> /\ r.p \in Problems
        /\ requests'[q].pc = "done" /\ links' # links
        => links'["tags"][r.p] = Range(r.list)

\* docs/api.md of PUT /internal/problems/{id}/tags: it "Replaces the full set of
\* tags for a problem".  SetProblemTags deletes the rows it sees and inserts
\* its own; an update that commits in between leaves its rows as well.
TagsReplaced == [][\A q \in Requests : CommitsExactly(q)]_vars

\* What an update of a problem's tags or languages leaves when it commits: all it
\* asked for, and besides only what other updates committed while it was in
\* progress.  A language that it found there, and so did not insert, others may
\* have deleted before it commits.
Merges(q, kind, p) ==
    LET r == requests[q] IN
    /\ r.pc = "insert" /\ requests'[q].pc = "done"
    /\ r.kind = kind /\ r.p = p
    /\ links'[kind][p] \subseteq Range(r.list) \cup r.since
    /\ Range(r.list) \subseteq links'[kind][p] \cup (IF kind = "tags" THEN {} ELSE r.undone)

\* A set that changes does so by the commit of an update.
ChangedByUpdate ==
    \A kind \in Kinds, p \in Problems :
        p \in Problems' /\ links'[kind][p] # links[kind][p] => \E q \in Requests : Merges(q, kind, p)

\* What holds in place of TagsReplaced when SetProblemTags and SetForProblem run
\* at the same time on one problem: at worst the set is a union of what the
\* concurrent updates asked for.  Nothing that was there before both is left, no
\* tag that was asked for is lost, and nothing else (a rolled back or failed
\* update, a victim of a deadlock, other requests) changes a set.
SetsMerge == [][ChangedByUpdate]_vars

\* The prompt of a hint holds its question exactly once, at the end, after
\* messages that are still in the conversation in the same order, although
\* other hint requests of the user write to it at the same time.
PromptsFaithful ==
    \A q \in Requests :
        LET r == requests[q]
            n == Len(r.prompt)
        IN  r.pc \in {"ask", "reply"} =>
            /\ r.prompt[n] = Question(q)
            /\ \A i \in DOMAIN r.prompt : r.prompt[i].by = q => i = n
            /\ r.p \in Problems => /\ n - 1 <= Len(hints[r.p])
                                   /\ \A i \in 1 .. n - 1 : r.prompt[i] = hints[r.p][i]

\* What a page reports is grounded: for a problem that is solved or has
\* acceptances, a submission of kind submit has been accepted, unless the problem
\* is gone by now.  It need not be accepted when the page is answered: between the
\* five queries a reader may write running over it.
PageGrounded ==
    LET accepted(p) == \E s \in Judged(p) : submissions[s].once IN
    walk.pc = "reply" =>
        /\ walk.solved \subseteq walk.found
        /\ \A p \in walk.solved \cap Problems : accepted(p)
        /\ \A p \in DOMAIN walk.rates :
              /\ walk.rates[p][1] <= walk.rates[p][2] /\ walk.rates[p][2] > 0
              /\ p \in Problems /\ walk.rates[p][1] > 0 => accepted(p)

\* A client that walks through the pages sees every problem that was listed
\* when it began, although new ones shift the pages in the meantime, unless
\* some problem left the listing.
NoProblemSkipped == walk.pc = "done" /\ ~ removed => walk.expect \subseteq walk.seen

\* Every request that began ends: CreateProblem stops trying, and no statement
\* waits for ever on the locks of the others.
RequestsEnd ==
    \A q \in Requests : requests[q].pc # "idle" ~> requests[q].pc \in {"done", "gaveup"}
=============================================================================
