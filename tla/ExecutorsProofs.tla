--------------------------- MODULE ExecutorsProofs ---------------------------
(***************************************************************************)
(* Proofs about the executors, for every set of calls and languages, every   *)
(* test suite and every choice of faults.                                    *)
(***************************************************************************)
EXTENDS Executors, WellFoundedInduction, TLAPS

\* A set of naturals that is not empty has a smallest element.
LEMMA MinOfNaturals ==
    ASSUME NEW S, S \subseteq Nat, S # {}
    PROVE  Min(S) \in S /\ \A y \in S : Min(S) =< y
  <1> DEFINE R == OpToRel(<, Nat)
  <1>1. IsWellFoundedOn(R, Nat) /\ \A x, y \in Nat : y < x => <<y, x>> \in R
    BY NatLessThanWellFounded DEF OpToRel
  <1> HIDE DEF R
  <1>2. PICK x \in S : \A y \in S : ~ (<<y, x>> \in R)
    BY <1>1, WFMin, Zenon
  <1>3. \A y \in S : ~ (y < x)
    BY <1>1, <1>2, Zenon
  <1>4. \A y \in S : x =< y
    BY <1>3
  <1>5. Min(S) \in S /\ \A y \in S : Min(S) =< y
    BY <1>4, Zenon DEF Min
  <1> QED BY <1>5
-----------------------------------------------------------------------------
(* Verdicts.                                                                 *)

\* The tests of an assignment have an expected answer.
LEMMA ExpectedAnswers ==
    /\ MaxTests \in Nat /\ 0 \in 0 .. MaxTests
    /\ \A i \in 1 .. MaxTests : Expected[i] \in Answers /\ Expected[i] # NoAnswer
  BY ExecutorsAssumption DEF MaxTests

\* A finite set of test numbers that is not empty has a largest element.
LEMMA MaxOfTests ==
    ASSUME NEW i \in Nat, NEW S, S \subseteq 1 .. i, S # {}
    PROVE  Max(S) \in S /\ \A k \in S : k =< Max(S)
  <1> DEFINE T == {i - k : k \in S}
  <1>1. T \subseteq Nat /\ T # {}
    <2>1. \A k \in S : i - k \in Nat
      OBVIOUS
    <2>2. PICK k \in S : TRUE
      OBVIOUS
    <2>3. i - k \in T
      BY <2>2
    <2> QED BY <2>1, <2>3
  <1>2. PICK m \in T : \A t \in T : m =< t
    BY <1>1, MinOfNaturals, Zenon
  <1>3. PICK x \in S : m = i - x
    BY <1>2
  <1>4. \A k \in S : i - x =< i - k
    BY <1>2, <1>3
  <1>5. \A k \in S : k =< x
    BY <1>4
  <1>6. \A k \in S : x >= k
    BY <1>5
  <1>7. Max(S) \in S /\ \A k \in S : Max(S) >= k
    BY <1>6, Zenon DEF Max
  <1>8. PICK y \in S : y = Max(S)
    BY <1>7
  <1> QED BY <1>7, <1>8

\* The answer file holds the expected answer of a test exactly when a test up to it
\* wrote that answer and none has written since.
LEMMA LastAnswerWritten ==
    ASSUME NEW b, NEW i \in 1 .. MaxTests
    PROVE  LastAnswer(b, i) = Expected[i]
             <=> \E k \in 1 .. i : /\ b.tests[k].answer = Expected[i]
                                  /\ \A j \in k + 1 .. i : b.tests[j].answer = NoAnswer
  <1> DEFINE ans(k) == b.tests[k].answer
             writers == {k \in 1 .. i : ans(k) # NoAnswer}
  <1>1. i \in Nat /\ Expected[i] # NoAnswer
    BY ExpectedAnswers
  <1>2. LastAnswer(b, i) = IF writers = {} THEN NoAnswer ELSE ans(Max(writers))
    BY Zenon DEF LastAnswer
  <1>3. CASE writers = {}
    BY <1>1, <1>2, <1>3
  <1>4. CASE writers # {}
    <2>1. PICK w \in writers : w = Max(writers) /\ \A k \in writers : k =< w
      BY <1>1, <1>4, MaxOfTests
    <2>2. LastAnswer(b, i) = ans(w)
      BY <1>2, <1>4, <2>1, Zenon
    <2> HIDE DEF ans
    <2>3. \A j \in w + 1 .. i : ans(j) = NoAnswer
      BY <1>1, <2>1
    <2>4. ASSUME NEW k \in 1 .. i, ans(k) = Expected[i], \A j \in k + 1 .. i : ans(j) = NoAnswer
          PROVE  k = w
      <3>1. k \in writers
        BY <1>1, <2>4
      <3>2. k =< w /\ ~ (w \in k + 1 .. i)
        BY <2>1, <2>4, <3>1
      <3> QED BY <1>1, <2>1, <3>2
    <2>5. w \in 1 .. i
      BY <2>1
    <2> QED BY <2>2, <2>3, <2>4, <2>5, Zenon DEF ans
  <1> QED BY <1>3, <1>4

\* The runner prints Accepted for exactly the tests that pass.
LEMMA AcceptedIffPassed ==
    ASSUME NEW lang, NEW b, NEW i \in 1 .. MaxTests
    PROVE  Verdict(lang, b, i) = "Accepted" <=> Passed(lang, b.tests, i)
  <1>1. Verdict(lang, b, i) = "Accepted" <=> b.tests[i].end = "ok" /\ Actual(lang, b, i) = Expected[i]
    BY DEF Verdict
  <1>2. CASE lang \in FileLanguages
    BY <1>1, <1>2, LastAnswerWritten, Zenon DEF Actual, Passed
  <1>3. CASE lang \notin FileLanguages
    <2>1. i \in 1 .. i /\ \A j \in i + 1 .. i : FALSE
      BY ExpectedAnswers
    <2> QED BY <1>1, <1>3, <2>1, Zenon DEF Actual, Passed
  <1> QED BY <1>2, <1>3

\* OverallVerdict: Accepted if all entries are, else the verdict of the first that
\* is not.
LEMMA OverallIsFirst ==
    ASSUME NEW n \in Nat, NEW es, DOMAIN es = 1 .. n,
           NEW failed, failed = {i \in 1 .. n : es[i].verdict # "Accepted"}
    PROVE  /\ OverallVerdict(es) = "Accepted" <=> failed = {}
           /\ failed # {} => Min(failed) \in failed /\ OverallVerdict(es) = es[Min(failed)].verdict
  <1>1. OverallVerdict(es) = IF failed = {} THEN "Accepted" ELSE es[Min(failed)].verdict
    BY Zenon DEF OverallVerdict
  <1>2. ASSUME failed # {} PROVE Min(failed) \in failed
    <2>1. failed \subseteq Nat
      OBVIOUS
    <2> QED BY <1>2, <2>1, MinOfNaturals, Zenon
  <1>3. \A m \in failed : es[m].verdict # "Accepted"
    OBVIOUS
  <1> QED BY <1>1, <1>2, <1>3, Zenon

\* VerdictExplained, of a program that behaved as b on n tests.
ExplainedBy(lang, n, b, v) ==
    LET failed == {i \in 1 .. n : ~ Passed(lang, b.tests, i)}
    IN  \/ /\ b.by = "runner" /\ DOMAIN b.tests = 1 .. n
           /\ v = "Accepted" <=> failed = {}
           /\ \/ failed = {}
              \/ v = "SandboxViolation" /\ \E i \in failed : b.tests[i].end = "probe"
              \/ v = Verdict(lang, b, Min(failed))
        \/ /\ b.by = "compiler"
           /\ \/ v = "CompilationError"
              \/ v = "SandboxViolation" /\ b.escape
              \/ n = 0
        \/ b.by = "program" /\ lang \notin FileLanguages

\* What either parseResults makes of the array that is printed.
Parsed(lang, n, b, v) ==
    \/ v = OverallVerdict(Entries(lang, b, n))
    \/ v = "SandboxViolation" /\ detectEscapeAttempt(Entries(lang, b, n))

\* The verdict on a report of the runner is that of the first test that failed.
LEMMA RunnerExplained ==
    ASSUME NEW lang, NEW n \in 0 .. MaxTests, NEW b \in Tested(n), NEW v, Parsed(lang, n, b, v)
    PROVE  ExplainedBy(lang, n, b, v)
  <1> DEFINE es == Entries(lang, b, n)
             failed == {i \in 1 .. n : ~ Passed(lang, b.tests, i)}
  <1>0. n \in Nat /\ \A i \in 1 .. n : i \in 1 .. MaxTests
    BY ExpectedAnswers
  <1>1. b.by = "runner" /\ DOMAIN b.tests = 1 .. n
    BY DEF Tested
  <1>2. es = [i \in 1 .. n |-> [verdict |-> Verdict(lang, b, i), escape |-> b.tests[i].end = "probe"]]
    BY <1>1 DEF Entries
  <1>3. /\ DOMAIN es = 1 .. n
        /\ \A i \in 1 .. n : es[i].verdict = Verdict(lang, b, i) /\ (es[i].escape <=> b.tests[i].end = "probe")
    <2>1. /\ DOMAIN es = 1 .. n
          /\ \A i \in 1 .. n : es[i] = [verdict |-> Verdict(lang, b, i), escape |-> b.tests[i].end = "probe"]
      BY <1>2, Zenon
    <2> HIDE DEF es
    <2>2. ASSUME NEW i \in 1 .. n
          PROVE  es[i].verdict = Verdict(lang, b, i) /\ (es[i].escape <=> b.tests[i].end = "probe")
      <3>1. PICK e \in BOOLEAN : e = (b.tests[i].end = "probe")
        BY Zenon
      <3>2. es[i] = [verdict |-> Verdict(lang, b, i), escape |-> e]
        BY <2>1, <3>1, Zenon
      <3>3. es[i].verdict = Verdict(lang, b, i) /\ es[i].escape = e
        BY <3>2
      <3> QED BY <3>1, <3>3, Zenon
    <2> QED BY <2>1, <2>2
  <1> HIDE DEF es
  <1>4. failed = {i \in 1 .. n : es[i].verdict # "Accepted"}
    BY <1>0, <1>3, AcceptedIffPassed, Zenon
  <1> HIDE DEF failed
  <1>5. CASE v = OverallVerdict(es)
    <2>1. /\ v = "Accepted" <=> failed = {}
          /\ failed # {} => v = Verdict(lang, b, Min(failed))
      <3>1. /\ v = "Accepted" <=> failed = {}
            /\ failed # {} => Min(failed) \in failed /\ v = es[Min(failed)].verdict
        <4>1. DOMAIN es = 1 .. n
          BY <1>3
        <4> QED BY <1>0, <1>4, <1>5, <4>1, OverallIsFirst, Zenon
      <3>2. failed \subseteq 1 .. n
        BY DEF failed
      <3> QED BY <1>3, <3>1, <3>2, Zenon
    <2> QED BY <1>1, <2>1, Zenon DEF ExplainedBy, failed
  <1>6. CASE v = "SandboxViolation" /\ detectEscapeAttempt(es)
    <2>1. PICK i \in 1 .. n : b.tests[i].end = "probe"
      BY <1>3, <1>6, Zenon DEF detectEscapeAttempt
    <2>2. i \in failed
      BY <2>1 DEF Passed, failed
    <2> QED BY <1>1, <1>6, <2>1, <2>2 DEF ExplainedBy, failed
  <1> QED BY <1>5, <1>6, Zenon DEF Parsed, es

\* The verdict on a program that does not compile says so.
LEMMA CompilerExplained ==
    ASSUME NEW lang, NEW n \in 0 .. MaxTests, NEW b \in NoCompile, NEW v, Parsed(lang, n, b, v)
    PROVE  ExplainedBy(lang, n, b, v)
  <1> DEFINE es == Entries(lang, b, n)
  <1>0. n \in Nat
    BY ExpectedAnswers
  <1>1. b.by = "compiler" /\ b.escape \in BOOLEAN
    BY DEF NoCompile
  <1>2. es = [i \in 1 .. n |-> [verdict |-> "CompilationError", escape |-> b.escape]]
    BY <1>1 DEF Entries
  <1>3. DOMAIN es = 1 .. n /\ \A i \in 1 .. n : es[i].verdict = "CompilationError" /\ es[i].escape = b.escape
    <2>1. /\ DOMAIN es = 1 .. n
          /\ \A i \in 1 .. n : es[i] = [verdict |-> "CompilationError", escape |-> b.escape]
      BY <1>2, Zenon
    <2> HIDE DEF es
    <2> QED BY <2>1
  <1> HIDE DEF es
  <1>4. CASE n # 0 /\ v = OverallVerdict(es)
    <2>1. PICK failed : failed = {i \in 1 .. n : es[i].verdict # "Accepted"}
      OBVIOUS
    <2>2. failed = 1 .. n /\ failed # {}
      BY <1>0, <1>3, <1>4, <2>1
    <2>3. v = "CompilationError"
      BY <1>0, <1>3, <1>4, <2>1, <2>2, OverallIsFirst, Zenon
    <2> QED BY <1>1, <2>3, Zenon DEF ExplainedBy
  <1>5. CASE v = "SandboxViolation" /\ detectEscapeAttempt(es)
    BY <1>1, <1>3, <1>5, Zenon DEF ExplainedBy, detectEscapeAttempt
  <1>6. CASE n = 0
    BY <1>1, <1>6, Zenon DEF ExplainedBy
  <1> QED BY <1>4, <1>5, <1>6, Zenon DEF Parsed, es
-----------------------------------------------------------------------------
(* Types.                                                                    *)

PCs == {"idle", "done", "gone", "workspace", "create", "start", "wait", "logs", "remove", "finish",
        "restore", "agent", "send", "read", "kill"}
Call == [pc : PCs, via : {"none", "docker", "firecracker", "stub", "booting"}, lang : Languages \cup {""},
         tests : 0 .. MaxTests, ctx : {"live", "expired", "cancelled"},
         out : {"none", "error", "output", "partial"}]
Pair == [snap : Nat, mem : Nat]
VM == [state : {"none", "up", "working", "answering"}, pair : Pair]

ExecTypeOK ==
    /\ backend \in {"none", "booting", "docker", "firecracker", "stub"}
    /\ boot \in [lang : LanguageList \cup {""}, step : {"none", "snap", "mem"}]
    /\ boots \in Nat
    /\ pool \subseteq LanguageList
    /\ files \in [LanguageList -> Pair]
    /\ exec \in [Calls -> Call]
    /\ vms \in [Calls -> VM]
    /\ containers \in [DOMAIN containers -> {"created", "running", "exited"}]
    /\ ran = [c \in Calls |-> ran[c]]
    /\ result = [c \in Calls |-> result[c]]

\* The boot VM and the snapshots: chroots of earlier captures are known leaks; a
\* language is registered with both its files from one capture; nothing is
\* captured while calls are served.
BootInv ==
    /\ bootRoots \subseteq leaked \cup (IF boot = NoBoot THEN {} ELSE {boots})
    /\ boot # NoBoot => /\ backend = "booting" /\ boots # 0
                        /\ boot.lang \in LanguageList /\ boot.step \in {"snap", "mem"}
                        /\ boot.lang \notin pool
    /\ boot.step = "mem" => files[boot.lang].snap = boots
    /\ \A l \in pool : files[l].snap = files[l].mem /\ files[l].mem # 0

\* What the program of call c did is known: the container has exited and its
\* output is on the way to parseResults, or the agent has answered.
Finished(c) ==
    \/ At(c, "logs")
    \/ At(c, "wait") /\ containers[c] = "exited"
    \/ exec[c].pc \in {"remove", "finish"} /\ exec[c].out = "output"
    \/ At(c, "read") /\ vms[c].state = "answering"
    \/ At(c, "kill") /\ exec[c].out \in {"output", "partial"}

\* Where a call may be while it has something on the host.
Holds(c) ==
    /\ c \in dirs => exec[c].pc \in {"create", "start", "wait", "logs", "remove", "finish"}
    /\ c \in DOMAIN containers => exec[c].pc \in {"start", "wait", "logs", "remove"}
    /\ c \in chroots \/ vms[c] # NoVM => exec[c].pc \in {"agent", "send", "read", "kill"}

\* VerdictExplained, of one call.
Explained(c) ==
    At(c, "done") /\ exec[c].via # "stub" /\ result[c] # "InternalError" =>
        ExplainedBy(exec[c].lang, exec[c].tests, ran[c], result[c])

\* The invariant of one call.
CallInv(c) ==
    /\ InExecute(c) => backend \in {"docker", "firecracker"} /\ exec[c].via = backend
    /\ At(c, "restore") => exec[c].lang \in pool
    /\ c \notin leaked => Holds(c)
    /\ exec[c].pc \in {"start", "wait"} => c \in DOMAIN containers
    /\ exec[c].pc \in {"agent", "send"} => vms[c].state # "none"
    /\ At(c, "kill") => exec[c].out # "none"
    /\ Finished(c) => ran[c] \in Behaviours(exec[c].lang, exec[c].tests)
    /\ vms[c].state # "none" => vms[c].pair.snap = vms[c].pair.mem /\ vms[c].pair.mem # 0
    /\ Explained(c)

IInv == ExecTypeOK /\ BootInv /\ \A c \in Calls : CallInv(c)
-----------------------------------------------------------------------------
(* Steps that leave a call, or the snapshots, alone.                         *)

Same(c) ==
    /\ exec'[c] = exec[c] /\ vms'[c] = vms[c] /\ ran'[c] = ran[c] /\ result'[c] = result[c]
    /\ c \in dirs' <=> c \in dirs
    /\ c \in chroots' <=> c \in chroots
    /\ c \in DOMAIN containers' <=> c \in DOMAIN containers
    /\ c \in DOMAIN containers => containers'[c] = containers[c]

\* Initially there is nothing on the host and nothing runs.
LEMMA InitIInv == Init => IInv
  <1> SUFFICES ASSUME Init PROVE IInv
    OBVIOUS
  <1> USE DEF Init
  <1>1. ExecTypeOK
    BY ExpectedAnswers, Zenon DEF ExecTypeOK, Idle, NoBoot, NoPair, NoVM, EmptyTable, Call, PCs, Pair, VM
  <1>2. BootInv
    BY Zenon DEF BootInv, NoBoot
  <1>3. ASSUME NEW c \in Calls PROVE CallInv(c)
    BY Zenon DEF CallInv, InExecute, At, Holds, Finished, Explained, Idle, NoVM, EmptyTable
  <1> QED BY <1>1, <1>2, <1>3 DEF IInv

\* The invariant of a call depends on its own state only, on the executor and the
\* pool while it runs, and on the leaks, which only grow.
LEMMA CallKept ==
    ASSUME NEW c \in Calls, CallInv(c), Same(c), leaked \subseteq leaked',
           InExecute(c) => backend' = backend /\ pool' = pool
    PROVE  CallInv(c)'
  <1> USE DEF Same
  <1>1. Explained(c)'
    BY DEF CallInv, Explained, At
  <1>2. Finished(c)' => ran'[c] \in Behaviours(exec'[c].lang, exec'[c].tests)
    BY DEF CallInv, Finished, At
  <1>3. c \notin leaked' => Holds(c)'
    BY DEF CallInv, Holds
  <1> QED BY <1>1, <1>2, <1>3 DEF CallInv, InExecute, At

\* A step of one call that touches neither the executor nor the snapshots.
LEMMA CallStepKeeps ==
    ASSUME IInv, NEW c \in Calls, ExecTypeOK', CallInv(c)', UNCHANGED <<backend, bootVars>>,
           leaked \subseteq leaked', \A d \in Calls \ {c} : Same(d)
    PROVE  IInv'
  <1>1. BootInv'
    BY DEF IInv, BootInv, bootVars
  <1>2. ASSUME NEW d \in Calls PROVE CallInv(d)'
    BY CallKept DEF IInv, bootVars
  <1> QED BY <1>1, <1>2 DEF IInv

(* The steps of a call.                                                      *)

\* Execute begins: the call refuses at once, or goes to its first step.
LEMMA Entered ==
    ASSUME IInv, NEW c \in Calls, NEW l \in Languages, NEW n \in 0 .. MaxTests,
           NEW pc \in {"done", "workspace", "restore"}, Enter(c, pc, l, n), At(c, "idle"),
           UNCHANGED <<backend, bootVars, dockerVars, fcVars, ran, leaked>>,
           NEW v, result' = [result EXCEPT ![c] = v],
           backend \in {"stub", "docker", "firecracker"},
           pc = "done" => v = "InternalError" \/ backend = "stub",
           pc # "done" => backend # "stub",
           pc = "restore" => l \in pool
    PROVE  IInv'
  <1> DEFINE e == [Idle EXCEPT !.pc = pc, !.via = backend, !.lang = l, !.tests = n]
  <1>1. e \in Call /\ e.pc = pc /\ e.via = backend /\ e.lang = l /\ e.out = "none"
    <2>1. Idle \in Call /\ Idle.out = "none"
      BY ExpectedAnswers, Zenon DEF Call, PCs, Idle
    <2>2. pc \in PCs
      BY DEF PCs
    <2> QED BY <2>1, <2>2, Zenon DEF Call
  <1>2. exec' = [exec EXCEPT ![c] = e] /\ exec \in [Calls -> Call]
    BY Zenon DEF Enter, IInv, ExecTypeOK
  <1> HIDE DEF e
  <1>3. exec'[c] = e /\ result'[c] = v
    BY <1>2, Zenon DEF IInv, ExecTypeOK
  <1>4. ExecTypeOK'
    BY <1>1, <1>2, Zenon DEF IInv, ExecTypeOK, bootVars, dockerVars, fcVars
  <1>5. \A d \in Calls \ {c} : Same(d)
    BY <1>2, Zenon DEF IInv, ExecTypeOK, Same, dockerVars, fcVars
  <1>6. CallInv(c)'
    <2>1. CallInv(c)
      BY DEF IInv
    <2>2. c \notin leaked => Holds(c)'
      BY <2>1 DEF CallInv, Holds, At, dockerVars, fcVars
    <2>3. ~ Finished(c)'
      BY <1>1, <1>3 DEF Finished, At
    <2>4. Explained(c)'
      BY <1>1, <1>3 DEF Explained, At
    <2> QED BY <1>1, <1>3, <2>1, <2>2, <2>3, <2>4 DEF CallInv, InExecute, At, bootVars, fcVars
  <1> QED BY <1>4, <1>5, <1>6, CallStepKeeps

\* Execute takes the call up and leaves everything else alone.
LEMMA StepExecute ==
    ASSUME IInv, NEW c \in Calls, NEW l \in Languages, NEW n \in 0 .. MaxTests,
           StubExecute(c, l, n) \/ DockerExecute(c, l, n) \/ FirecrackerExecute(c, l, n)
    PROVE  IInv'
  <1>0. result = [result EXCEPT ![c] = result[c]]
    BY Zenon DEF IInv, ExecTypeOK
  <1>1. CASE StubExecute(c, l, n)
    BY <1>1, Entered, Zenon DEF StubExecute, Return
  <1>2. CASE DockerExecute(c, l, n)
    BY <1>0, <1>2, Entered DEF DockerExecute, Return
  <1>3. CASE FirecrackerExecute(c, l, n)
    BY <1>0, <1>3, Entered DEF FirecrackerExecute, Return
  <1> QED BY <1>1, <1>2, <1>3

\* Call c moves on to pc, with what is known of its outcome.
Moved(c, pc, out) ==
    /\ exec' \in [Calls -> Call]
    /\ exec'[c].pc = pc /\ exec'[c].out = out
    /\ exec'[c].via = exec[c].via /\ exec'[c].lang = exec[c].lang /\ exec'[c].tests = exec[c].tests
    /\ \A d \in Calls \ {c} : exec'[d] = exec[d]

\* Goto moves the program counter of one call and keeps its output.
LEMMA GotoMoves ==
    ASSUME IInv, NEW c \in Calls, NEW pc \in PCs, Goto(c, pc)
    PROVE  Moved(c, pc, exec[c].out)
  <1> DEFINE e == [exec[c] EXCEPT !.pc = pc]
  <1>1. exec \in [Calls -> Call] /\ exec[c] \in Call
    BY Zenon DEF IInv, ExecTypeOK
  <1>2. /\ e \in Call /\ e.pc = pc /\ e.out = exec[c].out
        /\ e.via = exec[c].via /\ e.lang = exec[c].lang /\ e.tests = exec[c].tests
    BY <1>1, Zenon DEF Call
  <1>3. exec' = [exec EXCEPT ![c] = e]
    BY <1>1 DEF Goto
  <1> HIDE DEF e
  <1> QED BY <1>1, <1>2, <1>3 DEF Moved

\* GotoWith moves the program counter of one call and sets its output.
LEMMA GotoWithMoves ==
    ASSUME IInv, NEW c \in Calls, NEW pc \in PCs, NEW out \in {"error", "output", "partial"},
           GotoWith(c, pc, out)
    PROVE  Moved(c, pc, out)
  <1> DEFINE e == [exec[c] EXCEPT !.pc = pc, !.out = out]
  <1>1. exec \in [Calls -> Call] /\ exec[c] \in Call
    BY Zenon DEF IInv, ExecTypeOK
  <1>2. /\ e \in Call /\ e.pc = pc /\ e.out = out
        /\ e.via = exec[c].via /\ e.lang = exec[c].lang /\ e.tests = exec[c].tests
    BY <1>1, Zenon DEF Call
  <1>3. exec' = [exec EXCEPT ![c] = e]
    BY <1>1, Zenon DEF GotoWith
  <1> HIDE DEF e
  <1> QED BY <1>1, <1>2, <1>3 DEF Moved

\* A call in one of the steps of Execute moves on to another: its container and its
\* VM are as the step leaves them.
LEMMA StepWithin ==
    ASSUME IInv, NEW c \in Calls, NEW pc \in PCs \ {"idle", "done", "gone", "restore"},
           NEW out \in {"none", "error", "output", "partial"},
           InExecute(c), Moved(c, pc, out),
           UNCHANGED <<backend, bootVars, ran, result>>, leaked \subseteq leaked',
           \A d \in Calls \ {c} : Same(d),
           containers' \in [DOMAIN containers' -> {"created", "running", "exited"}],
           vms' \in [Calls -> VM],
           c \notin leaked' => Holds(c)',
           pc \in {"start", "wait"} => c \in DOMAIN containers',
           pc \in {"agent", "send"} => vms'[c].state # "none",
           pc = "kill" => out # "none",
           Finished(c)' => ran[c] \in Behaviours(exec[c].lang, exec[c].tests),
           vms'[c].state # "none" => vms'[c].pair.snap = vms'[c].pair.mem /\ vms'[c].pair.mem # 0
    PROVE  IInv'
  <1>1. ExecTypeOK'
    BY Zenon DEF IInv, ExecTypeOK, Moved, bootVars
  <1>2. CallInv(c)'
    <2>1. Explained(c)'
      BY DEF Moved, Explained, At
    <2> QED BY <2>1 DEF CallInv, IInv, InExecute, At, Moved
  <1> QED BY <1>1, <1>2, CallStepKeeps

\* A call returns: what it had is gone, or has leaked, and its verdict is explained.
LEMMA StepReturns ==
    ASSUME IInv, NEW c \in Calls, InExecute(c), Moved(c, "done", exec[c].out),
           UNCHANGED <<backend, bootVars, containers, ran>>, leaked \subseteq leaked',
           NEW v, Return(c, v),
           \A d \in Calls \ {c} : /\ d \in dirs' <=> d \in dirs
                                  /\ d \in chroots' <=> d \in chroots
                                  /\ vms'[d] = vms[d],
           vms' \in [Calls -> VM],
           c \notin leaked' => c \notin dirs' \cup DOMAIN containers \cup chroots' /\ vms'[c] = NoVM,
           vms'[c].state # "none" => vms'[c].pair.snap = vms'[c].pair.mem /\ vms'[c].pair.mem # 0,
           Explained(c)'
    PROVE  IInv'
  <1>1. ExecTypeOK'
    BY Zenon DEF IInv, ExecTypeOK, Moved, bootVars, Return
  <1>2. CallInv(c)'
    BY DEF CallInv, InExecute, At, Moved, Holds, Finished
  <1>3. \A d \in Calls \ {c} : Same(d)
    BY Zenon DEF Same, Moved, Return, IInv, ExecTypeOK
  <1> QED BY <1>1, <1>2, <1>3, CallStepKeeps

\* What the steps know of the call they belong to.
LEMMA CallFacts ==
    ASSUME IInv, NEW c \in Calls
    PROVE  /\ exec[c] \in Call /\ exec[c].out \in {"none", "error", "output", "partial"}
           /\ exec[c].tests \in 0 .. MaxTests /\ vms[c] \in VM
           /\ containers \in [DOMAIN containers -> {"created", "running", "exited"}]
           /\ CallInv(c)
  BY Zenon DEF IInv, ExecTypeOK, Call

\* buildWorkspace makes the directory of the call, or gives up and may leak it.
LEMMA StepBuildWorkspace ==
    ASSUME IInv, NEW c \in Calls, buildWorkspace(c)
    PROVE  IInv'
  <1> USE DEF At, InExecute
  <1>1. /\ At(c, "workspace") /\ InExecute(c) /\ "create" \in PCs /\ "done" \in PCs
        /\ UNCHANGED <<backend, bootVars, containers, chroots, vms, ran>>
        /\ vms \in [Calls -> VM]
    BY Zenon DEF buildWorkspace, fcVars, IInv, ExecTypeOK, PCs
  <1>2. c \notin leaked => c \notin dirs \cup DOMAIN containers \cup chroots /\ vms[c] = NoVM
    BY <1>1, CallFacts DEF CallInv, Holds
  <1>3. CASE dirs' = dirs \cup {c} /\ Goto(c, "create") /\ UNCHANGED <<result, leaked>>
    <2>1. Moved(c, "create", exec[c].out)
      BY <1>1, <1>3, GotoMoves
    <2>2. \A d \in Calls \ {c} : Same(d)
      BY <1>1, <1>3, <2>1 DEF Same, Moved
    <2>3. (c \notin leaked' => Holds(c)') /\ ~ Finished(c)'
      BY <1>1, <1>2, <1>3, <2>1 DEF Holds, Moved, Finished
    <2> QED BY <1>1, <1>3, <2>1, <2>2, <2>3, CallFacts, StepWithin DEF CallInv, PCs
  <1>4. CASE /\ Goto(c, "done") /\ Return(c, "InternalError")
             /\ \/ UNCHANGED <<dirs, leaked>>
                \/ dirs' = dirs \cup {c} /\ Leak({c})
    <2>1. Moved(c, "done", exec[c].out)
      BY <1>1, <1>4, GotoMoves
    <2>2. Explained(c)'
      BY <1>4, Zenon DEF Explained, Return, IInv, ExecTypeOK
    <2>3. /\ leaked \subseteq leaked' /\ \A d \in Calls \ {c} : d \in dirs' <=> d \in dirs
          /\ c \notin leaked' => c \notin dirs' \cup DOMAIN containers \cup chroots /\ vms'[c] = NoVM
      BY <1>1, <1>2, <1>4 DEF Leak
    <2> QED BY <1>1, <1>4, <2>1, <2>2, <2>3, CallFacts, StepReturns DEF CallInv
  <1> QED BY <1>3, <1>4 DEF buildWorkspace

\* Insert, Without and EXCEPT on the containers touch the container of one call.
LEMMA ContainerTable ==
    ASSUME IInv, NEW c \in Calls, NEW state \in {"created", "running", "exited"}, NEW new,
           \/ new = Insert(containers, c, state)
           \/ new = [containers EXCEPT ![c] = state] /\ c \in DOMAIN containers
    PROVE  /\ new \in [DOMAIN new -> {"created", "running", "exited"}]
           /\ c \in DOMAIN new /\ new[c] = state
           /\ \A d \in Calls \ {c} : /\ d \in DOMAIN new <=> d \in DOMAIN containers
                                     /\ d \in DOMAIN containers => new[d] = containers[d]
  BY ZenonT(40) DEF IInv, ExecTypeOK, Insert

\* ContainerCreate makes a container of the call, or fails.
LEMMA StepContainerCreate ==
    ASSUME IInv, NEW c \in Calls, ContainerCreate(c)
    PROVE  IInv'
  <1> USE DEF At, InExecute
  <1>1. /\ At(c, "create") /\ InExecute(c) /\ "start" \in PCs /\ "finish" \in PCs
        /\ UNCHANGED <<backend, bootVars, dirs, chroots, vms, ran, result>>
        /\ vms' \in [Calls -> VM]
    BY Zenon DEF ContainerCreate, fcVars, IInv, ExecTypeOK, PCs
  <1>2. /\ c \notin leaked => c \notin DOMAIN containers \cup chroots /\ vms[c] = NoVM
        /\ vms'[c].state # "none" => vms'[c].pair.snap = vms'[c].pair.mem /\ vms'[c].pair.mem # 0
    BY <1>1, CallFacts DEF CallInv, Holds
  <1>3. CASE containers' = Insert(containers, c, "created") /\ Goto(c, "start") /\ UNCHANGED leaked
    <2>1. Moved(c, "start", exec[c].out)
      BY <1>1, <1>3, GotoMoves
    <2>2. /\ containers' \in [DOMAIN containers' -> {"created", "running", "exited"}]
          /\ c \in DOMAIN containers'
          /\ \A d \in Calls \ {c} : Same(d)
      BY <1>1, <1>3, <2>1, ContainerTable DEF Same, Moved
    <2>3. (c \notin leaked' => Holds(c)') /\ ~ Finished(c)'
      BY <1>1, <1>2, <1>3, <2>1 DEF Holds, Moved, Finished
    <2> QED BY <1>1, <1>2, <1>3, <2>1, <2>2, <2>3, CallFacts, StepWithin
  <1>4. CASE /\ GotoWith(c, "finish", "error")
             /\ \/ UNCHANGED <<containers, leaked>>
                \/ containers' = Insert(containers, c, "created") /\ Leak({c})
    <2>1. Moved(c, "finish", "error")
      BY <1>1, <1>4, GotoWithMoves
    <2>2. /\ containers' \in [DOMAIN containers' -> {"created", "running", "exited"}]
          /\ \A d \in Calls \ {c} : Same(d)
      BY <1>1, <1>4, <2>1, CallFacts, ContainerTable DEF Same, Moved
    <2>3. leaked \subseteq leaked' /\ (c \notin leaked' => Holds(c)') /\ ~ Finished(c)'
      BY <1>1, <1>2, <1>4, <2>1 DEF Holds, Moved, Finished, Leak
    <2> QED BY <1>1, <1>2, <2>1, <2>2, <2>3, CallFacts, StepWithin
  <1> QED BY <1>3, <1>4 DEF ContainerCreate

\* ContainerStart starts the container, or goes on to remove it.
LEMMA StepContainerStart ==
    ASSUME IInv, NEW c \in Calls, ContainerStart(c)
    PROVE  IInv'
  <1> USE DEF At, InExecute
  <1>1. /\ At(c, "start") /\ InExecute(c) /\ "wait" \in PCs /\ "remove" \in PCs
        /\ UNCHANGED <<backend, bootVars, dirs, chroots, vms, ran, result, leaked>>
        /\ vms' \in [Calls -> VM]
    BY Zenon DEF ContainerStart, fcVars, IInv, ExecTypeOK, PCs
  <1>2. /\ c \notin leaked => c \notin chroots /\ vms[c] = NoVM
        /\ vms'[c].state # "none" => vms'[c].pair.snap = vms'[c].pair.mem /\ vms'[c].pair.mem # 0
        /\ c \in DOMAIN containers
    BY <1>1, CallFacts DEF CallInv, Holds
  <1>3. PICK state \in {"created", "running"} : containers' = [containers EXCEPT ![c] = state]
    BY DEF ContainerStart
  <1>4. /\ containers' \in [DOMAIN containers' -> {"created", "running", "exited"}]
        /\ c \in DOMAIN containers' /\ containers'[c] # "exited"
        /\ \A d \in Calls \ {c} : /\ d \in DOMAIN containers' <=> d \in DOMAIN containers
                                  /\ d \in DOMAIN containers => containers'[d] = containers[d]
    BY <1>2, <1>3, ContainerTable, ZenonT(40)
  <1>5. PICK pc \in {"wait", "remove"}, out \in {"none", "error", "output", "partial"} :
            Moved(c, pc, out) /\ (pc = "remove" => out = "error")
    BY <1>1, GotoMoves, GotoWithMoves, CallFacts DEF ContainerStart
  <1>6. \A d \in Calls \ {c} : Same(d)
    BY <1>1, <1>4, <1>5 DEF Same, Moved
  <1>7. (c \notin leaked' => Holds(c)') /\ ~ Finished(c)'
    BY <1>1, <1>2, <1>4, <1>5 DEF Holds, Moved, Finished
  <1> QED BY <1>1, <1>2, <1>4, <1>5, <1>6, <1>7, StepWithin DEF PCs

\* The runner ends by itself and its container keeps the behaviour.
LEMMA StepRunnerExits ==
    ASSUME IInv, NEW c \in Calls, RunnerExits(c)
    PROVE  IInv'
  <1> USE DEF At, InExecute
  <1>1. /\ At(c, "wait") /\ UNCHANGED <<backend, bootVars, exec, dirs, chroots, vms, result, leaked>>
        /\ containers' = [containers EXCEPT ![c] = "exited"]
    BY DEF RunnerExits, fcVars
  <1>2. PICK b \in Behaviours(exec[c].lang, exec[c].tests) : ran' = [ran EXCEPT ![c] = b]
    BY Zenon DEF RunnerExits
  <1>3. CallInv(c) /\ c \in DOMAIN containers
    BY <1>1, CallFacts DEF CallInv
  <1>4. /\ containers' \in [DOMAIN containers' -> {"created", "running", "exited"}]
        /\ c \in DOMAIN containers'
        /\ \A d \in Calls \ {c} : /\ d \in DOMAIN containers' <=> d \in DOMAIN containers
                                  /\ d \in DOMAIN containers => containers'[d] = containers[d]
    BY <1>1, <1>3, ContainerTable, Zenon
  <1>5. /\ ran' = [d \in Calls |-> ran'[d]] /\ ran'[c] \in Behaviours(exec[c].lang, exec[c].tests)
        /\ \A d \in Calls \ {c} : ran'[d] = ran[d]
    BY <1>2, Zenon DEF IInv, ExecTypeOK
  <1>6. ExecTypeOK'
    BY <1>1, <1>4, <1>5, Zenon DEF IInv, ExecTypeOK, bootVars
  <1>7. \A d \in Calls \ {c} : Same(d)
    BY <1>1, <1>4, <1>5 DEF Same
  <1>8. CallInv(c)'
    BY <1>1, <1>3, <1>4, <1>5 DEF CallInv, Holds, Explained, bootVars
  <1> QED BY <1>1, <1>6, <1>7, <1>8, CallStepKeeps

\* ContainerWait, ContainerWaitFails, ContainerLogs, waitForAgent and runJobRead
\* only move the call on.
LEMMA StepMovesOn ==
    ASSUME IInv, NEW c \in Calls,
           \/ ContainerWait(c) \/ ContainerWaitFails(c) \/ ContainerLogs(c)
           \/ waitForAgent(c) \/ runJobRead(c)
    PROVE  IInv'
  <1> USE DEF At, InExecute
  <1>1. /\ UNCHANGED <<backend, bootVars, dirs, containers, chroots, vms, ran, result, leaked>>
        /\ vms' \in [Calls -> VM]
    BY Zenon DEF ContainerWait, ContainerWaitFails, ContainerLogs, waitForAgent, runJobRead, dockerVars, fcVars,
           IInv, ExecTypeOK
  <1>2. PICK pc \in {"logs", "remove", "send", "kill"}, out \in {"none", "error", "output", "partial"} :
            /\ Moved(c, pc, out)
            /\ pc = "logs" => At(c, "wait") /\ containers[c] = "exited"
            /\ pc = "remove" => /\ exec[c].pc \in {"wait", "logs"}
                                /\ out = "error" \/ (out = "output" /\ At(c, "logs"))
            /\ pc = "send" => At(c, "agent")
            /\ pc = "kill" => /\ exec[c].pc \in {"agent", "read"}
                              /\ \/ out = "error"
                                 \/ /\ out \in {"output", "partial"} /\ At(c, "read")
                                    /\ vms[c].state = "answering"
    <2>0. {"logs", "remove", "send", "kill"} \subseteq PCs
      BY DEF PCs
    <2>1. CASE ContainerWait(c)
      <3>1. CASE containers[c] = "exited" /\ Goto(c, "logs")
        <4>1. Moved(c, "logs", exec[c].out)
          BY <2>0, <3>1, GotoMoves
        <4> QED BY <2>1, <3>1, <4>1, CallFacts DEF ContainerWait
      <3>2. CASE GotoWith(c, "remove", "error")
        <4>1. Moved(c, "remove", "error")
          BY <2>0, <3>2, GotoWithMoves
        <4> QED BY <2>1, <4>1 DEF ContainerWait
      <3> QED BY <2>1, <3>1, <3>2 DEF ContainerWait
    <2>2. CASE ContainerWaitFails(c)
      <3>1. Moved(c, "remove", "error")
        BY <2>0, <2>2, GotoWithMoves DEF ContainerWaitFails
      <3> QED BY <2>2, <3>1 DEF ContainerWaitFails
    <2>3. CASE ContainerLogs(c)
      BY <2>0, <2>3, GotoWithMoves DEF ContainerLogs
    <2>4. CASE waitForAgent(c)
      BY <2>0, <2>4, GotoMoves, GotoWithMoves, CallFacts DEF waitForAgent
    <2>5. CASE runJobRead(c)
      BY <2>0, <2>5, GotoWithMoves DEF runJobRead
    <2> QED BY <2>1, <2>2, <2>3, <2>4, <2>5
  <1>3. InExecute(c) /\ CallInv(c)
    BY <1>2, CallFacts
  <1>4. \A d \in Calls \ {c} : Same(d)
    BY <1>1, <1>2 DEF Same, Moved
  <1>5. c \notin leaked' => Holds(c)'
    BY <1>1, <1>2, <1>3 DEF Holds, Moved, CallInv
  <1>6. Finished(c)' => ran[c] \in Behaviours(exec[c].lang, exec[c].tests)
    BY <1>1, <1>2, <1>3 DEF Finished, Moved, CallInv
  <1> QED BY <1>1, <1>2, <1>3, <1>4, <1>5, <1>6, CallFacts, StepWithin DEF PCs, CallInv

\* The deferred ContainerRemove takes the container away or leaks it.
LEMMA StepContainerRemove ==
    ASSUME IInv, NEW c \in Calls, ContainerRemove(c)
    PROVE  IInv'
  <1> USE DEF At, InExecute
  <1>1. /\ At(c, "remove") /\ InExecute(c) /\ "finish" \in PCs
        /\ UNCHANGED <<backend, bootVars, dirs, chroots, vms, ran, result>>
        /\ vms' \in [Calls -> VM]
    BY Zenon DEF ContainerRemove, fcVars, IInv, ExecTypeOK, PCs
  <1>2. Moved(c, "finish", exec[c].out)
    BY <1>1, GotoMoves DEF ContainerRemove
  <1>3. /\ containers' \in [DOMAIN containers' -> {"created", "running", "exited"}]
        /\ \A d \in Calls \ {c} : /\ d \in DOMAIN containers' <=> d \in DOMAIN containers
                                  /\ d \in DOMAIN containers => containers'[d] = containers[d]
        /\ leaked \subseteq leaked' /\ (c \notin leaked' => c \notin DOMAIN containers')
    BY CallFacts DEF ContainerRemove, Without, Leak
  <1>4. \A d \in Calls \ {c} : Same(d)
    BY <1>1, <1>2, <1>3 DEF Same, Moved
  <1>5. /\ c \notin leaked' => Holds(c)'
        /\ Finished(c)' => ran[c] \in Behaviours(exec[c].lang, exec[c].tests)
    BY <1>1, <1>2, <1>3, CallFacts DEF Holds, Finished, Moved, CallInv
  <1> QED BY <1>1, <1>2, <1>3, <1>4, <1>5, CallFacts, StepWithin DEF CallInv, PCs

\* The verdict of a program that behaved as b, as either parseResults finds it.
LEMMA ParsedExplained ==
    ASSUME IInv, NEW c \in Calls, NEW v, Return(c, v), Moved(c, "done", exec[c].out), UNCHANGED ran,
           ran[c] \in Behaviours(exec[c].lang, exec[c].tests),
           \/ v = DockerParseResults(exec[c].lang, ran[c], exec[c].tests)
           \/ v = FirecrackerParseResults(exec[c].lang, ran[c], exec[c].tests, exec[c].out)
    PROVE  Explained(c)'
  <1>1. PICK lang, n, b : /\ lang = exec[c].lang /\ n = exec[c].tests /\ b = ran[c]
    OBVIOUS
  <1>2. /\ result'[c] = v /\ exec'[c].lang = lang /\ ran'[c] = b /\ exec'[c].tests = n
        /\ n \in 0 .. MaxTests
    BY <1>1, CallFacts, Zenon DEF Return, Moved, IInv, ExecTypeOK
  <1>3. SUFFICES ASSUME v # "InternalError" PROVE ExplainedBy(lang, n, b, v)
    BY <1>2, Zenon DEF Explained
  <1>4. Parsed(lang, n, b, v) /\ b # Dies
    BY <1>1, <1>3, Zenon DEF Parsed, DockerParseResults, FirecrackerParseResults
  <1>5. CASE b \in Tested(n)
    BY <1>2, <1>4, <1>5, RunnerExplained, Zenon
  <1>6. CASE b \in NoCompile
    BY <1>2, <1>4, <1>6, CompilerExplained, Zenon
  <1>7. CASE lang \notin FileLanguages /\ b \in [by : {"program"}, entries : Printed]
    <2>1. b.by = "program"
      BY <1>7
    <2> QED BY <1>7, <2>1, Zenon DEF ExplainedBy
  <1>8. b \in Behaviours(lang, n)
    BY <1>1
  <1> QED BY <1>4, <1>5, <1>6, <1>7, <1>8, Zenon DEF Behaviours

\* The directory goes and the result is built from the output.
LEMMA StepDockerFinish ==
    ASSUME IInv, NEW c \in Calls, DockerFinish(c)
    PROVE  IInv'
  <1> USE DEF At, InExecute
  <1>1. /\ At(c, "finish") /\ InExecute(c) /\ "done" \in PCs
        /\ UNCHANGED <<backend, bootVars, containers, chroots, vms, ran>>
        /\ vms' \in [Calls -> VM]
    BY Zenon DEF DockerFinish, fcVars, IInv, ExecTypeOK, PCs
  <1>2. Moved(c, "done", exec[c].out)
    BY <1>1, GotoMoves, Zenon DEF DockerFinish
  <1>3. PICK v : /\ Return(c, v)
                 /\ v = IF exec[c].out = "output" THEN DockerParseResults(exec[c].lang, ran[c], exec[c].tests)
                                                  ELSE "InternalError"
    BY DEF DockerFinish
  <1>4. Explained(c)'
    <2>1. CASE exec[c].out = "output"
      BY <1>1, <1>2, <1>3, <2>1, CallFacts, ParsedExplained DEF CallInv, Finished
    <2>2. CASE exec[c].out # "output"
      BY <1>3, <2>2, Zenon DEF Explained, Return, IInv, ExecTypeOK
    <2> QED BY <2>1, <2>2
  <1>5. /\ leaked \subseteq leaked' /\ \A d \in Calls \ {c} : d \in dirs' <=> d \in dirs
        /\ c \notin leaked' => c \notin dirs' \cup DOMAIN containers \cup chroots /\ vms'[c] = NoVM
    BY <1>1, CallFacts DEF DockerFinish, Leak, CallInv, Holds
  <1> QED BY <1>1, <1>2, <1>3, <1>4, <1>5, CallFacts, StepReturns DEF CallInv

\* restoreVM loads the pair of snapshot files of the pool, or gives up.
LEMMA StepRestoreVM ==
    ASSUME IInv, NEW c \in Calls, restoreVM(c)
    PROVE  IInv'
  <1> USE DEF At, InExecute
  <1>1. /\ At(c, "restore") /\ InExecute(c) /\ "agent" \in PCs /\ "done" \in PCs
        /\ UNCHANGED <<backend, bootVars, dirs, containers, ran>>
        /\ vms \in [Calls -> VM]
    BY Zenon DEF restoreVM, dockerVars, IInv, ExecTypeOK, PCs
  <1>2. /\ c \notin leaked => c \notin dirs \cup DOMAIN containers \cup chroots /\ vms[c] = NoVM
        /\ CallInv(c)
    BY <1>1, CallFacts DEF CallInv, Holds
  <1>3. CASE /\ chroots' = chroots \cup {c}
             /\ vms' = [vms EXCEPT ![c] = [state |-> "up", pair |-> files[exec[c].lang]]]
             /\ Goto(c, "agent") /\ UNCHANGED <<result, leaked>>
    <2>1. Moved(c, "agent", exec[c].out)
      BY <1>1, <1>3, GotoMoves
    <2>2. PICK pair \in Pair : pair = files[exec[c].lang] /\ pair.snap = pair.mem /\ pair.mem # 0
      BY <1>1, <1>2, ZenonT(40) DEF CallInv, IInv, BootInv, ExecTypeOK
    <2>3. /\ vms' \in [Calls -> VM] /\ vms'[c].pair = pair /\ vms'[c].state = "up"
          /\ \A d \in Calls \ {c} : vms'[d] = vms[d]
      BY <1>1, <1>3, <2>2 DEF VM
    <2>4. \A d \in Calls \ {c} : Same(d)
      BY <1>1, <1>3, <2>1, <2>3 DEF Same, Moved
    <2>5. (c \notin leaked' => Holds(c)') /\ ~ Finished(c)'
      BY <1>1, <1>2, <1>3, <2>1 DEF Holds, Moved, Finished
    <2> QED BY <1>1, <1>3, <2>1, <2>2, <2>3, <2>4, <2>5, CallFacts, StepWithin, ZenonT(40) DEF PCs
  <1>4. CASE /\ Goto(c, "done") /\ Return(c, "InternalError") /\ UNCHANGED vms
             /\ \/ chroots' = chroots \cup {c} /\ Leak({c})
                \/ UNCHANGED <<chroots, leaked>>
    <2>1. Moved(c, "done", exec[c].out)
      BY <1>1, <1>4, GotoMoves
    <2>2. Explained(c)'
      BY <1>4, Zenon DEF Explained, Return, IInv, ExecTypeOK
    <2>3. /\ leaked \subseteq leaked' /\ \A d \in Calls \ {c} : d \in chroots' <=> d \in chroots
          /\ c \notin leaked' => c \notin dirs \cup DOMAIN containers \cup chroots' /\ vms'[c] = NoVM
      BY <1>1, <1>2, <1>4 DEF Leak
    <2> QED BY <1>1, <1>2, <1>4, <2>1, <2>2, <2>3, StepReturns, Zenon DEF CallInv
  <1> QED BY <1>3, <1>4 DEF restoreVM

\* The job is sent to the agent, or the machine is killed.
LEMMA StepRunJobSend ==
    ASSUME IInv, NEW c \in Calls, runJobSend(c)
    PROVE  IInv'
  <1> USE DEF At, InExecute
  <1>1. /\ At(c, "send") /\ InExecute(c) /\ "read" \in PCs /\ "kill" \in PCs
        /\ UNCHANGED <<backend, bootVars, dirs, containers, chroots, ran, result, leaked>>
        /\ vms \in [Calls -> VM]
    BY Zenon DEF runJobSend, dockerVars, IInv, ExecTypeOK, PCs
  <1>2. CallInv(c) /\ containers \in [DOMAIN containers -> {"created", "running", "exited"}]
    BY CallFacts
  <1>3. PICK pc \in {"read", "kill"}, out \in {"none", "error", "output", "partial"} :
            Moved(c, pc, out) /\ (pc = "kill" => out = "error")
    BY <1>1, GotoMoves, GotoWithMoves, CallFacts DEF runJobSend
  <1>4. /\ vms' \in [Calls -> VM] /\ vms'[c].pair = vms[c].pair
        /\ vms'[c].state = "working" \/ (vms'[c] = vms[c] /\ exec'[c].pc = "kill")
        /\ \A d \in Calls \ {c} : vms'[d] = vms[d]
    <2>1. CASE vms' = [vms EXCEPT ![c].state = "working"]
      BY <1>1, <2>1 DEF VM
    <2>2. CASE UNCHANGED vms /\ GotoWith(c, "kill", "error")
      <3>1. exec'[c].pc = "kill"
        BY <1>1, <2>2, GotoWithMoves DEF Moved
      <3> QED BY <1>1, <2>2, <3>1
    <2> QED BY <2>1, <2>2 DEF runJobSend
  <1>5. \A d \in Calls \ {c} : Same(d)
    BY <1>1, <1>3, <1>4 DEF Same, Moved
  <1>6. (c \notin leaked' => Holds(c)') /\ ~ Finished(c)'
    BY <1>1, <1>2, <1>3, <1>4 DEF Holds, Moved, Finished, CallInv
  <1> QED BY <1>1, <1>2, <1>3, <1>4, <1>5, <1>6, StepWithin DEF PCs, CallInv

\* The agent runs the job in the machine.
LEMMA StepHandleConn ==
    ASSUME IInv, NEW c \in Calls, handleConn(c)
    PROVE  IInv'
  <1> USE DEF At, InExecute
  <1>1. /\ At(c, "read") /\ UNCHANGED <<backend, bootVars, exec, dirs, containers, chroots, result, leaked>>
        /\ vms' = [vms EXCEPT ![c].state = "answering"]
        /\ vms \in [Calls -> VM]
        /\ vms[c].state # "none"
    BY Zenon DEF handleConn, dockerVars, IInv, ExecTypeOK
  <1>2. PICK b \in Behaviours(exec[c].lang, exec[c].tests) : ran' = [ran EXCEPT ![c] = b]
    BY Zenon DEF handleConn
  <1>3. CallInv(c)
    BY CallFacts
  <1>4. /\ vms' \in [Calls -> VM] /\ vms'[c].pair = vms[c].pair
        /\ \A d \in Calls \ {c} : vms'[d] = vms[d]
    BY <1>1 DEF VM
  <1>5. /\ ran' = [d \in Calls |-> ran'[d]] /\ ran'[c] \in Behaviours(exec[c].lang, exec[c].tests)
        /\ \A d \in Calls \ {c} : ran'[d] = ran[d]
    BY <1>2 DEF IInv, ExecTypeOK
  <1>6. ExecTypeOK'
    BY <1>1, <1>4, <1>5, Zenon DEF IInv, ExecTypeOK, bootVars
  <1>7. \A d \in Calls \ {c} : Same(d)
    BY <1>1, <1>4, <1>5 DEF Same
  <1>8. CallInv(c)'
    BY <1>1, <1>3, <1>4, <1>5 DEF CallInv, Holds, Explained, bootVars
  <1> QED BY <1>1, <1>6, <1>7, <1>8, CallStepKeeps

\* The machine is killed, its directory goes or leaks, and the result is built.
LEMMA StepFirecrackerFinish ==
    ASSUME IInv, NEW c \in Calls, FirecrackerFinish(c)
    PROVE  IInv'
  <1> USE DEF At, InExecute
  <1>1. /\ At(c, "kill") /\ InExecute(c) /\ "done" \in PCs
        /\ UNCHANGED <<backend, bootVars, dirs, containers, ran>>
        /\ vms \in [Calls -> VM] /\ vms' = [vms EXCEPT ![c] = NoVM]
    BY Zenon DEF FirecrackerFinish, dockerVars, IInv, ExecTypeOK, PCs
  <1>2. Moved(c, "done", exec[c].out)
    BY <1>1, GotoMoves DEF FirecrackerFinish
  <1>3. PICK v : /\ Return(c, v)
                 /\ v = IF exec[c].out = "error" THEN "InternalError"
                        ELSE FirecrackerParseResults(exec[c].lang, ran[c], exec[c].tests, exec[c].out)
    BY DEF FirecrackerFinish
  <1>4. Explained(c)'
    <2>1. CASE exec[c].out \in {"output", "partial"}
      BY <1>1, <1>2, <1>3, <2>1, CallFacts, ParsedExplained DEF CallInv, Finished
    <2>2. CASE exec[c].out = "error"
      BY <1>3, <2>2, Zenon DEF Explained, Return, IInv, ExecTypeOK
    <2> QED BY <1>1, <2>1, <2>2, CallFacts DEF CallInv
  <1>5. /\ vms' \in [Calls -> VM] /\ vms'[c] = NoVM /\ vms'[c].state = "none"
        /\ \A d \in Calls \ {c} : vms'[d] = vms[d]
    BY <1>1 DEF NoVM, NoPair, VM, Pair
  <1>6. /\ leaked \subseteq leaked' /\ \A d \in Calls \ {c} : d \in chroots' <=> d \in chroots
        /\ c \notin leaked' => c \notin dirs \cup DOMAIN containers \cup chroots' /\ vms'[c] = NoVM
    BY <1>1, <1>5, CallFacts DEF FirecrackerFinish, Leak, CallInv, Holds
  <1> QED BY <1>1, <1>2, <1>3, <1>4, <1>5, <1>6, StepReturns

\* The end of a context, or of all of them.
LEMMA StepContext ==
    ASSUME IInv, (\E c \in Calls : WallTimeout(c)) \/ Shutdown
    PROVE  IInv'
  <1>1. UNCHANGED <<backend, bootVars, dirs, containers, chroots, vms, ran, result, leaked>>
    BY DEF WallTimeout, Shutdown, dockerVars, fcVars
  <1>2. /\ exec' \in [Calls -> Call]
        /\ \A d \in Calls : /\ exec'[d].pc = exec[d].pc /\ exec'[d].via = exec[d].via
                            /\ exec'[d].lang = exec[d].lang /\ exec'[d].tests = exec[d].tests
                            /\ exec'[d].out = exec[d].out
    <2>0. exec \in [Calls -> Call]
      BY Zenon DEF IInv, ExecTypeOK
    <2>1. CASE \E c \in Calls : WallTimeout(c)
      <3>1. PICK c \in Calls : exec' = [exec EXCEPT ![c].ctx = "expired"]
        BY <2>1, Zenon DEF WallTimeout
      <3>2. ASSUME NEW d \in Calls
            PROVE  exec'[d] \in {exec[d], [exec[d] EXCEPT !.ctx = "expired"]}
        BY <2>0, <3>1
      <3>3. ASSUME NEW d \in Calls, NEW e, e = [exec[d] EXCEPT !.ctx = "expired"]
            PROVE  /\ e \in Call /\ e.pc = exec[d].pc /\ e.via = exec[d].via
                   /\ e.lang = exec[d].lang /\ e.tests = exec[d].tests /\ e.out = exec[d].out
        <4>1. exec[d] \in Call
          BY <2>0
        <4> QED BY <3>3, <4>1, Zenon DEF Call
      <3>4. exec' \in [Calls -> Call]
        <4>1. \A d \in Calls : exec'[d] \in Call
          BY <2>0, <3>2, <3>3
        <4> QED BY <2>0, <3>1, <4>1
      <3> QED BY <3>2, <3>3, <3>4
    <2>2. CASE Shutdown
      <3>1. ASSUME NEW d \in Calls
            PROVE  exec'[d] \in {exec[d], [exec[d] EXCEPT !.ctx = "cancelled"]}
        BY <2>0, <2>2 DEF Shutdown
      <3>2. ASSUME NEW d \in Calls, NEW e, e = [exec[d] EXCEPT !.ctx = "cancelled"]
            PROVE  /\ e \in Call /\ e.pc = exec[d].pc /\ e.via = exec[d].via
                   /\ e.lang = exec[d].lang /\ e.tests = exec[d].tests /\ e.out = exec[d].out
        <4>1. exec[d] \in Call
          BY <2>0
        <4> QED BY <3>2, <4>1, Zenon DEF Call
      <3>3. exec' \in [Calls -> Call]
        <4>1. \A d \in Calls : exec'[d] \in Call
          BY <2>0, <3>1, <3>2
        <4> QED BY <2>2, <4>1 DEF Shutdown
      <3> QED BY <3>1, <3>2, <3>3
    <2> QED BY <2>1, <2>2
  <1>3. ExecTypeOK'
    BY <1>1, <1>2, Zenon DEF IInv, ExecTypeOK, bootVars
  <1>4. BootInv'
    BY <1>1 DEF IInv, BootInv, bootVars
  <1>5. ASSUME NEW d \in Calls PROVE CallInv(d)'
    <2>1. CallInv(d)
      BY DEF IInv
    <2>2. Explained(d)'
      BY <1>1, <1>2, <2>1, Zenon DEF CallInv, Explained, At
    <2> QED BY <1>1, <1>2, <2>1, <2>2 DEF CallInv, Holds, Finished, InExecute, At, bootVars
  <1> QED BY <1>3, <1>4, <1>5 DEF IInv

-----------------------------------------------------------------------------
(* The process and the snapshot pool.                                        *)

\* Before there is an executor no call runs.
LEMMA ProcessStepKeeps ==
    ASSUME IInv, backend \notin {"docker", "firecracker"}, ExecTypeOK', BootInv',
           leaked \subseteq leaked', UNCHANGED <<exec, dockerVars, fcVars, ran, result>>
    PROVE  IInv'
  <1>1. ASSUME NEW c \in Calls PROVE CallInv(c)'
    <2>1. CallInv(c) /\ ~ InExecute(c)
      BY DEF IInv, CallInv
    <2>2. Same(c)
      BY DEF Same, dockerVars, fcVars
    <2> QED BY <2>1, <2>2, CallKept
  <1> QED BY <1>1 DEF IInv

\* No boot is in progress in NoBoot.
LEMMA NoBootFields == /\ NoBoot.step = "none" /\ NoBoot.lang = ""
                      /\ NoBoot \in [lang : LanguageList \cup {""}, step : {"none", "snap", "mem"}]
  BY DEF NoBoot

\* The steps that choose and finish a backend run no call.
LEMMA StepBuild ==
    ASSUME IInv, buildDockerExecutor \/ NewFirecrackerExecutor \/ FirecrackerReady
    PROVE  IInv'
  <1>1. ExecTypeOK'
    BY Zenon DEF buildDockerExecutor, NewFirecrackerExecutor, FirecrackerReady, IInv, ExecTypeOK, bootVars,
           dockerVars, fcVars
  <1>2. BootInv'
    <2>1. CASE buildDockerExecutor
      BY <2>1 DEF buildDockerExecutor, IInv, BootInv, bootVars
    <2>2. CASE NewFirecrackerExecutor
      BY <2>2, NoBootFields, Zenon DEF NewFirecrackerExecutor, IInv, BootInv
    <2>3. CASE FirecrackerReady
      BY <2>3 DEF FirecrackerReady, IInv, BootInv, bootVars
    <2> QED BY <2>1, <2>2, <2>3
  <1>3. /\ backend \notin {"docker", "firecracker"} /\ leaked \subseteq leaked'
        /\ UNCHANGED <<exec, dockerVars, fcVars, ran, result>>
    BY DEF buildDockerExecutor, NewFirecrackerExecutor, FirecrackerReady
  <1> QED BY <1>1, <1>2, <1>3, ProcessStepKeeps

\* A language of the list that is not in the pool is booted.
LEMMA StepBootFreshVM ==
    ASSUME IInv, NEW l \in LanguageList, bootFreshVM(l)
    PROVE  IInv'
  <1>1. /\ backend = "booting" /\ boot = NoBoot /\ l \notin pool /\ boots' = boots + 1
        /\ UNCHANGED <<files, exec, dockerVars, fcVars, ran, result>>
        /\ bootRoots' = bootRoots \cup {boots'}
    BY DEF bootFreshVM
  <1>2. boots \in Nat /\ boots' \in Nat /\ boots' # 0
    <2>1. boots \in Nat
      BY Zenon DEF IInv, ExecTypeOK
    <2> QED BY <1>1, <2>1
  <1>3. CASE boot' = [lang |-> l, step |-> "snap"] /\ UNCHANGED <<backend, pool, leaked>>
    <2>1. boot'.lang = l /\ boot'.step = "snap" /\ boot' # NoBoot
      <3>1. boot'.lang = l /\ boot'.step = "snap"
        BY <1>3
      <3> QED BY <3>1, NoBootFields, Zenon
    <2>2. ExecTypeOK'
      BY <1>1, <1>2, <1>3, Zenon DEF IInv, ExecTypeOK, dockerVars, fcVars
    <2>3. BootInv'
      BY <1>1, <1>2, <1>3, <2>1 DEF IInv, BootInv
    <2> QED BY <1>1, <1>3, <2>2, <2>3, ProcessStepKeeps
  <1>4. CASE backend' = "none" /\ pool' = {} /\ Leak({boots'}) /\ UNCHANGED boot
    <2>1. ExecTypeOK'
      BY <1>1, <1>2, <1>4, Zenon DEF IInv, ExecTypeOK, dockerVars, fcVars
    <2>2. BootInv'
      BY <1>1, <1>2, <1>4, NoBootFields, Zenon DEF IInv, BootInv, Leak
    <2>3. leaked \subseteq leaked'
      BY <1>4 DEF Leak
    <2> QED BY <1>1, <2>1, <2>2, <2>3, ProcessStepKeeps
  <1> QED BY <1>1, <1>3, <1>4 DEF bootFreshVM

\* A copy that is cut off leaves captures or nothing in the files.
LEMMA CutOffType ==
    ASSUME IInv, CutOffCopy
    PROVE  files' \in [LanguageList -> Pair]
  <1>1. files \in [LanguageList -> Pair]
    BY Zenon DEF IInv, ExecTypeOK
  <1>2. CASE boot # NoBoot /\ files' = [files EXCEPT ![boot.lang][boot.step] = 0]
    <2>1. boot.lang \in LanguageList /\ files[boot.lang] \in Pair
      BY <1>1, <1>2 DEF IInv, BootInv
    <2>2. boot.step = "snap" \/ boot.step = "mem"
      BY <1>2 DEF IInv, BootInv
    <2>3. CASE boot.step = "snap"
      <3>1. files' = [files EXCEPT ![boot.lang] = [files[boot.lang] EXCEPT !.snap = 0]]
        BY <1>2, <2>3, Zenon
      <3> QED BY <1>1, <2>1, <3>1 DEF Pair
    <2>4. CASE boot.step = "mem"
      <3>1. files' = [files EXCEPT ![boot.lang] = [files[boot.lang] EXCEPT !.mem = 0]]
        BY <1>2, <2>4, Zenon
      <3> QED BY <1>1, <2>1, <3>1 DEF Pair
    <2> QED BY <2>2, <2>3, <2>4
  <1> QED BY <1>1, <1>2 DEF CutOffCopy

\* A snapshot that fails ends the backend before it serves any call.
LEMMA StepSnapshotFails ==
    ASSUME IInv, SnapshotFails
    PROVE  IInv'
  <1>1. backend = "booting"
    BY DEF SnapshotFails, IInv, BootInv
  <1>2. ExecTypeOK'
    BY CutOffType, NoBootFields, Zenon DEF SnapshotFails, IInv, ExecTypeOK, dockerVars, fcVars
  <1>3. BootInv'
    BY NoBootFields, Zenon DEF SnapshotFails, IInv, BootInv
  <1> QED BY <1>1, <1>2, <1>3, ProcessStepKeeps DEF SnapshotFails

\* The snapshot file is copied before the memory file.
LEMMA StepCopySnapshotOut ==
    ASSUME IInv, CopySnapshotOut
    PROVE  IInv'
  <1>1. /\ boot # NoBoot /\ boot.lang \in LanguageList \ pool /\ backend = "booting" /\ boots \in Nat
        /\ files \in [LanguageList -> Pair] /\ files[boot.lang] \in Pair
    BY NoBootFields, Zenon DEF CopySnapshotOut, IInv, BootInv, ExecTypeOK
  <1>2. boot'.lang = boot.lang /\ boot'.step = "mem"
        /\ boot' \in [lang : LanguageList \cup {""}, step : {"none", "snap", "mem"}]
    BY Zenon DEF CopySnapshotOut, IInv, ExecTypeOK
  <1>3. /\ files' \in [LanguageList -> Pair] /\ files'[boot.lang].snap = boots
        /\ \A l \in pool : files'[l] = files[l]
    BY <1>1, Zenon DEF CopySnapshotOut, Pair, IInv, ExecTypeOK
  <1>4. ExecTypeOK'
    BY <1>2, <1>3, Zenon DEF CopySnapshotOut, IInv, ExecTypeOK, dockerVars, fcVars
  <1>5. BootInv'
    BY <1>1, <1>2, <1>3, NoBootFields, ZenonT(40) DEF CopySnapshotOut, IInv, BootInv
  <1> QED BY <1>1, <1>4, <1>5, ProcessStepKeeps DEF CopySnapshotOut

\* The memory file completes the pair and the language joins the pool.
LEMMA StepCopyMemOut ==
    ASSUME IInv, CopyMemOut
    PROVE  IInv'
  <1>1. /\ boot # NoBoot /\ boot.lang \in LanguageList \ pool /\ backend = "booting" /\ boots \in Nat
        /\ files \in [LanguageList -> Pair] /\ files[boot.lang] \in Pair
        /\ files[boot.lang].snap = boots /\ boots # 0
    BY NoBootFields, Zenon DEF CopyMemOut, IInv, BootInv, ExecTypeOK
  <1>2. /\ files' \in [LanguageList -> Pair]
        /\ files'[boot.lang].mem = boots /\ files'[boot.lang].snap = boots
        /\ \A l \in pool : files'[l] = files[l]
    BY <1>1, Zenon DEF CopyMemOut, Pair, IInv, ExecTypeOK
  <1>3. ExecTypeOK'
    BY <1>1, <1>2, NoBootFields, Zenon DEF CopyMemOut, IInv, ExecTypeOK, dockerVars, fcVars
  <1>4. leaked \subseteq leaked'
    BY DEF CopyMemOut, Leak
  <1>5. BootInv'
    <2>1. bootRoots' \subseteq leaked'
      BY <1>1 DEF CopyMemOut, IInv, BootInv, Leak
    <2> QED BY <1>1, <1>2, <2>1, NoBootFields, ZenonT(40) DEF CopyMemOut, IInv, BootInv
  <1> QED BY <1>1, <1>3, <1>4, <1>5, ProcessStepKeeps DEF CopyMemOut

\* The process dies: the calls that were running are cut off, and what they had
\* stays on the host.
LEMMA StepExit ==
    ASSUME IInv, Exit
    PROVE  IInv'
  <1> DEFINE cut == {c \in Calls : InExecute(c)}
             g == [Idle EXCEPT !.pc = "gone"]
  <1>1. g \in Call /\ g.pc = "gone"
    BY ExpectedAnswers, Zenon DEF Idle, Call, PCs
  <1>2. /\ exec' = [c \in Calls |-> IF c \in cut THEN g ELSE exec[c]]
        /\ boot' = NoBoot /\ pool' = {} /\ leaked' = leaked \cup cut \cup bootRoots /\ backend' = "none"
        /\ UNCHANGED <<boots, bootRoots, dockerVars, fcVars, ran, result>>
        /\ CutOffCopy
    BY DEF Exit, Leak
  <1> HIDE DEF g
  <1>3. ExecTypeOK'
    BY <1>1, <1>2, CutOffType, NoBootFields, Zenon DEF IInv, ExecTypeOK, dockerVars, fcVars
  <1>4. BootInv'
    BY <1>2, NoBootFields, Zenon DEF BootInv
  <1>5. ASSUME NEW c \in Calls PROVE CallInv(c)'
    <2>0. CallInv(c)
      BY DEF IInv
    <2>1. CASE c \in cut
      <3>1. exec'[c].pc = "gone" /\ c \in leaked'
        BY <1>1, <1>2, <2>1
      <3> QED BY <1>2, <2>0, <3>1, Zenon DEF CallInv, InExecute, At, Finished, Explained, fcVars
    <2>2. CASE c \notin cut
      BY <1>2, <2>0, <2>2, CallKept DEF Same, dockerVars, fcVars
    <2> QED BY <2>1, <2>2
  <1> QED BY <1>3, <1>4, <1>5 DEF IInv

-----------------------------------------------------------------------------
(* Theorems.                                                                 *)

\* No step leaves the invariant.
LEMMA NextIInv == IInv /\ [Next]_vars => IInv'
  <1> SUFFICES ASSUME IInv, [Next]_vars PROVE IInv'
    OBVIOUS
  <1>1. ASSUME NEW c \in Calls, Execute(c) PROVE IInv'
    <2>1. PICK l \in Languages, n \in 0 .. MaxTests :
              StubExecute(c, l, n) \/ DockerExecute(c, l, n) \/ FirecrackerExecute(c, l, n)
      BY <1>1 DEF Execute
    <2> QED BY <2>1, StepExecute
  <1>2. ASSUME NEW c \in Calls, DockerStep(c) PROVE IInv'
    BY <1>2, StepBuildWorkspace, StepContainerCreate, StepContainerStart, StepMovesOn,
       StepContainerRemove, StepDockerFinish DEF DockerStep
  <1>3. ASSUME NEW c \in Calls, FirecrackerStep(c) PROVE IInv'
    BY <1>3, StepRestoreVM, StepRunJobSend, StepMovesOn, StepFirecrackerFinish DEF FirecrackerStep
  <1>4. ASSUME NEW c \in Calls, Sandbox(c) PROVE IInv'
    BY <1>4, StepRunnerExits, StepMovesOn, StepHandleConn DEF Sandbox
  <1>5. CASE Process
    BY <1>5, StepBuild, StepBootFreshVM, StepSnapshotFails, StepCopySnapshotOut, StepCopyMemOut,
       StepContext, StepExit DEF Process
  <1>6. CASE UNCHANGED vars
    <2>1. ExecTypeOK'
      BY <1>6, Zenon DEF IInv, ExecTypeOK, vars, bootVars, dockerVars, fcVars
    <2>2. BootInv'
      BY <1>6 DEF IInv, BootInv, vars, bootVars
    <2>3. ASSUME NEW c \in Calls PROVE CallInv(c)'
      BY <1>6, CallKept DEF IInv, Same, vars, bootVars, dockerVars, fcVars
    <2> QED BY <2>1, <2>2, <2>3 DEF IInv
  <1> QED BY <1>1, <1>2, <1>3, <1>4, <1>5, <1>6, StepContext DEF Next

\* IInv is an inductive invariant of the executors.
THEOREM ExecutorsInvariant == Spec => []IInv
  BY InitIInv, NextIInv, PTL DEF Spec

\* NoLeftovers: whichever step of a call fails and whenever its context ends, what
\* Execute made on the host is gone when it has returned, but for the clean-ups
\* that failed themselves or were cut off.
THEOREM NothingIsLeftBehind == Spec => []NoLeftovers
  <1>1. IInv => NoLeftovers
    BY DEF IInv, BootInv, CallInv, Holds, InExecute, NoLeftovers
  <1> QED BY <1>1, ExecutorsInvariant, PTL

\* VerdictExplained: every verdict but InternalError is the program's doing, for
\* every number of tests and everything a program may do on them.
THEOREM VerdictsAreExplained == Spec => []VerdictExplained
  <1>1. IInv => VerdictExplained
    <2> SUFFICES ASSUME IInv, NEW c \in Calls, At(c, "done"), exec[c].via # "stub", result[c] # "InternalError"
                 PROVE  ExplainedBy(exec[c].lang, exec[c].tests, ran[c], result[c])
      BY Zenon DEF VerdictExplained, ExplainedBy
    <2> QED BY Zenon DEF IInv, CallInv, Explained
  <1> QED BY <1>1, ExecutorsInvariant, PTL

\* PairConsistent: a VM is restored from the two files of one capture.
THEOREM SnapshotsArePaired == Spec => []PairConsistent
  <1>1. IInv => PairConsistent
    BY DEF IInv, CallInv, PairConsistent
  <1> QED BY <1>1, ExecutorsInvariant, PTL
=============================================================================
