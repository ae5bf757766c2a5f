------------------------------ MODULE Executors ------------------------------
(***************************************************************************)
(* The executors a worker hands its jobs to.  DockerExecutor builds a        *)
(* workspace on the host, runs one container per job and parses what the     *)
(* runner printed; FirecrackerExecutor restores one VM per job from the      *)
(* snapshot its pool captured at start-up and talks to the fc-agent inside;   *)
(* StubExecutor accepts everything.  Daemon, disk and VMM may fail at each    *)
(* call, the context may end at any time, and the process may die.           *)
(*                                                                          *)
(* A call is one invocation of Execute.  What it leaves on the host (work     *)
(* directory, container, VM chroot) carries its name.                        *)
(***************************************************************************)
EXTENDS Naturals, Sequences, FiniteSets, FiniteSetsExt

CONSTANTS
    Calls,             \* invocations of Execute
    Languages,         \* languages an assignment may name
    DefaultLanguages,  \* languages the executors are configured for
    LanguageList,      \* languages of this worker: one rootfs image each
    FileLanguages,     \* languages with a process per test and an answer file: go, java
    Answers,           \* the answers programs give
    NoAnswer,          \* none given
    Expected,          \* Expected[i]: the expected answer of test i
    Ends,              \* how a program may end on a test
    Printed,           \* the arrays a program may print in place of its runner
    Backends,          \* configured executors: of docker, firecracker
    AllowStubExecutor,
    Faults,            \* which faults happen: of disk, daemon, vmm, crash
    MaxBoots,          \* bound: boots for snapshots
    NoVerdict

MaxTests == Len(Expected)

ASSUME ExecutorsAssumption ==
    /\ DefaultLanguages \subseteq Languages
    /\ LanguageList \subseteq DefaultLanguages
    /\ FileLanguages \subseteq Languages
    /\ NoAnswer \notin Answers /\ Expected \in Seq(Answers)
    /\ Ends \subseteq {"ok", "slow", "crash", "probe"}
    /\ Printed \subseteq Seq([verdict : STRING, escape : BOOLEAN])
    /\ MaxBoots \in Nat

VARIABLES
    config,      \* WORKER_EXECUTOR: of Backends
    backend,     \* the executor of the process: none, booting, docker, firecracker, stub
    boot,        \* the language being captured and how far it is
    boots,       \* VMs booted for a snapshot so far: names the captures
    pool,        \* SnapshotPool.snapshots: languages that are registered
    files,       \* the snapshot pair of each language: which capture wrote it
    bootRoots,   \* chroots of boot VMs that exist
    exec,        \* where each call is
    dirs,        \* work directories that exist
    containers,  \* containers that exist, and their state
    chroots,     \* chroots of job VMs that exist
    vms,         \* job VMs, and the pair each was restored from
    ran,         \* history: what the program did on the tests
    result,      \* the verdict runJob reports
    leaked       \* history: calls and captures whose clean-up failed or never ran

bootVars == <<boot, boots, pool, files, bootRoots>>
dockerVars == <<dirs, containers>>
fcVars == <<chroots, vms>>
vars == <<config, backend, bootVars, exec, dockerVars, fcVars, ran, result, leaked>>

EmptyTable == [key \in {} |-> {}]
Insert(table, key, row) ==
    [k \in DOMAIN table \cup {key} |-> IF k = key THEN row ELSE table[k]]
Without(table, key) == [k \in DOMAIN table \ {key} |-> table[k]]

Idle == [pc |-> "idle", via |-> "none", lang |-> "", tests |-> 0, ctx |-> "live", out |-> "none"]
NoBoot == [lang |-> "", step |-> "none"]
NoPair == [snap |-> 0, mem |-> 0]
NoVM == [state |-> "none", pair |-> NoPair]

NotRun == [by |-> "nobody"]
Dies == [by |-> "none"]       \* no array is printed, or something else with it

Init ==
    /\ config \in Backends
    /\ backend = "none"
    /\ boot = NoBoot
    /\ boots = 0
    /\ pool = {}
    /\ files = [l \in LanguageList |-> NoPair]
    /\ bootRoots = {}
    /\ exec = [c \in Calls |-> Idle]
    /\ dirs = {}
    /\ containers = EmptyTable
    /\ chroots = {}
    /\ vms = [c \in Calls |-> NoVM]
    /\ ran = [c \in Calls |-> NotRun]
    /\ result = [c \in Calls |-> NoVerdict]
    /\ leaked = {}
-----------------------------------------------------------------------------
(* The runner: what a program does on the tests, and the array it prints.    *)

\* A program ends on a test normally, too late or with an error; probe is an
\* error with one of the escape patterns in its stderr.  However it ends, it may
\* have given an answer.
Outcomes == [end : Ends, answer : Answers \cup {NoAnswer}]

Tested(n) == [by : {"runner"}, tests : [1 .. n -> Outcomes]]
NoCompile == [by : {"compiler"}, escape : BOOLEAN]

\* python.py and javascript.js load the program into their own process, where it
\* can write to the stdout of the runner and end it: the array that is read may
\* be the program's.
Behaviours(lang, n) ==
    Tested(n) \cup NoCompile \cup {Dies}
        \cup IF lang \in FileLanguages THEN {} ELSE [by : {"program"}, entries : Printed]

\* The answer file holds what the last test that wrote to it left there, however
\* that test ended: it is not removed between tests.
LastAnswer(b, i) ==
    LET writers == {k \in 1 .. i : b.tests[k].answer # NoAnswer} IN
    IF writers = {} THEN NoAnswer ELSE b.tests[Max(writers)].answer

Actual(lang, b, i) == IF lang \in FileLanguages THEN LastAnswer(b, i) ELSE b.tests[i].answer

Verdict(lang, b, i) ==
    CASE b.tests[i].end = "ok" -> IF Actual(lang, b, i) = Expected[i] THEN "Accepted" ELSE "WrongAnswer"
      [] b.tests[i].end = "slow" -> "TimeLimitExceeded"
      [] OTHER -> "RuntimeError"

\* The array that is printed: verdict and stderr of each entry.
Entries(lang, b, n) ==
    CASE b.by = "runner" -> [i \in 1 .. n |-> [verdict |-> Verdict(lang, b, i),
                                              escape |-> b.tests[i].end = "probe"]]
      [] b.by = "compiler" -> [i \in 1 .. n |-> [verdict |-> "CompilationError", escape |-> b.escape]]
      [] b.by = "program" -> b.entries

\* Mutant: the last verdict that is not Accepted wins.
OverallVerdictLast(es) ==
    LET failed == {i \in DOMAIN es : es[i].verdict # "Accepted"} IN
    IF failed = {} THEN "Accepted" ELSE es[Max(failed)].verdict
OverallVerdict(es) ==
    LET failed == {i \in DOMAIN es : es[i].verdict # "Accepted"} IN
    IF failed = {} THEN "Accepted" ELSE es[Min(failed)].verdict

detectEscapeAttempt(es) == \E i \in DOMAIN es : es[i].escape

\* Neither parseResults compares the entries with the tests of the assignment.
DockerParseResults(lang, b, n) ==
    IF b = Dies THEN "InternalError"
    ELSE IF detectEscapeAttempt(Entries(lang, b, n)) THEN "SandboxViolation"
    ELSE OverallVerdict(Entries(lang, b, n))

\* The agent answers for a runner that fails; half an array does not parse.
FirecrackerParseResults(lang, b, n, out) ==
    IF b = Dies \/ out = "partial" THEN "InternalError" ELSE OverallVerdict(Entries(lang, b, n))
-----------------------------------------------------------------------------
(* Steps of a call.                                                          *)

At(c, pc) == exec[c].pc = pc
Goto(c, pc) == exec' = [exec EXCEPT ![c].pc = pc]
GotoWith(c, pc, out) == exec' = [exec EXCEPT ![c].pc = pc, ![c].out = out]
Return(c, v) == result' = [result EXCEPT ![c] = v]
Leak(S) == leaked' = leaked \cup S

Enter(c, pc, l, n) ==
    exec' = [exec EXCEPT ![c] = [Idle EXCEPT !.pc = pc, !.via = backend, !.lang = l, !.tests = n]]

StubExecute(c, l, n) ==
    /\ backend = "stub" /\ At(c, "idle")
    /\ Enter(c, "done", l, n)
    /\ Return(c, "Accepted")
    /\ UNCHANGED <<backend, bootVars, dockerVars, fcVars, ran, leaked>>

DockerExecute(c, l, n) ==
    /\ backend = "docker" /\ At(c, "idle")
    /\ IF l \in DefaultLanguages /\ n > 0
       THEN Enter(c, "workspace", l, n) /\ UNCHANGED result
       ELSE Enter(c, "done", l, n) /\ Return(c, "InternalError")
    /\ UNCHANGED <<backend, bootVars, dockerVars, fcVars, ran, leaked>>

\* A file that cannot be written ends in RemoveAll, whose error is ignored, and
\* in an error that runJob reports as InternalError.
buildWorkspace(c) ==
    /\ At(c, "workspace")
    /\ \/ dirs' = dirs \cup {c} /\ Goto(c, "create") /\ UNCHANGED <<result, leaked>>
       \/ /\ "disk" \in Faults
          /\ Goto(c, "done") /\ Return(c, "InternalError")
          /\ \/ UNCHANGED <<dirs, leaked>>
             \/ dirs' = dirs \cup {c} /\ Leak({c})
    /\ UNCHANGED <<backend, bootVars, containers, fcVars, ran>>

Ended(c) == exec[c].ctx # "live"

\* A create that fails, or whose reply comes too late, may have made a container
\* that nobody knows the id of.
ContainerCreate(c) ==
    /\ At(c, "create")
    /\ \/ /\ ~ Ended(c)
          /\ containers' = Insert(containers, c, "created")
          /\ Goto(c, "start") /\ UNCHANGED leaked
       \/ /\ Ended(c) \/ "daemon" \in Faults
          /\ GotoWith(c, "finish", "error")
          /\ \/ UNCHANGED <<containers, leaked>>
             \/ containers' = Insert(containers, c, "created") /\ Leak({c})
    /\ UNCHANGED <<backend, bootVars, dirs, fcVars, ran, result>>

\* Mutant: ContainerRemove is deferred only after a successful start.
ContainerStartNotDeferred(c) ==
    /\ At(c, "start")
    /\ \/ /\ ~ Ended(c)
          /\ containers' = [containers EXCEPT ![c] = "running"]
          /\ Goto(c, "wait")
       \/ /\ Ended(c) \/ "daemon" \in Faults
          /\ GotoWith(c, "finish", "error")
          /\ UNCHANGED containers
    /\ UNCHANGED <<backend, bootVars, dirs, fcVars, ran, result, leaked>>

ContainerStart(c) ==
    /\ At(c, "start")
    /\ \/ /\ ~ Ended(c)
          /\ containers' = [containers EXCEPT ![c] = "running"]
          /\ Goto(c, "wait")
       \/ /\ Ended(c) \/ "daemon" \in Faults
          /\ GotoWith(c, "remove", "error")
          /\ \E state \in {"created", "running"} : containers' = [containers EXCEPT ![c] = state]
    /\ UNCHANGED <<backend, bootVars, dirs, fcVars, ran, result, leaked>>

\* The container runs the runner, which may also never end.
RunnerExits(c) ==
    /\ At(c, "wait") /\ containers[c] = "running"
    /\ containers' = [containers EXCEPT ![c] = "exited"]
    /\ \E b \in Behaviours(exec[c].lang, exec[c].tests) : ran' = [ran EXCEPT ![c] = b]
    /\ UNCHANGED <<backend, bootVars, exec, dirs, fcVars, result, leaked>>

\* Mutant: the select has no case for runCtx.Done().
ContainerWaitForEver(c) ==
    /\ At(c, "wait")
    /\ containers[c] = "exited"
    /\ Goto(c, "logs")
    /\ UNCHANGED <<backend, bootVars, dockerVars, fcVars, ran, result, leaked>>

\* The select takes any case that is ready: the end of the context may win over
\* a container that has finished.
ContainerWait(c) ==
    /\ At(c, "wait")
    /\ \/ containers[c] = "exited" /\ Goto(c, "logs")
       \/ Ended(c) /\ GotoWith(c, "remove", "error")
    /\ UNCHANGED <<backend, bootVars, dockerVars, fcVars, ran, result, leaked>>

\* The daemon breaks off the wait; nothing makes it do so.
ContainerWaitFails(c) ==
    /\ At(c, "wait")
    /\ "daemon" \in Faults
    /\ GotoWith(c, "remove", "error")
    /\ UNCHANGED <<backend, bootVars, dockerVars, fcVars, ran, result, leaked>>

ContainerLogs(c) ==
    /\ At(c, "logs")
    /\ \/ GotoWith(c, "remove", "output")
       \/ "daemon" \in Faults /\ GotoWith(c, "remove", "error")
    /\ UNCHANGED <<backend, bootVars, dockerVars, fcVars, ran, result, leaked>>

\* Deferred by runContainer, under a context of its own; an error is logged.
ContainerRemove(c) ==
    /\ At(c, "remove")
    /\ Goto(c, "finish")
    /\ \/ containers' = Without(containers, c) /\ UNCHANGED leaked
       \/ "daemon" \in Faults /\ Leak({c}) /\ UNCHANGED containers
    /\ UNCHANGED <<backend, bootVars, dirs, fcVars, ran, result>>

\* parseResults, then the deferred RemoveAll(workDir), whose error is logged.
DockerFinish(c) ==
    /\ At(c, "finish")
    /\ Goto(c, "done")
    /\ Return(c, IF exec[c].out = "output" THEN DockerParseResults(exec[c].lang, ran[c], exec[c].tests)
                                           ELSE "InternalError")
    /\ \/ dirs' = dirs \ {c} /\ UNCHANGED leaked
       \/ "disk" \in Faults /\ Leak({c}) /\ UNCHANGED dirs
    /\ UNCHANGED <<backend, bootVars, containers, fcVars, ran>>
-----------------------------------------------------------------------------
FirecrackerExecute(c, l, n) ==
    /\ backend = "firecracker" /\ At(c, "idle")
    /\ IF l \in DefaultLanguages /\ l \in pool
       THEN Enter(c, "restore", l, n) /\ UNCHANGED result
       ELSE Enter(c, "done", l, n) /\ Return(c, "InternalError")
    /\ UNCHANGED <<backend, bootVars, dockerVars, fcVars, ran, leaked>>

\* A copy that fails leaves the chroot behind; a machine that does not start is
\* cleaned up.
restoreVM(c) ==
    /\ At(c, "restore")
    /\ \/ /\ chroots' = chroots \cup {c}
          /\ vms' = [vms EXCEPT ![c] = [state |-> "up", pair |-> files[exec[c].lang]]]
          /\ Goto(c, "agent") /\ UNCHANGED <<result, leaked>>
       \/ /\ "disk" \in Faults
          /\ chroots' = chroots \cup {c} /\ Leak({c})
          /\ Goto(c, "done") /\ Return(c, "InternalError") /\ UNCHANGED vms
       \/ /\ "vmm" \in Faults
          /\ Goto(c, "done") /\ Return(c, "InternalError")
          /\ UNCHANGED <<chroots, vms, leaked>>
    /\ UNCHANGED <<backend, bootVars, dockerVars, ran>>

waitForAgent(c) ==
    /\ At(c, "agent")
    /\ \/ Goto(c, "send")
       \/ "vmm" \in Faults /\ GotoWith(c, "kill", "error")
    /\ UNCHANGED <<backend, bootVars, dockerVars, fcVars, ran, result, leaked>>

\* dialVsock and the request.  Of the context only the deadline counts here.
runJobSend(c) ==
    /\ At(c, "send")
    /\ \/ /\ exec[c].ctx # "expired"
          /\ vms' = [vms EXCEPT ![c].state = "working"]
          /\ Goto(c, "read")
       \/ /\ exec[c].ctx = "expired" \/ "vmm" \in Faults
          /\ GotoWith(c, "kill", "error") /\ UNCHANGED vms
    /\ UNCHANGED <<backend, bootVars, dockerVars, chroots, ran, result, leaked>>

\* The agent in the VM runs the job and writes its answer.
handleConn(c) ==
    /\ At(c, "read") /\ vms[c].state = "working"
    /\ vms' = [vms EXCEPT ![c].state = "answering"]
    /\ \E b \in Behaviours(exec[c].lang, exec[c].tests) : ran' = [ran EXCEPT ![c] = b]
    /\ UNCHANGED <<backend, bootVars, exec, dockerVars, chroots, result, leaked>>

\* Read until the agent closes the connection or the deadline passes; what has
\* arrived by then is taken, and nothing at all is an error.
runJobRead(c) ==
    /\ At(c, "read")
    /\ \/ vms[c].state = "answering" /\ GotoWith(c, "kill", "output")
       \/ /\ exec[c].ctx = "expired"
          /\ \/ vms[c].state = "answering" /\ GotoWith(c, "kill", "partial")
             \/ GotoWith(c, "kill", "error")
    /\ UNCHANGED <<backend, bootVars, dockerVars, fcVars, ran, result, leaked>>

\* parseResults, then the deferred kill() and cleanup(), whose errors are ignored.
FirecrackerFinish(c) ==
    /\ At(c, "kill")
    /\ Goto(c, "done")
    /\ Return(c, IF exec[c].out = "error" THEN "InternalError"
                 ELSE FirecrackerParseResults(exec[c].lang, ran[c], exec[c].tests, exec[c].out))
    /\ vms' = [vms EXCEPT ![c] = NoVM]
    /\ \/ chroots' = chroots \ {c} /\ UNCHANGED leaked
       \/ "disk" \in Faults /\ Leak({c}) /\ UNCHANGED chroots
    /\ UNCHANGED <<backend, bootVars, dockerVars, ran>>
-----------------------------------------------------------------------------
(* The context of a call.                                                    *)

InExecute(c) == exec[c].pc \notin {"idle", "done", "gone"}

\* The wall-clock budget of the call runs out.
WallTimeout(c) ==
    /\ exec[c].pc \in {"create", "start", "wait", "send", "read"}
    /\ exec[c].ctx # "expired"
    /\ exec' = [exec EXCEPT ![c].ctx = "expired"]
    /\ UNCHANGED <<backend, bootVars, dockerVars, fcVars, ran, result, leaked>>

\* A signal cancels the context of every job.
Shutdown ==
    /\ \E c \in Calls : InExecute(c) /\ ~ Ended(c)
    /\ exec' = [c \in Calls |-> IF InExecute(c) /\ ~ Ended(c)
                                THEN [exec[c] EXCEPT !.ctx = "cancelled"] ELSE exec[c]]
    /\ UNCHANGED <<backend, bootVars, dockerVars, fcVars, ran, result, leaked>>
-----------------------------------------------------------------------------
(* buildExecutor, and the snapshot pool.                                     *)

\* Without a client the worker may fall back to the stub.
buildDockerExecutor ==
    /\ backend = "none" /\ config = "docker"
    /\ \/ backend' = "docker"
       \/ "daemon" \in Faults /\ AllowStubExecutor /\ backend' = "stub"
    /\ UNCHANGED <<bootVars, exec, dockerVars, fcVars, ran, result, leaked>>

\* Mutant: languages whose state file is on disk are not captured again.
NewFirecrackerExecutorReuses ==
    /\ backend = "none" /\ config = "firecracker"
    /\ backend' = "booting"
    /\ pool' = {l \in LanguageList : files[l].snap # 0}
    /\ UNCHANGED <<boot, boots, files, bootRoots, exec, dockerVars, fcVars, ran, result, leaked>>

NewFirecrackerExecutor ==
    /\ backend = "none" /\ config = "firecracker"
    /\ backend' = "booting"
    /\ pool' = {}
    /\ UNCHANGED <<boot, boots, files, bootRoots, exec, dockerVars, fcVars, ran, result, leaked>>

\* The languages come in the random order of a map.  A machine that does not
\* start may leave its chroot, and ends the process.
bootFreshVM(l) ==
    /\ backend = "booting" /\ boot = NoBoot
    /\ l \in LanguageList \ pool
    /\ boots < MaxBoots
    /\ boots' = boots + 1
    /\ \/ /\ bootRoots' = bootRoots \cup {boots'}
          /\ boot' = [lang |-> l, step |-> "snap"]
          /\ UNCHANGED <<backend, pool, leaked>>
       \/ /\ "vmm" \in Faults
          /\ backend' = "none" /\ pool' = {}
          /\ bootRoots' = bootRoots \cup {boots'} /\ Leak({boots'})
          /\ UNCHANGED boot
    /\ UNCHANGED <<files, exec, dockerVars, fcVars, ran, result>>

\* A copy over an existing file that is cut off leaves neither the old nor the
\* new capture (0: absent or torn).
CutOffCopy ==
    \/ UNCHANGED files
    \/ boot # NoBoot /\ files' = [files EXCEPT ![boot.lang][boot.step] = 0]

\* The agent does not answer, or the capture or a copy fails: the boot VM is
\* cleaned up and the process ends.
SnapshotFails ==
    /\ boot # NoBoot
    /\ "vmm" \in Faults
    /\ backend' = "none" /\ pool' = {}
    /\ boot' = NoBoot
    /\ bootRoots' = bootRoots \ {boots}
    /\ CutOffCopy
    /\ UNCHANGED <<boots, exec, dockerVars, fcVars, ran, result, leaked>>

\* takeSnapshot: first one file of the pair, then the other.
CopySnapshotOut ==
    /\ boot.step = "snap"
    /\ files' = [files EXCEPT ![boot.lang].snap = boots]
    /\ boot' = [boot EXCEPT !.step = "mem"]
    /\ UNCHANGED <<backend, boots, pool, bootRoots, exec, dockerVars, fcVars, ran, result, leaked>>

CopyMemOut ==
    /\ boot.step = "mem"
    /\ files' = [files EXCEPT ![boot.lang].mem = boots]
    /\ pool' = pool \cup {boot.lang}
    /\ boot' = NoBoot
    /\ \/ bootRoots' = bootRoots \ {boots} /\ UNCHANGED leaked
       \/ "disk" \in Faults /\ Leak({boots}) /\ UNCHANGED bootRoots
    /\ UNCHANGED <<backend, boots, exec, dockerVars, fcVars, ran, result>>

FirecrackerReady ==
    /\ backend = "booting" /\ pool = LanguageList
    /\ backend' = "firecracker"
    /\ UNCHANGED <<bootVars, exec, dockerVars, fcVars, ran, result, leaked>>

\* The process dies, or main returns without waiting for the calls: no deferred
\* function runs.
Exit ==
    LET cut == {c \in Calls : InExecute(c)} IN
    /\ "crash" \in Faults
    /\ backend # "none"
    /\ backend' = "none"
    /\ exec' = [c \in Calls |-> IF c \in cut THEN [Idle EXCEPT !.pc = "gone"] ELSE exec[c]]
    /\ boot' = NoBoot
    /\ pool' = {}
    /\ Leak(cut \cup bootRoots)
    /\ CutOffCopy
    /\ UNCHANGED <<boots, bootRoots, dockerVars, fcVars, ran, result>>
-----------------------------------------------------------------------------
Execute(c) ==
    \E l \in Languages, n \in 0 .. MaxTests :
        StubExecute(c, l, n) \/ DockerExecute(c, l, n) \/ FirecrackerExecute(c, l, n)

DockerStep(c) ==
    \/ buildWorkspace(c)
    \/ ContainerCreate(c)
    \/ ContainerStart(c)
    \/ ContainerWait(c)
    \/ ContainerLogs(c)
    \/ ContainerRemove(c)
    \/ DockerFinish(c)

FirecrackerStep(c) ==
    \/ restoreVM(c)
    \/ waitForAgent(c)
    \/ runJobSend(c)
    \/ runJobRead(c)
    \/ FirecrackerFinish(c)

Sandbox(c) == RunnerExits(c) \/ ContainerWaitFails(c) \/ handleConn(c)

Process ==
    \/ buildDockerExecutor
    \/ NewFirecrackerExecutor
    \/ \E l \in LanguageList : bootFreshVM(l)
    \/ SnapshotFails
    \/ CopySnapshotOut
    \/ CopyMemOut
    \/ FirecrackerReady
    \/ Shutdown
    \/ Exit

Next ==
    /\ \/ Process
       \/ \E c \in Calls :
             Execute(c) \/ DockerStep(c) \/ FirecrackerStep(c) \/ Sandbox(c) \/ WallTimeout(c)
    /\ UNCHANGED config

Spec == Init /\ [][Next]_vars

\* The goroutine of a call runs on, daemon and VMM answer each request with
\* success or an error, and timers fire.  The program itself may never end.
LiveSpec ==
    /\ Spec
    /\ \A c \in Calls : /\ WF_vars((DockerStep(c) \/ FirecrackerStep(c)) /\ UNCHANGED config)
                        /\ WF_vars(WallTimeout(c) /\ UNCHANGED config)
-----------------------------------------------------------------------------
(* Properties.                                                              *)

\* When Execute has returned, its work directory, container, VM and chroot are
\* gone, whichever of its steps failed and whenever its context ended, except
\* where the removal itself failed, a container was created behind an error,
\* the copy of a snapshot failed or the process was cut off.
NoLeftovers ==
    /\ \A c \in Calls \ leaked : ~ InExecute(c) =>
          c \notin dirs \cup DOMAIN containers \cup chroots /\ vms[c] = NoVM
    /\ boot = NoBoot => bootRoots \subseteq leaked

\* Test i ended normally and in time with the expected answer: its own or, with
\* an answer file, that of an earlier test, if none has written since.
Passed(lang, tests, i) ==
    /\ tests[i].end = "ok"
    /\ \E k \in 1 .. i :
          /\ tests[k].answer = Expected[i]
          /\ lang \notin FileLanguages => k = i
          /\ \A j \in k + 1 .. i : tests[j].answer = NoAnswer

\* Whatever fails around it, a verdict is the program's doing.  If its runner
\* reported on the tests, Accepted means that all of them passed, and any other
\* verdict but InternalError is that of the first test that did not, or
\* SandboxViolation for an error that looks like an escape.  If it reported that
\* the program does not compile, the verdict says so.  Only where the program
\* runs in the runner's process (python, javascript) can the array be the
\* program's own, of which neither parseResults checks anything.  No failure of
\* daemon, VMM or agent, no cut-off output and no late timeout ends in a verdict.
VerdictExplained ==
    \A c \in Calls : At(c, "done") /\ exec[c].via # "stub" /\ result[c] # "InternalError" =>
        LET b == ran[c]
            failed == {i \in 1 .. exec[c].tests : ~ Passed(exec[c].lang, b.tests, i)}
        IN  \/ /\ b.by = "runner" /\ DOMAIN b.tests = 1 .. exec[c].tests
               /\ result[c] = "Accepted" <=> failed = {}
               /\ \/ failed = {}
                  \/ result[c] = "SandboxViolation" /\ \E i \in failed : b.tests[i].end = "probe"
                  \/ result[c] = Verdict(exec[c].lang, b, Min(failed))
            \/ /\ b.by = "compiler"
               /\ \/ result[c] = "CompilationError"
                  \/ result[c] = "SandboxViolation" /\ b.escape
                  \/ exec[c].tests = 0
            \/ b.by = "program" /\ exec[c].lang \notin FileLanguages

\* A VM is restored from a state file and a memory file of one capture, also
\* when the process died between writing the two and started again.
PairConsistent ==
    \A c \in Calls : vms[c].state # "none" => vms[c].pair.snap = vms[c].pair.mem /\ vms[c].pair.mem # 0

\* Every call of Execute returns, even if the program never ends and the
\* container or the agent never answers, unless the process goes away.
CallsReturn == \A c \in Calls : InExecute(c) ~> ~ InExecute(c)
=============================================================================
