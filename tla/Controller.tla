------------------------------ MODULE Controller ------------------------------
(***************************************************************************)
(* Calls of the Codex controller, each a process of its own, over what     *)
(* they share: the state file with the threads of the tasks, one worktree  *)
(* per task, the execution lock and the producer records in the common git *)
(* directory.  A call may be killed at any step.                           *)
(*                                                                         *)
(* Codex, git and the user are external.  Every edit leaves bytes that     *)
(* were never there before, and only a commit makes a worktree clean.      *)
(***************************************************************************)
EXTENDS PrimaryStatus, FreeSelector, FiniteSets

CONSTANTS
    Calls, Tasks,
    PreferredModel,  \* of the primary provider
    Situations,      \* what the calls are asked for, and the plan there is
    Catalogs,        \* catalogs the marketplace may answer with
    MaxEdits,        \* bound on the edits of all worktrees
    MaxLive          \* bound on the calls that run at the same time

ASSUME NoneIsNoCall == None \notin Calls
ASSUME NoneIsNoString ==
    None \notin {"primary", "openrouter-free", "NO_VERIFIED_FREE_MODEL", "NO_CURRENT_COMPATIBLE_FREE_MODEL",
                 "CODEX_COMPATIBILITY_UNKNOWN", "CODEX_COMPATIBILITY_STALE", "INVALID_PLAN_ARTIFACT",
                 "PLAN_ARTIFACT_UNCHANGED", "BUILD_STATE_UNCHANGED", "BUILD_PLAN_CHANGED"}
ASSUME EditsAssumption == MaxEdits \in Nat
ASSUME CatalogsAssumption == \A catalog \in Catalogs : WellFormedCatalog(catalog)

VARIABLES
    request,      \* of each call, or None
    pc,           \* where it is
    run,          \* what it knows
    lock,         \* the call that created the execution lock, or None
    planRecord,   \* the producer records of the one plan path, or None
    buildRecord,
    threads,      \* the state file: the entry of each task, or None
    tree,         \* the worktree of each task
    author        \* by edit: the call that made it while it held the lock, or None

vars == <<client, request, pc, run, lock, planRecord, buildRecord, threads, tree, author>>

-----------------------------------------------------------------------------
(* What a call is asked for, what it knows, and what is in the files *)

Ended == {"done", "failed", "killed"}

\* A call that holds the lock, unless it was killed.
Producing == {"before", "produce", "after", "record", "release"}

Requests ==
    [task : Tasks, mode : {"auto", "primary", "openrouter-free"}, phase : {"general", "plan", "build", "review"},
     target : {"plan", "implementation", None}, fresh : BOOLEAN, issue : BOOLEAN, override : Models \cup {None}]

\* A plan that is there before the first edit has bytes of its own.
FirstPlans == [status : {"PROPOSED", "APPROVED"}, bytes : {0}] \cup {None}

ASSUME SituationsAssumption ==
    \A situation \in Situations :
        situation.request \in [Calls -> Requests \cup {None}] /\ situation.plan \in FirstPlans

RunFields ==
    {"provider", "model", "error", "threads", "excluded", "judged", "resumed", "thread", "shape", "before", "after"}

\* Nobody is excluded yet.
NewRun == [field \in RunFields |-> IF field = "excluded" THEN {} ELSE None]

Task(c) == request[c].task
Tree(c) == tree[Task(c)]
Role(c) == RoleForPhase(request[c].phase, request[c].target)
Free(c) == run[c].provider = "openrouter-free"
Produces(c) == Free(c) /\ request[c].phase \in {"plan", "build"}
ReadOnly(c) == Free(c) /\ request[c].phase = "general"

\* The hash of a worktree covers what is not committed: lines is what git
\* status --short prints, bytes what is in the files.
Clean == [lines |-> 0, bytes |-> 0]

\* readPlanArtifact(): the bytes under the one status asked for.
PlanHas(plan, status) == plan # None /\ plan.status = status

Goto(c, place) == pc' = [pc EXCEPT ![c] = place]

\* A process that ended has forgotten all but who did the work.
End(c, place) ==
    /\ Goto(c, place)
    /\ run' = [run EXCEPT ![c] = [NewRun EXCEPT !.provider = run[c].provider, !.model = run[c].model]]

\* Mutant: the lock is acquired inside the block that releases it.
FromAcquire == Producing \cup {"acquire"}

\* The block whose end releases the lock.
Finally == Producing

\* Where a call that fails goes on: a producer still releases the lock.
Fail(c, code) ==
    IF pc[c] \in Finally
    THEN Goto(c, "release") /\ run' = [run EXCEPT ![c].error = code]
    ELSE End(c, "failed")

Knows(c, r, place) == run' = [run EXCEPT ![c] = r] /\ Goto(c, place)

files == <<lock, planRecord, buildRecord, threads, tree, author>>

-----------------------------------------------------------------------------
(* Provider, worktree and state file *)

AfterProvider(c) == IF request[c].issue THEN "load" ELSE "worktree"
AfterWorktree(c) == IF Free(c) THEN "select" ELSE IF request[c].issue THEN "begin" ELSE "load"
AfterSelection(c) == IF request[c].issue THEN "begin" ELSE "load"

\* The free provider is not asked about the primary one.
Start(c) ==
    /\ pc[c] = "idle" /\ request[c] # None
    /\ Cardinality({d \in Calls : pc[d] \notin Ended \cup {"idle"}}) < MaxLive
    /\ IF request[c].mode = "openrouter-free"
       THEN Knows(c, [run[c] EXCEPT !.provider = "openrouter-free"], AfterProvider(c)) /\ UNCHANGED client
       ELSE Goto(c, "status") /\ Becomes(c, NewClient) /\ UNCHANGED run
    /\ UNCHANGED <<request, files>>

Exchange(c) ==
    /\ pc[c] = "status"
    /\ ReadStatus(c)
    /\ UNCHANGED <<request, pc, run, files>>

Decide(c) ==
    LET provider == DecideProvider(request[c].mode, client[c].candidate)
    IN /\ pc[c] = "status" /\ client[c].settled
       /\ IF provider = "refused" THEN Fail(c, "PRIMARY_UNAVAILABLE")
          ELSE Knows(c, [run[c] EXCEPT !.provider = provider,
                                       !.model = IF provider = "primary" THEN PreferredModel ELSE None],
                     AfterProvider(c))
       /\ UNCHANGED <<client, request, files>>

\* loadState(): in issue mode long before the task runs, else just before it.
\* saveState() is not atomic: a file found half written cannot be parsed.
LoadState(c) ==
    /\ pc[c] = "load"
    /\ \/ Knows(c, [run[c] EXCEPT !.threads = threads], IF request[c].issue THEN "worktree" ELSE "begin")
       \/ Fail(c, "STATE_FILE")
    /\ UNCHANGED <<client, request, files>>

\* Its contents do not depend on whether it is added or found.
EnsureWorktree(c) ==
    /\ pc[c] = "worktree"
    /\ \/ Goto(c, AfterWorktree(c)) /\ UNCHANGED run
       \/ Fail(c, "WORKTREE")
    /\ UNCHANGED <<client, request, files>>

-----------------------------------------------------------------------------
(* fallbackSelection() and selectOpenRouter() *)

\* What a review is to judge, or what a build is to follow.
ReadArtifacts(c) ==
    LET status == IF request[c].target = "plan" THEN "PROPOSED" ELSE "APPROVED"
        judged == [plan |-> Tree(c).plan, state |-> Tree(c).state]
    IN /\ pc[c] = "select"
       /\ CASE request[c].phase \in {"general", "plan"} -> Goto(c, "catalog") /\ UNCHANGED run
            [] PlanHas(Tree(c).plan, status) ->
                  Knows(c, [run[c] EXCEPT !.judged = judged],
                        IF request[c].phase = "review" THEN "producer" ELSE "catalog")
            [] OTHER -> Fail(c, "INVALID_PLAN_ARTIFACT")
       /\ UNCHANGED <<client, request, files>>

\* Mutant: the record of the plan path, whatever it was written for.
PlanReviewOfPath(judged) == IF planRecord = None THEN None ELSE planRecord.model

\* The model of the record, if it is about what the review is to judge.
PlanReviewProducer(judged) ==
    IF planRecord # None /\ planRecord.plan = judged.plan.bytes THEN planRecord.model ELSE None

BuildReviewProducer(judged) ==
    IF buildRecord # None /\ buildRecord.plan = judged.plan.bytes /\ buildRecord.state = judged.state
    THEN buildRecord.model ELSE None

LoadProducer(c) ==
    LET producer == IF Role(c) = "plan-review" THEN PlanReviewProducer(run[c].judged)
                    ELSE BuildReviewProducer(run[c].judged)
    IN /\ pc[c] = "producer"
       /\ IF producer = None THEN Fail(c, "PRODUCER_UNKNOWN")
          ELSE Knows(c, [run[c] EXCEPT !.excluded = {producer}], "catalog")
       /\ UNCHANGED <<client, request, files>>

Select(c) ==
    /\ pc[c] = "catalog"
    /\ \/ Fail(c, "OPENROUTER_REQUEST_FAILED")
       \/ \E catalog \in Catalogs :
             LET chosen == SelectFirstCompatibleEligible(catalog, run[c].excluded, request[c].override)
             IN IF chosen.error # None THEN Fail(c, chosen.error)
                ELSE Knows(c, [run[c] EXCEPT !.model = chosen.model], "preflight")
    /\ UNCHANGED <<client, request, files>>

\* The record of the model is asked for once more and must still qualify.
Preflight(c) ==
    /\ pc[c] = "preflight"
    /\ \/ Goto(c, AfterSelection(c)) /\ UNCHANGED run
       \/ Fail(c, "OPENROUTER_PREFLIGHT_FAILED")
    /\ UNCHANGED <<client, request, files>>

-----------------------------------------------------------------------------
(* runCodexTask() *)

\* Mutant: the role of the thread is not compared.
MatchesAnyRole(c, entry) ==
    /\ entry # None /\ entry.thread # None
    /\ entry.provider = run[c].provider /\ entry.model = run[c].model

\* An entry without a thread has no schema version either.
Matches(c, entry) ==
    /\ entry # None /\ entry.thread # None
    /\ entry.provider = run[c].provider /\ entry.model = run[c].model /\ entry.role = request[c].phase

BeginTask(c) ==
    LET entry == run[c].threads[Task(c)]
        resumes == ~request[c].fresh /\ request[c].phase # "review" /\ Matches(c, entry)
    IN /\ pc[c] = "begin"
       /\ Knows(c, [run[c] EXCEPT !.resumed = IF resumes THEN entry.thread ELSE None,
                                  !.shape = IF ReadOnly(c) THEN Tree(c).state.lines ELSE None],
                IF Produces(c) THEN "acquire" ELSE "execute")
       /\ UNCHANGED <<client, request, files>>

\* The file is created exclusively; nobody asks whether its owner is alive.
AcquireExecutionLock(c) ==
    /\ pc[c] = "acquire"
    /\ IF lock = None THEN lock' = c /\ Goto(c, "before") /\ UNCHANGED run
       ELSE Fail(c, "SELECTOR_EXECUTION_LOCKED") /\ UNCHANGED lock
    /\ UNCHANGED <<client, request, planRecord, buildRecord, threads, tree, author>>

\* A plan need not exist before it is produced.  A worktree with, say, a
\* conflict has no hash.
ReadBefore(c) ==
    LET plan == Tree(c).plan
        plans == request[c].phase = "plan"
    IN /\ pc[c] = "before"
       /\ \/ IF PlanHas(plan, IF plans THEN "PROPOSED" ELSE "APPROVED")
             THEN Knows(c, [run[c] EXCEPT !.before = [plan |-> plan.bytes, state |-> Tree(c).state]], "produce")
             ELSE IF plans /\ plan = None
             THEN Knows(c, [run[c] EXCEPT !.before = [plan |-> None, state |-> Tree(c).state]], "produce")
             ELSE Fail(c, "INVALID_PLAN_ARTIFACT")
          \/ ~plans /\ Fail(c, "WORKTREE_STATE_UNSUPPORTED")
       /\ UNCHANGED <<client, request, files>>

\* A file that git status lists already may change without a new line.
Edited(state) ==
    LET edit == Len(author) + 1
    IN {[lines |-> edit, bytes |-> edit]} \cup
       {[lines |-> state.lines, bytes |-> edit] : s \in {state} \ {Clean}}

EditPlan(t, status, by) ==
    \E state \in Edited(tree[t].state) :
        /\ tree' = [tree EXCEPT ![t].state = state,
                                ![t].plan = [status |-> status, bytes |-> Len(author) + 1]]
        /\ author' = Append(author, by)

EditCode(t, by) ==
    \E state \in Edited(tree[t].state) :
        /\ tree' = [tree EXCEPT ![t].state = state]
        /\ author' = Append(author, by)

\* Codex edits in any phase; only its instructions speak against it.  A plan
\* it writes is proposed.
CodexEdits(c) ==
    LET by == IF pc[c] = "produce" THEN c ELSE None
    IN /\ pc[c] \in {"execute", "produce"}
       /\ Len(author) < MaxEdits
       /\ \/ EditPlan(Task(c), "PROPOSED", by)
          \/ EditCode(Task(c), by)
       /\ UNCHANGED <<client, request, pc, run, lock, planRecord, buildRecord, threads>>

\* A thread that is started is named by the call that starts it.  Without
\* an identity it cannot be persisted.
CodexEnds(c) ==
    /\ pc[c] \in {"execute", "produce"}
    /\ \/ \E thread \in {c, None} :
             Knows(c, [run[c] EXCEPT !.thread = IF run[c].resumed # None THEN run[c].resumed ELSE thread],
                   IF pc[c] = "produce" THEN "after" ELSE IF ReadOnly(c) THEN "guard" ELSE "persist")
       \/ Fail(c, "CODEX_EXECUTION_FAILED")
    /\ UNCHANGED <<client, request, files>>

PlanError(c) ==
    LET plan == Tree(c).plan
    IN CASE ~PlanHas(plan, "PROPOSED") -> "INVALID_PLAN_ARTIFACT"
         [] plan.bytes = run[c].before.plan -> "PLAN_ARTIFACT_UNCHANGED"
         [] OTHER -> None

BuildError(c) ==
    LET plan == Tree(c).plan
    IN CASE Tree(c).state = run[c].before.state -> "BUILD_STATE_UNCHANGED"
         [] ~PlanHas(plan, "APPROVED") -> "INVALID_PLAN_ARTIFACT"
         [] plan.bytes # run[c].before.plan -> "BUILD_PLAN_CHANGED"
         [] OTHER -> None

ReadAfter(c) ==
    LET error == IF request[c].phase = "plan" THEN PlanError(c) ELSE BuildError(c)
    IN /\ pc[c] = "after"
       /\ \/ IF error # None THEN Fail(c, error)
             ELSE Knows(c, [run[c] EXCEPT !.after = [plan |-> Tree(c).plan.bytes, state |-> Tree(c).state]], "record")
          \/ request[c].phase # "plan" /\ Fail(c, "WORKTREE_STATE_UNSUPPORTED")
       /\ UNCHANGED <<client, request, files>>

WriteRecord(c) ==
    LET after == run[c].after
    IN /\ pc[c] = "record"
       /\ \/ /\ Goto(c, "release") /\ UNCHANGED run
             /\ IF request[c].phase = "plan"
                THEN planRecord' = [plan |-> after.plan, model |-> run[c].model] /\ UNCHANGED buildRecord
                ELSE /\ buildRecord' = [plan |-> after.plan, state |-> after.state, model |-> run[c].model]
                     /\ UNCHANGED planRecord
          \/ Fail(c, "PROVENANCE_WRITE_FAILED") /\ UNCHANGED <<planRecord, buildRecord>>
       /\ UNCHANGED <<client, request, lock, threads, tree, author>>

\* Mutant: a producer that failed keeps the lock.
ReleaseOnSuccess(c) ==
    /\ pc[c] = "release"
    /\ lock' = IF run[c].error = None THEN None ELSE lock
    /\ IF run[c].error = None THEN Goto(c, "persist") /\ UNCHANGED run ELSE End(c, "failed")
    /\ UNCHANGED <<client, request, planRecord, buildRecord, threads, tree, author>>

Release(c) ==
    /\ pc[c] = "release"
    /\ lock' = None
    /\ IF run[c].error = None THEN Goto(c, "persist") /\ UNCHANGED run ELSE End(c, "failed")
    /\ UNCHANGED <<client, request, planRecord, buildRecord, threads, tree, author>>

\* The guard of a read-only run compares what git status prints.  Nothing
\* reads the record it writes then, but the call ends where it cannot.
GuardReadOnly(c) ==
    /\ pc[c] = "guard"
    /\ IF Tree(c).state.lines # run[c].shape THEN Fail(c, "READONLY_WORKTREE_MUTATED")
       ELSE \/ Goto(c, "persist") /\ UNCHANGED run
            \/ Fail(c, "PROVENANCE_WRITE_FAILED")
    /\ UNCHANGED <<client, request, files>>

\* What follows the task; r is what the call knows by then.
AfterTask(c, r) == IF request[c].issue THEN Knows(c, r, "publish") ELSE End(c, "done")

\* The whole file is written from what was loaded.  A fresh review and a
\* thread that was resumed leave it alone.
Persist(c) ==
    LET old == run[c].threads[Task(c)]
        entry == [thread |-> run[c].thread, provider |-> run[c].provider, model |-> run[c].model,
                  role |-> request[c].phase, pr |-> old # None /\ old.pr]
        saved == [run[c].threads EXCEPT ![Task(c)] = entry]
    IN /\ pc[c] = "persist"
       /\ CASE run[c].resumed # None \/ (request[c].phase = "review" /\ request[c].fresh) ->
                  AfterTask(c, run[c]) /\ UNCHANGED threads
            [] run[c].thread = None -> Fail(c, "THREAD_ID") /\ UNCHANGED threads
            [] OTHER -> AfterTask(c, [run[c] EXCEPT !.threads = saved]) /\ threads' = saved
       /\ UNCHANGED <<client, request, lock, planRecord, buildRecord, tree, author>>

-----------------------------------------------------------------------------
(* Issue mode: commit, push, draft pull request *)

\* Without anything to commit nothing is pushed either, not even a commit
\* whose push failed before.
CommitAndPush(c) ==
    /\ pc[c] = "publish"
    /\ IF Tree(c).state = Clean THEN End(c, "done") /\ UNCHANGED tree
       ELSE /\ tree' = [tree EXCEPT ![Task(c)].state = Clean]
            /\ \/ Goto(c, "pull request") /\ UNCHANGED run
               \/ Fail(c, "PUSH")
    /\ UNCHANGED <<client, request, lock, planRecord, buildRecord, threads, author>>

NoThread == [thread |-> None, provider |-> None, model |-> None, role |-> None, pr |-> FALSE]

\* findOrCreateDraftPr(), and the file written once more.
SavePullRequest(c) ==
    LET old == run[c].threads[Task(c)]
        saved == [run[c].threads EXCEPT
                     ![Task(c)] = [(IF old = None THEN NoThread ELSE old) EXCEPT !.pr = TRUE]]
    IN /\ pc[c] = "pull request"
       /\ \/ End(c, "done") /\ threads' = saved
          \/ Fail(c, "PULL_REQUEST") /\ UNCHANGED threads
       /\ UNCHANGED <<client, request, lock, planRecord, buildRecord, tree, author>>

-----------------------------------------------------------------------------
(* The environment *)

\* The process is killed: what it left in the files stays.  Without the lock
\* that is the same as any failure.
Kill(c) ==
    /\ pc[c] \notin Ended \cup {"idle"}
    /\ End(c, IF pc[c] \in Producing THEN "killed" ELSE "failed")
    /\ UNCHANGED <<client, request, files>>

\* The user approves a plan, which changes its bytes.
Approve(t) ==
    /\ Len(author) < MaxEdits
    /\ PlanHas(tree[t].plan, "PROPOSED")
    /\ EditPlan(t, "APPROVED", None)
    /\ UNCHANGED <<client, request, pc, run, lock, planRecord, buildRecord, threads>>

-----------------------------------------------------------------------------
Init ==
    /\ client = [c \in Calls |-> NewClient]
    /\ \E situation \in Situations :
          /\ request = situation.request
          /\ tree = [t \in Tasks |-> [plan |-> situation.plan, state |-> Clean]]
    /\ pc = [c \in Calls |-> "idle"]
    /\ run = [c \in Calls |-> NewRun]
    /\ lock = None
    /\ planRecord = None /\ buildRecord = None
    /\ threads = [t \in Tasks |-> None]
    /\ author = <<>>

Step(c) ==
    \/ Start(c) \/ Exchange(c) \/ Decide(c) \/ LoadState(c) \/ EnsureWorktree(c)
    \/ ReadArtifacts(c) \/ LoadProducer(c) \/ Select(c) \/ Preflight(c)
    \/ BeginTask(c) \/ AcquireExecutionLock(c) \/ ReadBefore(c) \/ CodexEdits(c) \/ CodexEnds(c)
    \/ ReadAfter(c) \/ WriteRecord(c) \/ Release(c) \/ GuardReadOnly(c) \/ Persist(c)
    \/ CommitAndPush(c) \/ SavePullRequest(c) \/ Kill(c)

Next == (\E c \in Calls : Step(c)) \/ (\E t \in Tasks : Approve(t))

\* Node fires the timers it has armed.
Timer(c) ==
    \/ pc[c] = "status" /\ Deadline(c) /\ UNCHANGED <<request, pc, run, files>>
    \/ pc[c] = "status" /\ ShutdownTimer(c) /\ UNCHANGED <<request, pc, run, files>>
    \/ pc[c] = "status" /\ ResolveAfterKill(c) /\ UNCHANGED <<request, pc, run, files>>

Spec == Init /\ [][Next]_vars /\ \A c \in Calls : WF_vars(Timer(c))

-----------------------------------------------------------------------------
Places ==
    {"idle", "status", "load", "worktree", "select", "producer", "catalog", "preflight", "begin", "acquire",
     "execute", "guard", "persist", "publish", "pull request"} \cup Producing \cup Ended

Bytes == 0..MaxEdits
States == [lines : Bytes, bytes : Bytes]
PlanFiles == [status : {"PROPOSED", "APPROVED"}, bytes : Bytes] \cup {None}
Names == Models \cup {PreferredModel}
Entries ==
    [thread : Calls \cup {None}, provider : {"primary", "openrouter-free", None}, model : Names \cup {None},
     role : {"general", "plan", "build", "review", None}, pr : BOOLEAN] \cup {None}

\* The types of what the calls share, of their places and of their clients.
TypeOK ==
    /\ client \in [Calls -> Clients]
    /\ request \in [Calls -> Requests \cup {None}]
    /\ pc \in [Calls -> Places]
    /\ \A c \in Calls : DOMAIN run[c] = RunFields
    /\ lock \in Calls \cup {None}
    /\ planRecord \in [plan : Bytes, model : Models] \cup {None}
    /\ buildRecord \in [plan : Bytes, state : States, model : Models] \cup {None}
    /\ threads \in [Tasks -> Entries]
    /\ tree \in [Tasks -> [plan : PlanFiles, state : States]]
    /\ author \in Seq(Calls \cup {None}) /\ Len(author) <= MaxEdits

\* Between the two hashes a producer compares, no other call of the
\* repository produces: the lock file is its own, whoever fails or is killed
\* meanwhile (provenance.ts:31, core.ts:36 and 37).
OneProducer == \A c \in Calls : pc[c] \in Producing => lock = c

\* The lock file outlives its call only if the process was killed: every
\* error of a producer gives it back, and a call that found it taken does not
\* (core.ts:36 and 37).
LockIsOwned == lock # None => pc[lock] \in Producing \cup {"killed"}

\* A free model is never chosen to review the plan, or the uncommitted state,
\* that a production of the same model left, even when that production was
\* killed or failed before it wrote its record (core.ts:38, 39 and 42).
ReviewIsIndependent ==
    \A c \in Calls :
        LET edit == IF request[c].target = "plan" THEN run[c].judged.plan.bytes ELSE run[c].judged.state.bytes
        IN pc[c] \notin Ended /\ run[c].model # None /\ run[c].judged # None /\ request[c].phase = "review"
              /\ edit # 0 /\ author[edit] # None
              => run[author[edit]].model # run[c].model

\* A thread is continued only for the task, provider, model and role it was
\* started for, though calls overwrite each other's entries of the state file
\* (index.ts:409 and 457).
ResumeIsExact ==
    \A c \in Calls :
        LET origin == run[c].resumed
        IN origin # None =>
              /\ Task(origin) = Task(c) /\ request[origin].phase = request[c].phase
              /\ run[origin].provider = run[c].provider /\ run[origin].model = run[c].model

\* The primary provider is used only if the app server reported a signed-in
\* subscription, quota left in every window and the preferred model, in
\* whatever order lines, timers and the end of the child came
\* (codex-app-server-client.ts:17 and 20, provider-decision.ts:23).
PrimaryIsProven ==
    \A c \in Calls : run[c].provider = "primary" =>
        LET k == client[c]
        IN /\ k.account.type = "chatgpt" /\ k.account.requires /\ k.account.plan \in SubscriptionPlans
           /\ k.rate.codex /\ k.rate.reached = "no" /\ k.rate.spend = "clear"
           /\ k.rate.primary = "below" /\ k.rate.secondary \in {"below", "absent"}
           /\ k.preferred /\ k.pages > 0

\* Reading the status ends, whatever the server does: the deadline, or the
\* shutdown timer that replaces it (codex-app-server-client.ts:17 and 20).
EveryReadSettles ==
    \A c \in Calls : (pc[c] = "status") ~> (pc[c] # "status" \/ client[c].settled)
===============================================================================
