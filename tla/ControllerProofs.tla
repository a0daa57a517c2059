------------------------- MODULE ControllerProofs -------------------------
(***************************************************************************)
(* What holds of the controller for any number of calls and tasks: one     *)
(* producer at a time and a lock that only a kill leaves behind; from that *)
(* the author of every edit a record names, hence reviews by another       *)
(* model, and threads that are resumed for what they were started for.     *)
(***************************************************************************)
EXTENDS PrimaryProofs, WellFoundedInduction

(***************************************************************************)
(* Who is in the block that releases the lock owns the file; who owns the  *)
(* file is in the block or was killed there.                               *)
(***************************************************************************)
LockInv ==
    /\ pc \in [Calls -> Places]
    /\ lock \in Calls \cup {None}
    /\ OneProducer
    /\ LockIsOwned

\* A call that ended is where it was sent.
LEMMA EndMoves ==
    ASSUME NEW c, NEW place, End(c, place)
    PROVE  Goto(c, place)
  BY DEF End

\* A failure outside the block ends the call, one inside goes to its end.
LEMMA FailMoves ==
    ASSUME NEW c \in Calls, NEW code, Fail(c, code)
    PROVE  Goto(c, IF pc[c] \in Producing THEN "release" ELSE "failed")
  BY EndMoves DEF Fail, Finally

\* A call outside the block that stays outside.
LEMMA OutsideStep ==
    ASSUME LockInv, NEW c \in Calls, NEW place \in Places \ Producing, Goto(c, place), UNCHANGED lock,
           pc[c] \notin Producing \cup {"killed"}
    PROVE  LockInv'
  BY NoneIsNoCall DEF LockInv, Goto, OneProducer, LockIsOwned

\* A call inside the block that stays inside or is killed.
LEMMA InsideStep ==
    ASSUME LockInv, NEW c \in Calls, NEW place \in Producing \cup {"killed"}, Goto(c, place), UNCHANGED lock,
           pc[c] \in Producing
    PROVE  LockInv'
  <1>1. place \in Places
    BY DEF Places, Ended
  <1> QED BY <1>1, NoneIsNoCall DEF LockInv, Goto, OneProducer, LockIsOwned

\* A failure anywhere.
LEMMA FailStep ==
    ASSUME LockInv, NEW c \in Calls, NEW code, Fail(c, code), UNCHANGED lock, pc[c] # "killed"
    PROVE  LockInv'
  <1>1. CASE pc[c] \in Producing
    <2>1. Goto(c, "release")
      BY <1>1, FailMoves
    <2> QED BY <1>1, <2>1, InsideStep DEF Producing
  <1>2. CASE pc[c] \notin Producing
    <2>1. Goto(c, "failed")
      BY <1>2, FailMoves
    <2>2. "failed" \in Places \ Producing
      BY DEF Places, Ended, Producing
    <2> QED BY <1>2, <2>1, <2>2, OutsideStep
  <1> QED BY <1>1, <1>2

\* A place of a call that does not produce, before it or after it.
Outside == Places \ (Producing \cup {"killed"})

LEMMA Waits ==
    ASSUME LockInv, NEW c \in Calls, pc[c] \in Outside, UNCHANGED lock,
           \/ \E place \in Outside : Goto(c, place)
           \/ \E code : Fail(c, code)
           \/ \E place \in Outside : End(c, place)
           \/ UNCHANGED pc
    PROVE  LockInv'
  <1>1. ASSUME NEW place \in Outside, Goto(c, place) PROVE LockInv'
    BY <1>1, OutsideStep DEF Outside
  <1>2. ASSUME NEW code, Fail(c, code) PROVE LockInv'
    BY <1>2, FailStep DEF Outside
  <1>3. ASSUME NEW place \in Outside, End(c, place) PROVE LockInv'
    BY <1>1, <1>3, EndMoves
  <1>4. CASE UNCHANGED pc
    BY <1>4 DEF LockInv, OneProducer, LockIsOwned
  <1> QED BY <1>1, <1>2, <1>3, <1>4

\* The steps that neither take nor use the lock.
LEMMA LockInvOutside ==
    ASSUME LockInv, NEW c \in Calls,
           \/ Start(c) \/ Exchange(c) \/ Decide(c) \/ LoadState(c) \/ EnsureWorktree(c)
           \/ ReadArtifacts(c) \/ LoadProducer(c) \/ Select(c) \/ Preflight(c)
           \/ BeginTask(c) \/ GuardReadOnly(c) \/ Persist(c) \/ CommitAndPush(c) \/ SavePullRequest(c)
    PROVE  LockInv'
  <1> USE DEF Knows, files
  <1>0. {"idle", "status", "load", "worktree", "select", "producer", "catalog", "preflight", "begin", "acquire",
         "execute", "guard", "persist", "publish", "pull request", "done", "failed"} \subseteq Outside
    BY DEF Outside, Places, Producing, Ended
  <1>1. CASE Start(c)
    BY <1>0, <1>1, Waits DEF Start, AfterProvider
  <1>2. CASE Exchange(c)
    BY <1>0, <1>2, Waits DEF Exchange
  <1>3. CASE Decide(c)
    BY <1>0, <1>3, Waits DEF Decide, AfterProvider
  <1>4. CASE LoadState(c)
    BY <1>0, <1>4, Waits DEF LoadState
  <1>5. CASE EnsureWorktree(c)
    BY <1>0, <1>5, Waits DEF EnsureWorktree, AfterWorktree
  <1>6. CASE ReadArtifacts(c)
    BY <1>0, <1>6, Waits DEF ReadArtifacts
  <1>7. CASE LoadProducer(c)
    BY <1>0, <1>7, Waits DEF LoadProducer
  <1>8. CASE Select(c)
    BY <1>0, <1>8, Waits DEF Select
  <1>9. CASE Preflight(c)
    BY <1>0, <1>9, Waits DEF Preflight, AfterSelection
  <1>10. CASE BeginTask(c)
    BY <1>0, <1>10, Waits DEF BeginTask
  <1>11. CASE GuardReadOnly(c)
    BY <1>0, <1>11, Waits DEF GuardReadOnly
  <1>12. CASE Persist(c)
    BY <1>0, <1>12, Waits DEF Persist, AfterTask
  <1>13. CASE CommitAndPush(c)
    BY <1>0, <1>13, Waits DEF CommitAndPush
  <1>14. CASE SavePullRequest(c)
    BY <1>0, <1>14, Waits DEF SavePullRequest
  <1> QED BY <1>1, <1>2, <1>3, <1>4, <1>5, <1>6, <1>7, <1>8, <1>9, <1>10, <1>11, <1>12, <1>13, <1>14

\* The steps of a producer, and of what Codex does for any phase.
LEMMA LockInvInside ==
    ASSUME LockInv, NEW c \in Calls,
           \/ AcquireExecutionLock(c) \/ ReadBefore(c) \/ CodexEdits(c) \/ CodexEnds(c)
           \/ ReadAfter(c) \/ WriteRecord(c) \/ Release(c)
    PROVE  LockInv'
  <1> USE DEF Knows, files
  <1>1. CASE AcquireExecutionLock(c)
    <2>1. CASE lock = None
      BY <1>1, <2>1, NoneIsNoCall
         DEF AcquireExecutionLock, Goto, LockInv, OneProducer, LockIsOwned, Producing, Places
    <2>2. CASE lock # None
      BY <1>1, <2>2, FailStep DEF AcquireExecutionLock
    <2> QED BY <2>1, <2>2
  <1>2. CASE ReadBefore(c)
    <2>1. (\E code : Fail(c, code)) \/ Goto(c, "produce")
      BY <1>2 DEF ReadBefore
    <2> QED BY <1>2, <2>1, FailStep, InsideStep DEF ReadBefore, Producing
  <1>3. CASE CodexEdits(c)
    BY <1>3 DEF CodexEdits, LockInv, OneProducer, LockIsOwned
  <1>4. CASE CodexEnds(c)
    <2>1. CASE pc[c] = "produce"
      <3>1. (\E code : Fail(c, code)) \/ Goto(c, "after")
        BY <1>4, <2>1 DEF CodexEnds
      <3> QED BY <1>4, <2>1, <3>1, FailStep, InsideStep DEF CodexEnds, Producing
    <2>2. CASE pc[c] = "execute"
      <3>1. {"execute", "guard", "persist"} \subseteq Outside
        BY DEF Outside, Places, Producing
      <3> QED BY <1>4, <2>2, <3>1, Waits DEF CodexEnds
    <2> QED BY <1>4, <2>1, <2>2 DEF CodexEnds
  <1>5. CASE ReadAfter(c)
    <2>1. (\E code : Fail(c, code)) \/ Goto(c, "record")
      BY <1>5 DEF ReadAfter
    <2> QED BY <1>5, <2>1, FailStep, InsideStep DEF ReadAfter, Producing
  <1>6. CASE WriteRecord(c)
    <2>1. (\E code : Fail(c, code)) \/ Goto(c, "release")
      BY <1>6 DEF WriteRecord
    <2> QED BY <1>6, <2>1, FailStep, InsideStep DEF WriteRecord, Producing
  <1>7. CASE Release(c)
    <2>1. lock = c
      BY <1>7 DEF Release, LockInv, OneProducer, Producing
    <2>2. PICK place \in Outside : Goto(c, place)
      BY <1>7, EndMoves DEF Release, Outside, Places, Producing, Ended
    <2> QED BY <1>7, <2>1, <2>2, NoneIsNoCall DEF Release, Goto, LockInv, OneProducer, LockIsOwned, Outside
  <1> QED BY <1>1, <1>2, <1>3, <1>4, <1>5, <1>6, <1>7

LEMMA LockInvKill ==
    ASSUME LockInv, NEW c \in Calls, Kill(c)
    PROVE  LockInv'
  <1>1. pc[c] \notin Ended \cup {"idle"} /\ UNCHANGED lock
    BY DEF Kill, files
  <1>2. CASE pc[c] \in Producing
    <2>1. Goto(c, "killed")
      BY <1>2, EndMoves DEF Kill
    <2> QED BY <1>1, <1>2, <2>1, InsideStep
  <1>3. CASE pc[c] \notin Producing
    <2>1. Goto(c, "failed")
      BY <1>3, EndMoves DEF Kill
    <2>2. "failed" \in Places \ Producing
      BY DEF Places, Ended, Producing
    <2> QED BY <1>1, <1>3, <2>1, <2>2, OutsideStep DEF Ended
  <1> QED BY <1>2, <1>3

LEMMA LockInvInit == Init => LockInv
  BY NoneIsNoCall DEF Init, LockInv, OneProducer, LockIsOwned, Producing, Places

LEMMA LockInvNext == LockInv /\ [Next]_vars => LockInv'
  <1> SUFFICES ASSUME LockInv, [Next]_vars PROVE LockInv'
    OBVIOUS
  <1>1. ASSUME NEW c \in Calls, Step(c) PROVE LockInv'
    BY <1>1, LockInvOutside, LockInvInside, LockInvKill DEF Step
  <1>2. ASSUME NEW t \in Tasks, Approve(t) PROVE LockInv'
    BY <1>2 DEF Approve, LockInv, OneProducer, LockIsOwned
  <1>3. CASE UNCHANGED vars
    BY <1>3 DEF vars, LockInv, OneProducer, LockIsOwned
  <1> QED BY <1>1, <1>2, <1>3 DEF Next

LEMMA LockInvAlways == Spec => []LockInv
  BY LockInvInit, LockInvNext, PTL DEF Spec

\* However many calls produce plans and builds in the worktrees of one
\* repository, fail or are killed: between the two hashes a producer compares
\* no other call produces.
THEOREM OneProducerHolds == Spec => []OneProducer
  <1>1. LockInv => OneProducer
    BY DEF LockInv
  <1> QED BY <1>1, LockInvAlways, PTL

\* No error and no success leaves the lock file behind: a lock without a
\* producer is that of a process that was killed.
THEOREM LockIsOwnedHolds == Spec => []LockIsOwned
  <1>1. LockInv => LockIsOwned
    BY DEF LockInv
  <1> QED BY <1>1, LockInvAlways, PTL

\* What every step does to the places and to the lock.
LEMMA StepShape ==
    ASSUME LockInv, NEW c \in Calls, Step(c)
    PROVE  /\ pc[c] # "killed"
           /\ UNCHANGED pc \/ \E place : Goto(c, place)
           /\ lock' = lock \/ (lock = None /\ pc[c] = "acquire") \/ (lock = c /\ pc[c] = "release")
  <1> USE EndMoves, FailMoves DEF Knows, files
  <1>1. CASE Start(c) \/ Exchange(c) \/ Decide(c) \/ LoadState(c) \/ EnsureWorktree(c)
    BY <1>1 DEF Start, Exchange, Decide, LoadState, EnsureWorktree
  <1>2. CASE ReadArtifacts(c) \/ LoadProducer(c) \/ Select(c) \/ Preflight(c) \/ BeginTask(c)
    BY <1>2 DEF ReadArtifacts, LoadProducer, Select, Preflight, BeginTask
  <1>3. CASE AcquireExecutionLock(c) \/ ReadBefore(c) \/ CodexEdits(c) \/ CodexEnds(c)
    BY <1>3 DEF AcquireExecutionLock, ReadBefore, CodexEdits, CodexEnds
  <1>4. CASE ReadAfter(c) \/ WriteRecord(c) \/ GuardReadOnly(c)
    BY <1>4 DEF ReadAfter, WriteRecord, GuardReadOnly
  <1>5. CASE Release(c)
    BY <1>5 DEF Release, LockInv, OneProducer, Producing
  <1>6. CASE Persist(c) \/ CommitAndPush(c) \/ SavePullRequest(c) \/ Kill(c)
    BY <1>6 DEF Persist, AfterTask, CommitAndPush, SavePullRequest, Kill, Ended
  <1> QED BY <1>1, <1>2, <1>3, <1>4, <1>5, <1>6 DEF Step

\* The reverse of the medal: once a producer was killed no lock is ever
\* released, acquired or removed again (provenance.ts:31).
THEOREM KilledLockStays ==
    ASSUME NEW d \in Calls
    PROVE  Spec => [][lock = d /\ pc[d] = "killed" => lock' = d /\ pc'[d] = "killed"]_vars
  <1>1. ASSUME LockInv, [Next]_vars, lock = d, pc[d] = "killed" PROVE lock' = d /\ pc'[d] = "killed"
    <2>1. ASSUME NEW c \in Calls, Step(c) PROVE lock' = d /\ pc'[d] = "killed"
      BY <1>1, <2>1, StepShape, NoneIsNoCall DEF LockInv, Goto
    <2>2. ASSUME NEW t \in Tasks, Approve(t) PROVE lock' = d /\ pc'[d] = "killed"
      BY <1>1, <2>2 DEF Approve
    <2>3. CASE UNCHANGED vars
      BY <1>1, <2>3 DEF vars
    <2> QED BY <1>1, <2>1, <2>2, <2>3 DEF Next
  <1> QED BY <1>1, LockInvAlways, PTL DEF Spec

-----------------------------------------------------------------------------
(* Who made what, and which thread is whose *)

\* A call whose provider and model are settled.
Begun == {"acquire", "execute", "guard", "persist", "publish", "pull request"} \cup Producing \cup Ended

\* Thread o was started by a call that was asked the same and used the same.
Origin(o, t, role, provider, model) ==
    /\ o \in Calls /\ pc[o] \in Begun /\ request[o] # None
    /\ Task(o) = t /\ request[o].phase = role /\ run[o].provider = provider /\ run[o].model = model

\* The entries of a state file, loaded or saved, name threads of their task.
Sound(saved) ==
    \A t \in Tasks : saved[t] # None /\ saved[t].thread # None =>
        Origin(saved[t].thread, t, saved[t].role, saved[t].provider, saved[t].model)

\* The edit was made by c, or by nobody who produces.
By(edit, c) == edit \in DOMAIN author => author[edit] \in {c, None}

\* The edit was made by the model, or by nobody who produces.
ByModel(edit, model) == edit \in DOMAIN author /\ author[edit] # None => run[author[edit]].model = model

Made == 0..Len(author)

\* Before the selection.
Early(c, place) == place \in {"idle", "status", "worktree", "select"} \/ (place = "load" /\ request[c].issue)

\* With the threads of the state file.
Loaded(c, place) ==
    \/ place \in {"begin"} \cup (Begun \ Ended)
    \/ place \in {"worktree", "select", "producer", "catalog", "preflight"} /\ request[c].issue

\* After the selection of a free model.
Selected(c, place) ==
    place \in {"preflight", "begin", "acquire"} \cup Producing \/ (place = "load" /\ ~request[c].issue)

SelectionOk(c, r, place) ==
    /\ DOMAIN r = RunFields
    /\ place # "idle" => request[c] # None
    /\ r.provider \in {"primary", "openrouter-free", None} /\ r.model \in Names \cup {None}
    /\ place \in {"select", "producer", "catalog", "preflight"} => r.provider = "openrouter-free"
    /\ place \in {"acquire"} \cup Producing => r.provider = "openrouter-free" /\ request[c].phase \in {"plan", "build"}
    /\ Early(c, place) => r.judged = None
    /\ (Early(c, place) /\ r.provider # "primary") \/ place \in {"producer", "catalog"} => r.model = None
    /\ Selected(c, place) /\ r.provider = "openrouter-free" => r.model \in Models

\* What a review is about, and who it must not be.
Subject(c, r) == IF request[c].target = "plan" THEN r.judged.plan.bytes ELSE r.judged.state.bytes

ReviewOk(c, r, place) ==
    r.judged # None /\ request[c].phase = "review" =>
        /\ r.judged.plan.bytes \in Made /\ r.judged.state.bytes \in Made
        /\ place # "producer" => \E model \in Models : /\ r.excluded = {model}
                                                       /\ ByModel(Subject(c, r), model)
                                                       /\ r.model # None => r.model # model

ThreadOk(c, r, place) ==
    /\ r.resumed = None => r.thread \in {c, None}
    /\ r.resumed # None => place \in Begun /\ Origin(r.resumed, Task(c), request[c].phase, r.provider, r.model)
    /\ Loaded(c, place) => r.threads \in [Tasks -> Entries] /\ Sound(r.threads)

\* While c produces nobody else does: what changed since the first hash was
\* changed by c, by the user or by Codex outside of a production.
ProducerOk(c, r, place) ==
    /\ place \in {"produce", "after"} =>
        /\ Tree(c).plan # None /\ ~By(Tree(c).plan.bytes, c) => Tree(c).plan.bytes = r.before.plan
        /\ ~By(Tree(c).state.bytes, c) => Tree(c).state = r.before.state
    /\ place = "record" =>
        /\ r.after.plan \in Made /\ r.after.state \in States /\ r.after.state.bytes \in Made
        /\ By(IF request[c].phase = "plan" THEN r.after.plan ELSE r.after.state.bytes, c)

CallOk(c, r, place) ==
    SelectionOk(c, r, place) /\ ReviewOk(c, r, place) /\ ThreadOk(c, r, place) /\ ProducerOk(c, r, place)

TreesOk ==
    /\ author \in Seq(Calls \cup {None}) /\ Len(author) <= MaxEdits
    /\ \A e \in DOMAIN author : author[e] # None => pc[author[e]] \in Begun
    /\ tree \in [Tasks -> [plan : PlanFiles, state : States]]
    /\ \A t \in Tasks : /\ tree[t].plan # None => tree[t].plan.bytes \in Made
                        /\ tree[t].state.bytes \in Made

RecordsOk ==
    /\ planRecord # None => /\ planRecord \in [plan : Bytes, model : Models]
                            /\ planRecord.plan \in Made /\ ByModel(planRecord.plan, planRecord.model)
    /\ buildRecord # None => /\ buildRecord \in [plan : Bytes, state : States, model : Models]
                             /\ buildRecord.state.bytes \in Made
                             /\ ByModel(buildRecord.state.bytes, buildRecord.model)

ThreadsOk == threads \in [Tasks -> Entries] /\ Sound(threads)

ControllerInv ==
    /\ request \in [Calls -> Requests \cup {None}]
    /\ TreesOk /\ RecordsOk /\ ThreadsOk
    /\ \A c \in Calls : CallOk(c, run[c], pc[c])

-----------------------------------------------------------------------------
(* The choice of a free model *)

\* A set of naturals has a least element.
LEMMA MinIn ==
    ASSUME NEW S \in SUBSET Nat, S # {}
    PROVE  Min(S) \in S
  <1> DEFINE R == {ss \in Nat \X Nat : ss[1] < ss[2]}
  <1>1. IsWellFoundedOn(R, Nat)
    BY NatLessThanWellFounded, Zenon DEF OpToRel
  <1>2. \A x, y \in Nat : y < x => <<y, x>> \in R
    OBVIOUS
  <1> HIDE DEF R
  <1>3. PICK x \in S : \A y \in S : <<y, x>> \notin R
    BY <1>1, WFMin
  <1>4. ASSUME NEW y \in S PROVE x <= y
    <2>1. x \in Nat /\ y \in Nat /\ <<y, x>> \notin R
      BY <1>3
    <2>2. ~(y < x)
      BY <1>2, <2>1
    <2> QED BY <2>1, <2>2
  <1> QED BY <1>4 DEF Min

\* The model that is chosen is one of the catalog, and nobody excluded.
LEMMA SelectedModel ==
    ASSUME NEW catalog \in Catalogs, NEW excluded, NEW override,
           SelectFirstCompatibleEligible(catalog, excluded, override).error = None
    PROVE  SelectFirstCompatibleEligible(catalog, excluded, override).model \in Models \ excluded
  <1> DEFINE named == {i \in DOMAIN catalog : catalog[i].id = override}
             current == {i \in DOMAIN catalog : /\ Eligible(catalog[i], excluded)
                                                /\ Registry[catalog[i].id] = "current"}
             chosen == SelectFirstCompatibleEligible(catalog, excluded, override)
  <1>1. DOMAIN catalog \in SUBSET Nat /\ \A i \in DOMAIN catalog : catalog[i].id \in Models
    <2>1. catalog \in Seq([id : Models, passes : SUBSET Gates])
      BY CatalogsAssumption DEF WellFormedCatalog
    <2>2. DOMAIN catalog = 1..Len(catalog) /\ Len(catalog) \in Nat
      BY <2>1
    <2>3. \A i \in 1..Len(catalog) : catalog[i] \in [id : Models, passes : SUBSET Gates]
      <3> DEFINE Records == [id : Models, passes : SUBSET Gates]
      <3>1. catalog \in Seq(Records)
        BY <2>1
      <3> HIDE DEF Records
      <3>2. \A i \in 1..Len(catalog) : catalog[i] \in Records
        BY <3>1
      <3> QED BY <3>2 DEF Records
    <2>4. 1..Len(catalog) \in SUBSET Nat
      BY <2>2
    <2> QED BY <2>2, <2>3, <2>4
  <1>2. CASE override # None
    <2>1. named # {}
      BY <1>2, NoneIsNoString DEF SelectFirstCompatibleEligible, NotChosen
    <2>2. Min(named) \in named
      BY <1>1, <2>1, MinIn
    <2>3. OverrideError(catalog[Min(named)], excluded) = None /\ chosen = Chosen(override)
      <3> HIDE DEF named
      <3> QED BY <1>2, <2>1, NoneIsNoString DEF SelectFirstCompatibleEligible, NotChosen, named
    <2>4. Eligible(catalog[Min(named)], excluded)
      BY <2>3, NoneIsNoString DEF OverrideError
    <2> QED BY <1>1, <2>2, <2>3, <2>4 DEF Eligible, Chosen
  <1>3. CASE override = None
    <2>1. current # {}
      BY <1>3, NoneIsNoString DEF SelectFirstCompatibleEligible, NotChosen
    <2>2. Min(current) \in current
      BY <1>1, <2>1, MinIn
    <2>3. chosen = Chosen(catalog[Min(current)].id)
      BY <1>3, <2>1 DEF SelectFirstCompatibleEligible
    <2> QED BY <1>1, <2>2, <2>3 DEF Eligible, Chosen
  <1> QED BY <1>2, <1>3

-----------------------------------------------------------------------------
(* The frame of a step: what it must show of the one call that takes it *)

PlanRecordOk(record) ==
    record # None => /\ record \in [plan : Bytes, model : Models]
                     /\ record.plan \in Made /\ ByModel(record.plan, record.model)

BuildRecordOk(record) ==
    record # None => /\ record \in [plan : Bytes, state : States, model : Models]
                     /\ record.state.bytes \in Made /\ ByModel(record.state.bytes, record.model)

\* A tree may only become clean.
Cleaned ==
    /\ tree' \in [Tasks -> [plan : PlanFiles, state : States]]
    /\ \A t \in Tasks : tree'[t].plan = tree[t].plan /\ tree'[t].state \in {tree[t].state, Clean}

\* Once a call has begun, its provider and model stay.
Settles(c, r, place) ==
    pc[c] \in Begun => place \in Begun /\ r.provider = run[c].provider /\ r.model = run[c].model

AllInv == LockInv /\ CallInv /\ ControllerInv

\* Only c learns anything and goes anywhere.
Alone(c, r, place) == Goto(c, place) /\ \A d \in Calls : run'[d] = IF d = c THEN r ELSE run[d]

LEMMA KnowsAlone ==
    ASSUME AllInv, NEW c \in Calls, NEW r, NEW place, Knows(c, r, place)
    PROVE  Alone(c, r, place)
  BY DEF AllInv, CallInv, Knows, Alone

LEMMA CallStep ==
    ASSUME AllInv, NEW c \in Calls, NEW r, NEW place,
           Alone(c, r, place), UNCHANGED <<request, author>>, Cleaned,
           CallOk(c, r, place), Settles(c, r, place),
           PlanRecordOk(planRecord'), BuildRecordOk(buildRecord'),
           threads' \in [Tasks -> Entries], Sound(threads')
    PROVE  ControllerInv'
  <1>0. /\ DOMAIN run = Calls /\ DOMAIN pc = Calls
        /\ \A d \in Calls : run'[d] = IF d = c THEN r ELSE run[d]
        /\ \A d \in Calls : pc'[d] = IF d = c THEN place ELSE pc[d]
    BY DEF AllInv, CallInv, Goto, Alone
  <1>1. \A d \in Calls : pc[d] \in Begun =>
            pc'[d] \in Begun /\ run'[d].provider = run[d].provider /\ run'[d].model = run[d].model
    BY <1>0 DEF Settles
  <1>2. \A o, t, role, provider, model :
            Origin(o, t, role, provider, model) => Origin(o, t, role, provider, model)'
    BY <1>1 DEF Origin, Task
  <1>3. \A e \in DOMAIN author : author[e] # None => author[e] \in Calls /\ pc[author[e]] \in Begun
    BY DEF AllInv, ControllerInv, TreesOk
  <1>4. \A e, model : ByModel(e, model) => ByModel(e, model)'
    BY <1>1, <1>3 DEF ByModel
  <1>5. \A d \in Calls : CallOk(d, run'[d], pc'[d])
    BY <1>0 DEF AllInv, ControllerInv
  <1>6. ASSUME NEW d \in Calls PROVE CallOk(d, run[d], pc[d])'
    <2>0. /\ SelectionOk(d, run'[d], pc'[d]) /\ ReviewOk(d, run'[d], pc'[d])
          /\ ThreadOk(d, run'[d], pc'[d]) /\ ProducerOk(d, run'[d], pc'[d])
      BY <1>5 DEF CallOk
    <2>1. SelectionOk(d, run[d], pc[d])'
      BY <2>0 DEF SelectionOk, Early, Selected
    <2>2. ReviewOk(d, run[d], pc[d])'
      BY <2>0, <1>4 DEF ReviewOk, Subject, Made
    <2>3. ThreadOk(d, run[d], pc[d])'
      BY <2>0, <1>2 DEF ThreadOk, Loaded, Sound, Task
    <2>4. ProducerOk(d, run[d], pc[d])'
      <3>1. ASSUME pc'[d] \in {"produce", "after"} PROVE Task(d) \in Tasks
        <4>1. request[d] \in Requests
          BY <2>0, <3>1 DEF SelectionOk, AllInv, ControllerInv
        <4> QED BY <4>1 DEF Task, Requests
      <3>2. \A e : By(e, d)' = By(e, d)
        BY DEF By
      <3>3. By(Clean.bytes, d)
        BY DEF By, Clean, AllInv, ControllerInv, TreesOk
      <3> QED BY <2>0, <3>1, <3>2, <3>3 DEF ProducerOk, Cleaned, Tree, Task, Made
    <2> QED BY <2>1, <2>2, <2>3, <2>4 DEF CallOk
  <1>7. TreesOk'
    <2>1. Clean.bytes = 0 /\ Len(author) \in Nat
      BY DEF Clean, AllInv, ControllerInv, TreesOk
    <2> QED BY <1>1, <1>3, <2>1 DEF AllInv, ControllerInv, TreesOk, Cleaned, Made
  <1>8. RecordsOk'
    BY <1>4 DEF PlanRecordOk, BuildRecordOk, RecordsOk, Made
  <1>9. ThreadsOk'
    BY <1>2 DEF ThreadsOk, Sound
  <1>10. request' \in [Calls -> Requests \cup {None}]
    BY DEF AllInv, ControllerInv
  <1> QED BY <1>6, <1>7, <1>8, <1>9, <1>10 DEF ControllerInv

\* Nothing but the call itself changes.
Quiet == UNCHANGED <<request, author, tree, planRecord, buildRecord, threads>>

LEMMA QuietStep ==
    ASSUME AllInv, NEW c \in Calls, NEW r, NEW place,
           Alone(c, r, place), Quiet, CallOk(c, r, place), Settles(c, r, place)
    PROVE  ControllerInv'
  <1>1. Cleaned /\ threads' \in [Tasks -> Entries] /\ Sound(threads')
    BY DEF Quiet, Cleaned, AllInv, ControllerInv, TreesOk, ThreadsOk
  <1>2. PlanRecordOk(planRecord') /\ BuildRecordOk(buildRecord')
    BY DEF Quiet, AllInv, ControllerInv, RecordsOk, PlanRecordOk, BuildRecordOk
  <1> QED BY <1>1, <1>2, CallStep DEF Quiet

-----------------------------------------------------------------------------
(* What a call knows at the end, and after a failure *)

\* A call that ended knows its provider and its model.
EndedRun(c) == [NewRun EXCEPT !.provider = run[c].provider, !.model = run[c].model]

LEMMA EndedOk ==
    ASSUME AllInv, NEW c \in Calls, NEW place \in Ended, pc[c] # "idle"
    PROVE  CallOk(c, EndedRun(c), place) /\ Settles(c, EndedRun(c), place)
  <1>0. /\ SelectionOk(c, run[c], pc[c])
    BY DEF AllInv, ControllerInv, CallOk
  <1>1. /\ DOMAIN EndedRun(c) = RunFields
        /\ EndedRun(c).provider = run[c].provider /\ EndedRun(c).model = run[c].model
        /\ EndedRun(c).judged = None /\ EndedRun(c).resumed = None /\ EndedRun(c).thread = None
    BY DEF EndedRun, NewRun, RunFields
  <1>2. SelectionOk(c, EndedRun(c), place)
    BY <1>0, <1>1 DEF SelectionOk, Early, Selected, Ended, Producing
  <1>3. ReviewOk(c, EndedRun(c), place)
    BY <1>1 DEF ReviewOk
  <1>4. ThreadOk(c, EndedRun(c), place)
    BY <1>1 DEF ThreadOk, Loaded, Ended
  <1>5. ProducerOk(c, EndedRun(c), place)
    BY DEF ProducerOk, Ended
  <1>6. Settles(c, EndedRun(c), place)
    BY <1>1 DEF Settles, Begun
  <1> QED BY <1>2, <1>3, <1>4, <1>5, <1>6 DEF CallOk

LEMMA EndStep ==
    ASSUME AllInv, NEW c \in Calls, NEW place \in Ended, pc[c] # "idle", End(c, place), Quiet
    PROVE  ControllerInv'
  <1>1. Knows(c, EndedRun(c), place)
    BY DEF Knows, End, EndedRun
  <1> QED BY <1>1, EndedOk, KnowsAlone, QuietStep

LEMMA FailOk ==
    ASSUME AllInv, NEW c \in Calls, NEW code, pc[c] \in Producing
    PROVE  LET r == [run[c] EXCEPT !.error = code]
           IN CallOk(c, r, "release") /\ Settles(c, r, "release")
  <1> DEFINE r == [run[c] EXCEPT !.error = code]
  <1>0. SelectionOk(c, run[c], pc[c]) /\ ReviewOk(c, run[c], pc[c]) /\ ThreadOk(c, run[c], pc[c])
    BY DEF AllInv, ControllerInv, CallOk
  <1>1. /\ DOMAIN r = RunFields
        /\ r.provider = run[c].provider /\ r.model = run[c].model /\ r.judged = run[c].judged
        /\ r.resumed = run[c].resumed /\ r.thread = run[c].thread /\ r.threads = run[c].threads
    BY <1>0 DEF SelectionOk, RunFields
  <1> HIDE DEF r
  <1>2. SelectionOk(c, r, "release")
    BY <1>0, <1>1 DEF SelectionOk, Early, Selected, Producing
  <1>3. ReviewOk(c, r, "release")
    BY <1>0, <1>1 DEF SelectionOk, ReviewOk
  <1>4. ThreadOk(c, r, "release")
    BY <1>0, <1>1 DEF ThreadOk, Loaded, Begun, Producing, Ended
  <1>5. ProducerOk(c, r, "release")
    BY DEF ProducerOk
  <1>6. Settles(c, r, "release")
    BY <1>1 DEF Settles, Begun, Producing
  <1> QED BY <1>2, <1>3, <1>4, <1>5, <1>6 DEF CallOk, r

LEMMA FailsStep ==
    ASSUME AllInv, NEW c \in Calls, NEW code, pc[c] # "idle", Fail(c, code), Quiet
    PROVE  ControllerInv'
  <1>1. CASE pc[c] \in Producing
    BY <1>1, FailOk, KnowsAlone, QuietStep DEF Fail, Finally, Knows
  <1>2. CASE pc[c] \notin Producing
    <2>1. End(c, "failed") /\ "failed" \in Ended
      BY <1>2 DEF Fail, Finally, Ended
    <2> QED BY <2>1, EndStep
  <1> QED BY <1>1, <1>2

\* A call that goes on with what it knows.
LEMMA GotoStep ==
    ASSUME AllInv, NEW c \in Calls, NEW place, Goto(c, place), UNCHANGED run, Quiet,
           CallOk(c, run[c], place), Settles(c, run[c], place)
    PROVE  ControllerInv'
  <1>1. Alone(c, run[c], place)
    BY DEF Alone
  <1> QED BY <1>1, QuietStep

\* A step that leaves the call where it was.
LEMMA StutterStep ==
    ASSUME AllInv, NEW c \in Calls, UNCHANGED <<pc, run>>, Quiet
    PROVE  ControllerInv'
  <1>1. Goto(c, pc[c])
    BY DEF Goto, AllInv, LockInv
  <1>2. CallOk(c, run[c], pc[c]) /\ Settles(c, run[c], pc[c])
    BY DEF AllInv, ControllerInv, Settles
  <1> QED BY <1>1, <1>2, GotoStep

-----------------------------------------------------------------------------
(* The steps before the task *)

\* What the invariant says of one call, and of its request.
LEMMA OfCall ==
    ASSUME AllInv, NEW c \in Calls
    PROVE  /\ SelectionOk(c, run[c], pc[c]) /\ ReviewOk(c, run[c], pc[c])
           /\ ThreadOk(c, run[c], pc[c]) /\ ProducerOk(c, run[c], pc[c])
           /\ DOMAIN run[c] = RunFields
           /\ pc[c] # "idle" => request[c] \in Requests /\ Task(c) \in Tasks
           /\ request[c] # None => request[c] \in Requests /\ Task(c) \in Tasks
  <1>1. /\ SelectionOk(c, run[c], pc[c]) /\ ReviewOk(c, run[c], pc[c])
        /\ ThreadOk(c, run[c], pc[c]) /\ ProducerOk(c, run[c], pc[c])
    BY DEF AllInv, ControllerInv, CallOk
  <1>2. request[c] # None => request[c] \in Requests /\ Task(c) \in Tasks
    BY DEF AllInv, ControllerInv, Requests, Task
  <1> QED BY <1>1, <1>2 DEF SelectionOk

LEMMA StartInv ==
    ASSUME AllInv, NEW c \in Calls, Start(c)
    PROVE  ControllerInv'
  <1>0. /\ SelectionOk(c, run[c], "idle") /\ ReviewOk(c, run[c], "idle") /\ ThreadOk(c, run[c], "idle")
        /\ DOMAIN run[c] = RunFields /\ request[c] # None /\ pc[c] = "idle" /\ Quiet
        /\ run[c].provider # "primary"
    BY OfCall DEF Start, Quiet, files, AllInv, CallInv
  <1>1. run[c].judged = None /\ run[c].model = None /\ run[c].resumed = None /\ run[c].thread \in {c, None}
    BY <1>0 DEF SelectionOk, Early, ThreadOk, Begun, Producing, Ended
  <1> DEFINE r == [run[c] EXCEPT !.provider = "openrouter-free"]
  <1>2. CASE request[c].mode = "openrouter-free"
    <2>1. Knows(c, r, AfterProvider(c))
      BY <1>2 DEF Start
    <2>2. /\ DOMAIN r = RunFields /\ r.provider = "openrouter-free"
          /\ r.model = run[c].model /\ r.judged = None /\ r.resumed = None /\ r.thread = run[c].thread
      BY <1>0, <1>1 DEF RunFields
    <2>3. (AfterProvider(c) = "load" /\ request[c].issue) \/ (AfterProvider(c) = "worktree" /\ ~request[c].issue)
      BY DEF AfterProvider
    <2> HIDE DEF r
    <2>4. CallOk(c, r, AfterProvider(c)) /\ Settles(c, r, AfterProvider(c))
      BY <1>0, <1>1, <2>2, <2>3
         DEF CallOk, SelectionOk, ReviewOk, ThreadOk, ProducerOk, Early, Selected, Loaded, Settles, Begun, Producing, Ended
    <2> QED BY <1>0, <2>1, <2>4, KnowsAlone, QuietStep
  <1>3. CASE request[c].mode # "openrouter-free"
    <2>1. Goto(c, "status") /\ UNCHANGED run
      BY <1>3 DEF Start
    <2>2. CallOk(c, run[c], "status") /\ Settles(c, run[c], "status")
      BY <1>0, <1>1
         DEF CallOk, SelectionOk, ReviewOk, ThreadOk, ProducerOk, Early, Selected, Loaded, Settles, Begun, Producing, Ended
    <2> QED BY <1>0, <2>1, <2>2, GotoStep
  <1> QED BY <1>2, <1>3

LEMMA DecideInv ==
    ASSUME AllInv, NEW c \in Calls, Decide(c)
    PROVE  ControllerInv'
  <1> DEFINE provider == DecideProvider(request[c].mode, client[c].candidate)
             model == IF provider = "primary" THEN PreferredModel ELSE None
             r == [run[c] EXCEPT !.provider = provider, !.model = model]
  <1>0. /\ SelectionOk(c, run[c], "status") /\ ReviewOk(c, run[c], "status") /\ ThreadOk(c, run[c], "status")
        /\ DOMAIN run[c] = RunFields /\ request[c] # None /\ pc[c] = "status" /\ Quiet
    BY OfCall DEF Decide, Quiet, files, SelectionOk
  <1>1. run[c].judged = None /\ run[c].resumed = None /\ run[c].thread \in {c, None}
    BY <1>0 DEF SelectionOk, Early, ThreadOk, Begun, Producing, Ended
  <1>2. CASE provider = "refused"
    BY <1>0, <1>2, FailsStep DEF Decide
  <1>3. CASE provider # "refused"
    <2>1. Knows(c, r, AfterProvider(c))
      BY <1>3 DEF Decide
    <2>2. /\ DOMAIN r = RunFields /\ r.provider = provider /\ r.model = model
          /\ r.judged = None /\ r.resumed = None /\ r.thread = run[c].thread
      BY <1>0, <1>1 DEF RunFields
    <2>3. (AfterProvider(c) = "load" /\ request[c].issue) \/ (AfterProvider(c) = "worktree" /\ ~request[c].issue)
      BY DEF AfterProvider
    <2>4. provider \in {"primary", "openrouter-free"}
      BY <1>3 DEF DecideProvider
    <2>5. model \in Names \cup {None} /\ (provider # "primary" => model = None)
      BY DEF Names
    <2> HIDE DEF r, provider, model
    <2>6. CallOk(c, r, AfterProvider(c)) /\ Settles(c, r, AfterProvider(c))
      BY <1>0, <1>1, <2>2, <2>3, <2>4, <2>5
         DEF CallOk, SelectionOk, ReviewOk, ThreadOk, ProducerOk, Early, Selected, Loaded, Settles, Begun, Producing, Ended
    <2> QED BY <1>0, <2>1, <2>6, KnowsAlone, QuietStep
  <1> QED BY <1>2, <1>3

LEMMA LoadStateInv ==
    ASSUME AllInv, NEW c \in Calls, LoadState(c)
    PROVE  ControllerInv'
  <1> DEFINE r == [run[c] EXCEPT !.threads = threads]
             place == IF request[c].issue THEN "worktree" ELSE "begin"
  <1>0. /\ SelectionOk(c, run[c], "load") /\ ReviewOk(c, run[c], "load") /\ ThreadOk(c, run[c], "load")
        /\ DOMAIN run[c] = RunFields /\ request[c] # None /\ pc[c] = "load" /\ Quiet
    BY OfCall DEF LoadState, Quiet, files, SelectionOk
  <1>1. CASE Fail(c, "STATE_FILE")
    BY <1>0, <1>1, FailsStep
  <1>2. CASE Knows(c, r, place)
    <2>1. /\ DOMAIN r = RunFields /\ r.provider = run[c].provider /\ r.model = run[c].model /\ r.threads = threads
          /\ r.judged = run[c].judged /\ r.resumed = run[c].resumed /\ r.thread = run[c].thread
          /\ r.excluded = run[c].excluded
      BY <1>0 DEF RunFields
    <2>2. threads \in [Tasks -> Entries] /\ Sound(threads)
      BY DEF AllInv, ControllerInv, ThreadsOk
    <2> HIDE DEF r
    <2>3. SelectionOk(c, r, place) /\ Settles(c, r, place) /\ ProducerOk(c, r, place)
      BY <1>0, <2>1 DEF SelectionOk, Early, Selected, Settles, Begun, Producing, Ended, ProducerOk
    <2>4. ReviewOk(c, r, place)
      BY <1>0, <2>1 DEF ReviewOk, Subject
    <2>5. ThreadOk(c, r, place)
      BY <1>0, <2>1, <2>2 DEF ThreadOk, Begun, Producing, Ended
    <2>6. CallOk(c, r, place)
      BY <2>3, <2>4, <2>5 DEF CallOk
    <2> HIDE DEF place
    <2> QED BY <1>0, <1>2, <2>3, <2>6, KnowsAlone, QuietStep
  <1> QED BY <1>1, <1>2 DEF LoadState

LEMMA EnsureWorktreeInv ==
    ASSUME AllInv, NEW c \in Calls, EnsureWorktree(c)
    PROVE  ControllerInv'
  <1>0. /\ SelectionOk(c, run[c], "worktree") /\ ReviewOk(c, run[c], "worktree") /\ ThreadOk(c, run[c], "worktree")
        /\ pc[c] = "worktree" /\ Quiet
    BY OfCall DEF EnsureWorktree, Quiet, files
  <1>1. \/ AfterWorktree(c) = "select" /\ run[c].provider = "openrouter-free"
        \/ AfterWorktree(c) = "begin" /\ run[c].provider # "openrouter-free" /\ request[c].issue
        \/ AfterWorktree(c) = "load" /\ run[c].provider # "openrouter-free" /\ ~request[c].issue
    BY DEF AfterWorktree, Free
  <1>2. CallOk(c, run[c], AfterWorktree(c)) /\ Settles(c, run[c], AfterWorktree(c))
    <2>1. SelectionOk(c, run[c], AfterWorktree(c)) /\ Settles(c, run[c], AfterWorktree(c))
      BY <1>0, <1>1 DEF SelectionOk, Early, Selected, Settles, Begun, Producing, Ended
    <2>2. ReviewOk(c, run[c], AfterWorktree(c)) /\ ProducerOk(c, run[c], AfterWorktree(c))
      BY <1>0, <1>1 DEF SelectionOk, Early, ReviewOk, ProducerOk
    <2>3. ThreadOk(c, run[c], AfterWorktree(c))
      BY <1>0, <1>1 DEF ThreadOk, Loaded, Begun, Producing, Ended
    <2> QED BY <2>1, <2>2, <2>3 DEF CallOk
  <1> QED BY <1>0, <1>2, FailsStep, GotoStep DEF EnsureWorktree

-----------------------------------------------------------------------------
(* The selection *)

LEMMA ReadArtifactsInv ==
    ASSUME AllInv, NEW c \in Calls, ReadArtifacts(c)
    PROVE  ControllerInv'
  <1> DEFINE judged == [plan |-> Tree(c).plan, state |-> Tree(c).state]
             r == [run[c] EXCEPT !.judged = judged]
             place == IF request[c].phase = "review" THEN "producer" ELSE "catalog"
  <1>0. /\ SelectionOk(c, run[c], "select") /\ ReviewOk(c, run[c], "select") /\ ThreadOk(c, run[c], "select")
        /\ DOMAIN run[c] = RunFields /\ Task(c) \in Tasks /\ pc[c] = "select" /\ Quiet
    BY OfCall DEF ReadArtifacts, Quiet, files
  <1>1. \/ Goto(c, "catalog") /\ UNCHANGED run
        \/ Knows(c, r, place) /\ Tree(c).plan # None
        \/ \E code : Fail(c, code)
    BY DEF ReadArtifacts, PlanHas
  <1>2. ASSUME Goto(c, "catalog"), UNCHANGED run PROVE ControllerInv'
    <2>1. SelectionOk(c, run[c], "catalog") /\ Settles(c, run[c], "catalog")
      BY <1>0 DEF SelectionOk, Early, Selected, Settles, Begun, Producing, Ended
    <2>2. ReviewOk(c, run[c], "catalog") /\ ProducerOk(c, run[c], "catalog")
      BY <1>0 DEF SelectionOk, Early, ReviewOk, ProducerOk
    <2>3. ThreadOk(c, run[c], "catalog")
      BY <1>0 DEF ThreadOk, Loaded, Begun, Producing, Ended
    <2> QED BY <1>0, <1>2, <2>1, <2>2, <2>3, GotoStep DEF CallOk
  <1>3. ASSUME Knows(c, r, place), Tree(c).plan # None PROVE ControllerInv'
    <2>1. /\ DOMAIN r = RunFields /\ r.provider = run[c].provider /\ r.model = run[c].model
          /\ r.judged = judged /\ r.resumed = run[c].resumed /\ r.thread = run[c].thread
          /\ r.threads = run[c].threads
      BY <1>0 DEF RunFields
    <2>2. judged.plan.bytes \in Made /\ judged.state.bytes \in Made
      BY <1>0, <1>3 DEF AllInv, ControllerInv, TreesOk, Tree
    <2> HIDE DEF r, judged
    <2>3. SelectionOk(c, r, place) /\ Settles(c, r, place)
      BY <1>0, <2>1 DEF SelectionOk, Early, Selected, Settles, Begun, Producing, Ended
    <2>4. ReviewOk(c, r, place) /\ ProducerOk(c, r, place)
      BY <2>1, <2>2 DEF ReviewOk, ProducerOk
    <2>5. ThreadOk(c, r, place)
      BY <1>0, <2>1 DEF ThreadOk, Loaded, Begun, Producing, Ended
    <2> HIDE DEF place
    <2> QED BY <1>0, <1>3, <2>3, <2>4, <2>5, KnowsAlone, QuietStep DEF CallOk
  <1> HIDE DEF r, place
  <1> QED BY <1>0, <1>1, <1>2, <1>3, FailsStep

LEMMA LoadProducerInv ==
    ASSUME AllInv, NEW c \in Calls, LoadProducer(c)
    PROVE  ControllerInv'
  <1> DEFINE producer == IF Role(c) = "plan-review" THEN PlanReviewProducer(run[c].judged)
                         ELSE BuildReviewProducer(run[c].judged)
             r == [run[c] EXCEPT !.excluded = {producer}]
  <1>0. /\ SelectionOk(c, run[c], "producer") /\ ReviewOk(c, run[c], "producer") /\ ThreadOk(c, run[c], "producer")
        /\ DOMAIN run[c] = RunFields /\ pc[c] = "producer" /\ Quiet
    BY OfCall DEF LoadProducer, Quiet, files
  <1>1. CASE producer = None
    BY <1>0, <1>1, FailsStep DEF LoadProducer
  <1>2. CASE producer # None
    <2>1. Knows(c, r, "catalog")
      BY <1>2 DEF LoadProducer
    <2>2. /\ DOMAIN r = RunFields /\ r.provider = run[c].provider /\ r.model = run[c].model
          /\ r.judged = run[c].judged /\ r.resumed = run[c].resumed /\ r.thread = run[c].thread
          /\ r.threads = run[c].threads /\ r.excluded = {producer}
      BY <1>0 DEF RunFields
    <2>3. ASSUME request[c].phase = "review"
          PROVE  producer \in Models /\ ByModel(Subject(c, r), producer)
      <3>1. CASE request[c].target = "plan"
        <4>1. producer = PlanReviewProducer(run[c].judged)
          BY <2>3, <3>1 DEF Role, RoleForPhase
        <4>2. planRecord # None /\ planRecord.plan = run[c].judged.plan.bytes /\ producer = planRecord.model
          BY <1>2, <4>1 DEF PlanReviewProducer
        <4>3. planRecord \in [plan : Bytes, model : Models] /\ ByModel(planRecord.plan, planRecord.model)
          BY <4>2 DEF AllInv, ControllerInv, RecordsOk
        <4> QED BY <2>2, <3>1, <4>2, <4>3 DEF Subject
      <3>2. CASE request[c].target # "plan"
        <4>1. producer = BuildReviewProducer(run[c].judged)
          BY <2>3, <3>2 DEF Role, RoleForPhase
        <4>2. buildRecord # None /\ buildRecord.state = run[c].judged.state /\ producer = buildRecord.model
          BY <1>2, <4>1 DEF BuildReviewProducer
        <4>3. /\ buildRecord \in [plan : Bytes, state : States, model : Models]
              /\ ByModel(buildRecord.state.bytes, buildRecord.model)
          BY <4>2 DEF AllInv, ControllerInv, RecordsOk
        <4> QED BY <2>2, <3>2, <4>2, <4>3 DEF Subject
      <3> QED BY <3>1, <3>2
    <2>4. run[c].model = None
      BY <1>0 DEF SelectionOk
    <2> HIDE DEF r, producer
    <2>5. SelectionOk(c, r, "catalog") /\ Settles(c, r, "catalog") /\ ProducerOk(c, r, "catalog")
      BY <1>0, <2>2 DEF SelectionOk, Early, Selected, Settles, Begun, Producing, Ended, ProducerOk
    <2>6. ReviewOk(c, r, "catalog")
      BY <1>0, <2>2, <2>3, <2>4 DEF ReviewOk
    <2>7. ThreadOk(c, r, "catalog")
      BY <1>0, <2>2 DEF ThreadOk, Loaded, Begun, Producing, Ended
    <2> QED BY <1>0, <2>1, <2>5, <2>6, <2>7, KnowsAlone, QuietStep DEF CallOk
  <1> QED BY <1>1, <1>2

LEMMA SelectInv ==
    ASSUME AllInv, NEW c \in Calls, Select(c)
    PROVE  ControllerInv'
  <1>0. /\ SelectionOk(c, run[c], "catalog") /\ ReviewOk(c, run[c], "catalog") /\ ThreadOk(c, run[c], "catalog")
        /\ DOMAIN run[c] = RunFields /\ pc[c] = "catalog" /\ Quiet
    BY OfCall DEF Select, Quiet, files
  <1>1. ASSUME NEW catalog \in Catalogs,
               LET chosen == SelectFirstCompatibleEligible(catalog, run[c].excluded, request[c].override)
               IN chosen.error = None /\ Knows(c, [run[c] EXCEPT !.model = chosen.model], "preflight")
        PROVE  ControllerInv'
    <2> DEFINE chosen == SelectFirstCompatibleEligible(catalog, run[c].excluded, request[c].override)
               r == [run[c] EXCEPT !.model = chosen.model]
    <2>1. chosen.model \in Models \ run[c].excluded
      BY <1>1, SelectedModel
    <2>2. /\ DOMAIN r = RunFields /\ r.provider = run[c].provider /\ r.model = chosen.model
          /\ r.judged = run[c].judged /\ r.resumed = run[c].resumed /\ r.thread = run[c].thread
          /\ r.threads = run[c].threads /\ r.excluded = run[c].excluded
      BY <1>0 DEF RunFields
    <2>3. Knows(c, r, "preflight")
      BY <1>1
    <2> HIDE DEF r, chosen
    <2>4. SelectionOk(c, r, "preflight") /\ Settles(c, r, "preflight") /\ ProducerOk(c, r, "preflight")
      BY <1>0, <2>1, <2>2 DEF SelectionOk, Early, Selected, Settles, Begun, Producing, Ended, ProducerOk, Names
    <2>5. ReviewOk(c, r, "preflight")
      BY <1>0, <2>1, <2>2 DEF ReviewOk, Subject
    <2>6. ThreadOk(c, r, "preflight")
      BY <1>0, <2>2 DEF ThreadOk, Loaded, Begun, Producing, Ended
    <2> QED BY <1>0, <2>3, <2>4, <2>5, <2>6, KnowsAlone, QuietStep DEF CallOk
  <1> QED BY <1>0, <1>1, FailsStep DEF Select

LEMMA PreflightInv ==
    ASSUME AllInv, NEW c \in Calls, Preflight(c)
    PROVE  ControllerInv'
  <1>0. /\ SelectionOk(c, run[c], "preflight") /\ ReviewOk(c, run[c], "preflight") /\ ThreadOk(c, run[c], "preflight")
        /\ pc[c] = "preflight" /\ Quiet
    BY OfCall DEF Preflight, Quiet, files
  <1>1. \/ AfterSelection(c) = "begin" /\ request[c].issue
        \/ AfterSelection(c) = "load" /\ ~request[c].issue
    BY DEF AfterSelection
  <1>2. SelectionOk(c, run[c], AfterSelection(c)) /\ Settles(c, run[c], AfterSelection(c))
    BY <1>0, <1>1 DEF SelectionOk, Early, Selected, Settles, Begun, Producing, Ended
  <1>3. ReviewOk(c, run[c], AfterSelection(c)) /\ ProducerOk(c, run[c], AfterSelection(c))
    BY <1>0, <1>1 DEF ReviewOk, ProducerOk
  <1>4. ThreadOk(c, run[c], AfterSelection(c))
    BY <1>0, <1>1 DEF ThreadOk, Loaded, Begun, Producing, Ended
  <1> QED BY <1>0, <1>2, <1>3, <1>4, FailsStep, GotoStep DEF Preflight, CallOk

-----------------------------------------------------------------------------
(* The task *)

LEMMA BeginTaskInv ==
    ASSUME AllInv, NEW c \in Calls, BeginTask(c)
    PROVE  ControllerInv'
  <1> DEFINE entry == run[c].threads[Task(c)]
             resumes == ~request[c].fresh /\ request[c].phase # "review" /\ Matches(c, entry)
             resumed == IF resumes THEN entry.thread ELSE None
             shape == IF ReadOnly(c) THEN Tree(c).state.lines ELSE None
             place == IF Produces(c) THEN "acquire" ELSE "execute"
             r == [run[c] EXCEPT !.resumed = resumed, !.shape = shape]
  <1>0. /\ SelectionOk(c, run[c], "begin") /\ ReviewOk(c, run[c], "begin") /\ ThreadOk(c, run[c], "begin")
        /\ DOMAIN run[c] = RunFields /\ Task(c) \in Tasks /\ pc[c] = "begin" /\ Quiet
    BY OfCall DEF BeginTask, Quiet, files
  <1>1. Knows(c, r, place)
    BY DEF BeginTask
  <1>2. /\ DOMAIN r = RunFields /\ r.provider = run[c].provider /\ r.model = run[c].model
        /\ r.judged = run[c].judged /\ r.resumed = resumed /\ r.thread = run[c].thread
        /\ r.threads = run[c].threads /\ r.excluded = run[c].excluded
    BY <1>0 DEF RunFields
  <1>3. run[c].thread \in {c, None} /\ run[c].threads \in [Tasks -> Entries] /\ Sound(run[c].threads)
    BY <1>0 DEF ThreadOk, Loaded, Begun, Producing, Ended
  <1>4. resumed # None => Origin(resumed, Task(c), request[c].phase, run[c].provider, run[c].model)
    BY <1>0, <1>3 DEF Matches, Sound
  <1>5. place = "acquire" \/ place = "execute"
    OBVIOUS
  <1>6. place = "acquire" => run[c].provider = "openrouter-free" /\ request[c].phase \in {"plan", "build"}
    BY DEF Produces, Free
  <1> HIDE DEF r, place, resumed
  <1>7. SelectionOk(c, r, place) /\ Settles(c, r, place) /\ ProducerOk(c, r, place)
    BY <1>0, <1>2, <1>5, <1>6 DEF SelectionOk, Early, Selected, Settles, Begun, Producing, Ended, ProducerOk
  <1>8. ReviewOk(c, r, place)
    BY <1>0, <1>2, <1>5 DEF ReviewOk, Subject
  <1>9. ThreadOk(c, r, place)
    BY <1>2, <1>3, <1>4, <1>5 DEF ThreadOk, Begun
  <1> QED BY <1>0, <1>1, <1>7, <1>8, <1>9, KnowsAlone, QuietStep DEF CallOk

LEMMA AcquireInv ==
    ASSUME AllInv, NEW c \in Calls, AcquireExecutionLock(c)
    PROVE  ControllerInv'
  <1>0. /\ SelectionOk(c, run[c], "acquire") /\ ReviewOk(c, run[c], "acquire") /\ ThreadOk(c, run[c], "acquire")
        /\ pc[c] = "acquire" /\ Quiet
    BY OfCall DEF AcquireExecutionLock, Quiet
  <1>1. SelectionOk(c, run[c], "before") /\ Settles(c, run[c], "before") /\ ProducerOk(c, run[c], "before")
    BY <1>0 DEF SelectionOk, Early, Selected, Settles, Begun, Producing, ProducerOk
  <1>2. ReviewOk(c, run[c], "before")
    BY <1>0 DEF ReviewOk
  <1>3. ThreadOk(c, run[c], "before")
    BY <1>0 DEF ThreadOk, Loaded, Begun, Producing, Ended
  <1> QED BY <1>0, <1>1, <1>2, <1>3, FailsStep, GotoStep DEF AcquireExecutionLock, CallOk

LEMMA ReadBeforeInv ==
    ASSUME AllInv, NEW c \in Calls, ReadBefore(c)
    PROVE  ControllerInv'
  <1>0. /\ SelectionOk(c, run[c], "before") /\ ReviewOk(c, run[c], "before") /\ ThreadOk(c, run[c], "before")
        /\ DOMAIN run[c] = RunFields /\ pc[c] = "before" /\ Quiet
    BY OfCall DEF ReadBefore, Quiet, files
  <1>1. ASSUME NEW plan, Tree(c).plan # None => plan = Tree(c).plan.bytes,
               Knows(c, [run[c] EXCEPT !.before = [plan |-> plan, state |-> Tree(c).state]], "produce")
        PROVE  ControllerInv'
    <2> DEFINE r == [run[c] EXCEPT !.before = [plan |-> plan, state |-> Tree(c).state]]
    <2>1. /\ DOMAIN r = RunFields /\ r.provider = run[c].provider /\ r.model = run[c].model
          /\ r.judged = run[c].judged /\ r.resumed = run[c].resumed /\ r.thread = run[c].thread
          /\ r.threads = run[c].threads /\ r.excluded = run[c].excluded
          /\ r.before.plan = plan /\ r.before.state = Tree(c).state
      BY <1>0 DEF RunFields
    <2> HIDE DEF r
    <2>2. SelectionOk(c, r, "produce") /\ Settles(c, r, "produce")
      BY <1>0, <2>1 DEF SelectionOk, Early, Selected, Settles, Begun, Producing
    <2>3. ReviewOk(c, r, "produce")
      BY <1>0, <2>1 DEF ReviewOk, Subject
    <2>4. ThreadOk(c, r, "produce")
      BY <1>0, <2>1 DEF ThreadOk, Loaded, Begun, Producing, Ended
    <2>5. ProducerOk(c, r, "produce")
      BY <1>1, <2>1 DEF ProducerOk
    <2> QED BY <1>0, <1>1, <2>2, <2>3, <2>4, <2>5, KnowsAlone, QuietStep DEF CallOk, r
  <1>2. \/ \E code : Fail(c, code)
        \/ /\ Tree(c).plan # None
           /\ Knows(c, [run[c] EXCEPT !.before = [plan |-> Tree(c).plan.bytes, state |-> Tree(c).state]], "produce")
        \/ /\ Tree(c).plan = None
           /\ Knows(c, [run[c] EXCEPT !.before = [plan |-> None, state |-> Tree(c).state]], "produce")
    BY DEF ReadBefore, PlanHas
  <1> QED BY <1>0, <1>1, <1>2, FailsStep

LEMMA CodexEndsInv ==
    ASSUME AllInv, NEW c \in Calls, CodexEnds(c)
    PROVE  ControllerInv'
  <1> DEFINE place == IF pc[c] = "produce" THEN "after" ELSE IF ReadOnly(c) THEN "guard" ELSE "persist"
  <1>0. /\ SelectionOk(c, run[c], pc[c]) /\ ReviewOk(c, run[c], pc[c]) /\ ThreadOk(c, run[c], pc[c])
        /\ ProducerOk(c, run[c], pc[c])
        /\ DOMAIN run[c] = RunFields /\ pc[c] \in {"execute", "produce"} /\ Quiet
    BY OfCall DEF CodexEnds, Quiet, files
  <1>1. ASSUME NEW thread \in {c, None},
               Knows(c, [run[c] EXCEPT !.thread = IF run[c].resumed # None THEN run[c].resumed ELSE thread], place)
        PROVE  ControllerInv'
    <2> DEFINE named == IF run[c].resumed # None THEN run[c].resumed ELSE thread
               r == [run[c] EXCEPT !.thread = named]
    <2>1. /\ DOMAIN r = RunFields /\ r.provider = run[c].provider /\ r.model = run[c].model
          /\ r.judged = run[c].judged /\ r.resumed = run[c].resumed /\ r.thread = named
          /\ r.threads = run[c].threads /\ r.excluded = run[c].excluded /\ r.before = run[c].before
      BY <1>0 DEF RunFields
    <2>2. run[c].resumed = None => named \in {c, None}
      OBVIOUS
    <2>3. (pc[c] = "produce" /\ place = "after") \/ (pc[c] = "execute" /\ place \in {"guard", "persist"})
      BY <1>0
    <2>4. Knows(c, r, place)
      BY <1>1
    <2> HIDE DEF r, place, named
    <2>5. SelectionOk(c, r, place) /\ Settles(c, r, place)
      BY <1>0, <2>1, <2>3 DEF SelectionOk, Early, Selected, Settles, Begun, Producing
    <2>6. ReviewOk(c, r, place)
      BY <1>0, <2>1, <2>3 DEF ReviewOk, Subject
    <2>7. ThreadOk(c, r, place)
      BY <1>0, <2>1, <2>2, <2>3 DEF ThreadOk, Loaded, Begun, Producing, Ended
    <2>8. ProducerOk(c, r, place)
      BY <1>0, <2>1, <2>3 DEF ProducerOk
    <2> QED BY <1>0, <2>4, <2>5, <2>6, <2>7, <2>8, KnowsAlone, QuietStep DEF CallOk
  <1> QED BY <1>0, <1>1, FailsStep DEF CodexEnds

\* A plan that passes was written since the first hash, a worktree changed.
LEMMA Changed ==
    ASSUME AllInv, NEW c \in Calls, pc[c] = "after",
           (IF request[c].phase = "plan" THEN PlanError(c) ELSE BuildError(c)) = None
    PROVE  /\ Tree(c).plan # None
           /\ By(IF request[c].phase = "plan" THEN Tree(c).plan.bytes ELSE Tree(c).state.bytes, c)
  <1>0. ProducerOk(c, run[c], "after")
    BY OfCall
  <1>1. CASE request[c].phase = "plan"
    <2>1. PlanHas(Tree(c).plan, "PROPOSED") /\ Tree(c).plan.bytes # run[c].before.plan
      BY <1>1, NoneIsNoString DEF PlanError
    <2> QED BY <1>0, <1>1, <2>1 DEF ProducerOk, PlanHas
  <1>2. CASE request[c].phase # "plan"
    <2>1. PlanHas(Tree(c).plan, "APPROVED") /\ Tree(c).state # run[c].before.state
      BY <1>2, NoneIsNoString DEF BuildError
    <2> QED BY <1>0, <1>2, <2>1 DEF ProducerOk, PlanHas
  <1> QED BY <1>1, <1>2

LEMMA ReadAfterInv ==
    ASSUME AllInv, NEW c \in Calls, ReadAfter(c)
    PROVE  ControllerInv'
  <1> DEFINE error == IF request[c].phase = "plan" THEN PlanError(c) ELSE BuildError(c)
             after == [plan |-> Tree(c).plan.bytes, state |-> Tree(c).state]
             r == [run[c] EXCEPT !.after = after]
  <1>0. /\ SelectionOk(c, run[c], "after") /\ ReviewOk(c, run[c], "after") /\ ThreadOk(c, run[c], "after")
        /\ DOMAIN run[c] = RunFields /\ Task(c) \in Tasks /\ pc[c] = "after" /\ Quiet
    BY OfCall DEF ReadAfter, Quiet, files
  <1>1. (\E code : Fail(c, code)) \/ (error = None /\ Knows(c, r, "record"))
    BY DEF ReadAfter
  <1>2. ASSUME error = None, Knows(c, r, "record") PROVE ControllerInv'
    <2>1. /\ DOMAIN r = RunFields /\ r.provider = run[c].provider /\ r.model = run[c].model
          /\ r.judged = run[c].judged /\ r.resumed = run[c].resumed /\ r.thread = run[c].thread
          /\ r.threads = run[c].threads /\ r.excluded = run[c].excluded /\ r.after = after
      BY <1>0 DEF RunFields
    <2>2. /\ Tree(c).plan # None
          /\ By(IF request[c].phase = "plan" THEN after.plan ELSE after.state.bytes, c)
      BY <1>0, <1>2, Changed
    <2>3. after.plan \in Made /\ after.state \in States /\ after.state.bytes \in Made
      BY <1>0, <2>2 DEF AllInv, ControllerInv, TreesOk, Tree
    <2> HIDE DEF r, after, error
    <2>4. SelectionOk(c, r, "record") /\ Settles(c, r, "record")
      BY <1>0, <2>1 DEF SelectionOk, Early, Selected, Settles, Begun, Producing
    <2>5. ReviewOk(c, r, "record")
      BY <1>0, <2>1 DEF ReviewOk, Subject
    <2>6. ThreadOk(c, r, "record")
      BY <1>0, <2>1 DEF ThreadOk, Loaded, Begun, Producing, Ended
    <2>7. ProducerOk(c, r, "record")
      BY <2>1, <2>2, <2>3 DEF ProducerOk
    <2> QED BY <1>0, <1>2, <2>4, <2>5, <2>6, <2>7, KnowsAlone, QuietStep DEF CallOk
  <1> HIDE DEF error, r
  <1> QED BY <1>0, <1>1, <1>2, FailsStep

LEMMA WriteRecordInv ==
    ASSUME AllInv, NEW c \in Calls, WriteRecord(c)
    PROVE  ControllerInv'
  <1> DEFINE after == run[c].after
  <1>0. /\ SelectionOk(c, run[c], "record") /\ ReviewOk(c, run[c], "record") /\ ThreadOk(c, run[c], "record")
        /\ ProducerOk(c, run[c], "record")
        /\ pc[c] = "record" /\ UNCHANGED <<request, author, tree, threads>>
    BY OfCall DEF WriteRecord
  <1>1. CASE \E code : Fail(c, code) /\ UNCHANGED <<planRecord, buildRecord>>
    BY <1>0, <1>1, FailsStep DEF Quiet
  <1>2. CASE /\ Goto(c, "release") /\ UNCHANGED run
             /\ IF request[c].phase = "plan"
                THEN planRecord' = [plan |-> after.plan, model |-> run[c].model] /\ UNCHANGED buildRecord
                ELSE /\ buildRecord' = [plan |-> after.plan, state |-> after.state, model |-> run[c].model]
                     /\ UNCHANGED planRecord
    <2>1. /\ after.plan \in Made /\ after.state \in States /\ after.state.bytes \in Made
          /\ By(IF request[c].phase = "plan" THEN after.plan ELSE after.state.bytes, c)
      BY <1>0 DEF ProducerOk
    <2>2. after.plan \in Bytes
      BY <2>1, EditsAssumption DEF AllInv, ControllerInv, TreesOk, Made, Bytes
    <2>3. run[c].model \in Models
      BY <1>0 DEF SelectionOk, Selected, Producing
    <2>4. \A e : By(e, c) => ByModel(e, run[c].model)
      BY DEF By, ByModel
    <2>5. PlanRecordOk(planRecord) /\ BuildRecordOk(buildRecord)
      BY DEF AllInv, ControllerInv, RecordsOk, PlanRecordOk, BuildRecordOk
    <2>6. PlanRecordOk(planRecord') /\ BuildRecordOk(buildRecord')
      <3>1. CASE request[c].phase = "plan"
        BY <1>2, <2>1, <2>2, <2>3, <2>4, <2>5, <3>1 DEF PlanRecordOk
      <3>2. CASE request[c].phase # "plan"
        BY <1>2, <2>1, <2>2, <2>3, <2>4, <2>5, <3>2 DEF BuildRecordOk
      <3> QED BY <3>1, <3>2
    <2>7. SelectionOk(c, run[c], "release") /\ Settles(c, run[c], "release") /\ ProducerOk(c, run[c], "release")
      BY <1>0 DEF SelectionOk, Early, Selected, Settles, Begun, Producing, ProducerOk
    <2>8. ReviewOk(c, run[c], "release")
      BY <1>0 DEF ReviewOk
    <2>9. ThreadOk(c, run[c], "release")
      BY <1>0 DEF ThreadOk, Loaded, Begun, Producing, Ended
    <2>10. Cleaned /\ threads' \in [Tasks -> Entries] /\ Sound(threads')
      BY <1>0 DEF Cleaned, AllInv, ControllerInv, TreesOk, ThreadsOk
    <2>11. Alone(c, run[c], "release")
      BY <1>2 DEF Alone
    <2> QED BY <1>0, <2>6, <2>7, <2>8, <2>9, <2>10, <2>11, CallStep DEF CallOk
  <1> QED BY <1>1, <1>2 DEF WriteRecord

LEMMA ReleaseInv ==
    ASSUME AllInv, NEW c \in Calls, Release(c)
    PROVE  ControllerInv'
  <1>0. /\ SelectionOk(c, run[c], "release") /\ ReviewOk(c, run[c], "release") /\ ThreadOk(c, run[c], "release")
        /\ pc[c] = "release" /\ Quiet
    BY OfCall DEF Release, Quiet
  <1>1. SelectionOk(c, run[c], "persist") /\ Settles(c, run[c], "persist") /\ ProducerOk(c, run[c], "persist")
    BY <1>0 DEF SelectionOk, Early, Selected, Settles, Begun, Producing, Ended, ProducerOk
  <1>2. ReviewOk(c, run[c], "persist")
    BY <1>0 DEF ReviewOk
  <1>3. ThreadOk(c, run[c], "persist")
    BY <1>0 DEF ThreadOk, Loaded, Begun, Producing, Ended
  <1>4. "failed" \in Ended
    BY DEF Ended
  <1> QED BY <1>0, <1>1, <1>2, <1>3, <1>4, EndStep, GotoStep DEF Release, CallOk

LEMMA GuardReadOnlyInv ==
    ASSUME AllInv, NEW c \in Calls, GuardReadOnly(c)
    PROVE  ControllerInv'
  <1>0. /\ SelectionOk(c, run[c], "guard") /\ ReviewOk(c, run[c], "guard") /\ ThreadOk(c, run[c], "guard")
        /\ pc[c] = "guard" /\ Quiet
    BY OfCall DEF GuardReadOnly, Quiet, files
  <1>1. SelectionOk(c, run[c], "persist") /\ Settles(c, run[c], "persist") /\ ProducerOk(c, run[c], "persist")
    BY <1>0 DEF SelectionOk, Early, Selected, Settles, Begun, Producing, Ended, ProducerOk
  <1>2. ReviewOk(c, run[c], "persist")
    BY <1>0 DEF ReviewOk
  <1>3. ThreadOk(c, run[c], "persist")
    BY <1>0 DEF ThreadOk, Loaded, Begun, Producing, Ended
  <1> QED BY <1>0, <1>1, <1>2, <1>3, FailsStep, GotoStep DEF GuardReadOnly, CallOk

-----------------------------------------------------------------------------
(* What is left of the task: the state file, the commit, the pull request *)

\* A call that is done with the state file written.
LEMMA SavesAndEnds ==
    ASSUME AllInv, NEW c \in Calls, pc[c] # "idle", End(c, "done"),
           UNCHANGED <<request, author, tree, planRecord, buildRecord>>,
           threads' \in [Tasks -> Entries], Sound(threads')
    PROVE  ControllerInv'
  <1>1. "done" \in Ended
    BY DEF Ended
  <1>2. Knows(c, EndedRun(c), "done")
    BY DEF Knows, End, EndedRun
  <1>3. CallOk(c, EndedRun(c), "done") /\ Settles(c, EndedRun(c), "done")
    BY <1>1, EndedOk
  <1>4. Cleaned /\ PlanRecordOk(planRecord') /\ BuildRecordOk(buildRecord')
    BY DEF Cleaned, AllInv, ControllerInv, TreesOk, RecordsOk, PlanRecordOk, BuildRecordOk
  <1> QED BY <1>2, <1>3, <1>4, KnowsAlone, CallStep

LEMMA PersistInv ==
    ASSUME AllInv, NEW c \in Calls, Persist(c)
    PROVE  ControllerInv'
  <1> DEFINE old == run[c].threads[Task(c)]
             entry == [thread |-> run[c].thread, provider |-> run[c].provider, model |-> run[c].model,
                       role |-> request[c].phase, pr |-> old # None /\ old.pr]
             saved == [run[c].threads EXCEPT ![Task(c)] = entry]
             r == [run[c] EXCEPT !.threads = saved]
  <1>0. /\ SelectionOk(c, run[c], "persist") /\ ReviewOk(c, run[c], "persist") /\ ThreadOk(c, run[c], "persist")
        /\ DOMAIN run[c] = RunFields /\ request[c] \in Requests /\ Task(c) \in Tasks /\ pc[c] = "persist"
        /\ UNCHANGED <<request, author, tree, planRecord, buildRecord>>
    BY OfCall DEF Persist
  <1>1. /\ run[c].threads \in [Tasks -> Entries] /\ Sound(run[c].threads)
        /\ run[c].resumed = None => run[c].thread \in {c, None}
    BY <1>0 DEF ThreadOk, Loaded, Begun, Ended
  <1>2. /\ SelectionOk(c, run[c], "publish") /\ Settles(c, run[c], "publish") /\ ProducerOk(c, run[c], "publish")
        /\ ReviewOk(c, run[c], "publish") /\ ThreadOk(c, run[c], "publish")
    <2>1. SelectionOk(c, run[c], "publish") /\ Settles(c, run[c], "publish") /\ ProducerOk(c, run[c], "publish")
      BY <1>0 DEF SelectionOk, Early, Selected, Settles, Begun, Producing, Ended, ProducerOk
    <2>2. ReviewOk(c, run[c], "publish")
      BY <1>0 DEF ReviewOk
    <2>3. ThreadOk(c, run[c], "publish")
      BY <1>0 DEF ThreadOk, Loaded, Begun, Producing, Ended
    <2> QED BY <2>1, <2>2, <2>3
  <1>3. \/ AfterTask(c, run[c]) /\ UNCHANGED threads
        \/ Fail(c, "THREAD_ID") /\ UNCHANGED threads
        \/ run[c].resumed = None /\ run[c].thread # None /\ AfterTask(c, r) /\ threads' = saved
    BY DEF Persist
  <1>4. CASE AfterTask(c, run[c]) /\ UNCHANGED threads
    <2>1. Quiet /\ "done" \in Ended
      BY <1>0, <1>4 DEF Quiet, Ended
    <2> QED BY <1>0, <1>2, <1>4, <2>1, EndStep, KnowsAlone, QuietStep DEF AfterTask, CallOk
  <1>5. CASE Fail(c, "THREAD_ID") /\ UNCHANGED threads
    BY <1>0, <1>5, FailsStep DEF Quiet
  <1>6. CASE run[c].resumed = None /\ run[c].thread # None /\ AfterTask(c, r) /\ threads' = saved
    <2>1. run[c].thread = c
      BY <1>1, <1>6
    <2>2. entry \in Entries
      <3>1. run[c].provider \in {"primary", "openrouter-free", None} /\ run[c].model \in Names \cup {None}
        BY <1>0 DEF SelectionOk
      <3>2. request[c].phase \in {"general", "plan", "build", "review"}
        BY <1>0 DEF Requests
      <3>3. (old # None /\ old.pr) \in BOOLEAN
        OBVIOUS
      <3> QED BY <2>1, <3>1, <3>2, <3>3 DEF Entries
    <2>3. saved \in [Tasks -> Entries]
      BY <1>1, <2>2
    <2>4. Sound(saved)
      <3>1. Origin(c, Task(c), request[c].phase, run[c].provider, run[c].model)
        BY <1>0 DEF Origin, Begun, Requests, SelectionOk
      <3> QED BY <1>0, <1>1, <2>1, <3>1 DEF Sound
    <2>5. CASE ~request[c].issue
      BY <1>0, <1>6, <2>3, <2>4, <2>5, SavesAndEnds DEF AfterTask
    <2>6. CASE request[c].issue
      <3>1. Knows(c, r, "publish")
        BY <1>6, <2>6 DEF AfterTask
      <3>2. /\ DOMAIN r = RunFields /\ r.provider = run[c].provider /\ r.model = run[c].model
            /\ r.judged = run[c].judged /\ r.resumed = run[c].resumed /\ r.thread = run[c].thread
            /\ r.threads = saved /\ r.excluded = run[c].excluded
        BY <1>0 DEF RunFields
      <3> HIDE DEF r, saved
      <3>3. SelectionOk(c, r, "publish") /\ Settles(c, r, "publish") /\ ProducerOk(c, r, "publish")
        BY <1>2, <3>2 DEF SelectionOk, Settles, ProducerOk
      <3>4. ReviewOk(c, r, "publish")
        BY <1>2, <3>2 DEF ReviewOk, Subject
      <3>5. ThreadOk(c, r, "publish")
        BY <1>2, <2>3, <2>4, <3>2 DEF ThreadOk
      <3>6. Cleaned /\ PlanRecordOk(planRecord') /\ BuildRecordOk(buildRecord')
        BY <1>0 DEF Cleaned, AllInv, ControllerInv, TreesOk, RecordsOk, PlanRecordOk, BuildRecordOk
      <3>7. threads' \in [Tasks -> Entries] /\ Sound(threads')
        BY <1>6, <2>3, <2>4
      <3> QED BY <1>0, <3>1, <3>3, <3>4, <3>5, <3>6, <3>7, KnowsAlone, CallStep DEF CallOk
    <2> QED BY <2>5, <2>6
  <1> QED BY <1>3, <1>4, <1>5, <1>6

LEMMA CommitAndPushInv ==
    ASSUME AllInv, NEW c \in Calls, CommitAndPush(c)
    PROVE  ControllerInv'
  <1>0. /\ SelectionOk(c, run[c], "publish") /\ ReviewOk(c, run[c], "publish") /\ ThreadOk(c, run[c], "publish")
        /\ Task(c) \in Tasks /\ pc[c] = "publish"
        /\ UNCHANGED <<request, author, planRecord, buildRecord, threads>>
    BY OfCall DEF CommitAndPush
  <1>1. CASE Tree(c).state = Clean
    <2>1. End(c, "done") /\ Quiet /\ "done" \in Ended
      BY <1>0, <1>1 DEF CommitAndPush, Quiet, Ended
    <2> QED BY <1>0, <2>1, EndStep
  <1>2. CASE Tree(c).state # Clean
    <2>1. Cleaned
      <3>1. Clean \in States
        BY EditsAssumption DEF Clean, States, Bytes
      <3>2. tree' = [tree EXCEPT ![Task(c)].state = Clean]
        BY <1>2 DEF CommitAndPush
      <3>3. tree \in [Tasks -> [plan : PlanFiles, state : States]]
        BY DEF AllInv, ControllerInv, TreesOk
      <3> QED BY <1>0, <3>1, <3>2, <3>3 DEF Cleaned
    <2>2. /\ PlanRecordOk(planRecord') /\ BuildRecordOk(buildRecord')
          /\ threads' \in [Tasks -> Entries] /\ Sound(threads')
      BY <1>0 DEF AllInv, ControllerInv, RecordsOk, ThreadsOk, PlanRecordOk, BuildRecordOk
    <2>3. CASE Goto(c, "pull request") /\ UNCHANGED run
      <3>1. SelectionOk(c, run[c], "pull request") /\ Settles(c, run[c], "pull request")
            /\ ProducerOk(c, run[c], "pull request")
        BY <1>0 DEF SelectionOk, Early, Selected, Settles, Begun, Producing, Ended, ProducerOk
      <3>2. ReviewOk(c, run[c], "pull request")
        BY <1>0 DEF ReviewOk
      <3>3. ThreadOk(c, run[c], "pull request")
        BY <1>0 DEF ThreadOk, Loaded, Begun, Producing, Ended
      <3>4. Alone(c, run[c], "pull request")
        BY <2>3 DEF Alone
      <3> QED BY <1>0, <2>1, <2>2, <3>1, <3>2, <3>3, <3>4, CallStep DEF CallOk
    <2>4. CASE Fail(c, "PUSH")
      <3>1. End(c, "failed") /\ "failed" \in Ended
        BY <1>0, <2>4 DEF Fail, Finally, Producing, Ended
      <3>2. Knows(c, EndedRun(c), "failed")
        BY <3>1 DEF Knows, End, EndedRun
      <3>3. CallOk(c, EndedRun(c), "failed") /\ Settles(c, EndedRun(c), "failed")
        BY <1>0, <3>1, EndedOk
      <3> QED BY <1>0, <2>1, <2>2, <3>2, <3>3, KnowsAlone, CallStep
    <2> QED BY <1>2, <2>3, <2>4 DEF CommitAndPush
  <1> QED BY <1>1, <1>2

LEMMA SavePullRequestInv ==
    ASSUME AllInv, NEW c \in Calls, SavePullRequest(c)
    PROVE  ControllerInv'
  <1> DEFINE old == run[c].threads[Task(c)]
             entry == [(IF old = None THEN NoThread ELSE old) EXCEPT !.pr = TRUE]
             saved == [run[c].threads EXCEPT ![Task(c)] = entry]
  <1>0. /\ ThreadOk(c, run[c], "pull request") /\ Task(c) \in Tasks /\ pc[c] = "pull request"
        /\ UNCHANGED <<request, author, tree, planRecord, buildRecord>>
    BY OfCall DEF SavePullRequest
  <1>1. run[c].threads \in [Tasks -> Entries] /\ Sound(run[c].threads)
    BY <1>0 DEF ThreadOk, Loaded, Begun, Ended
  <1>2. CASE Fail(c, "PULL_REQUEST") /\ UNCHANGED threads
    BY <1>0, <1>2, FailsStep DEF Quiet
  <1>3. CASE End(c, "done") /\ threads' = saved
    <2>1. old \in Entries
      BY <1>0, <1>1
    <2>2. /\ entry \in Entries
          /\ entry # None /\ entry.thread # None =>
                /\ old # None /\ entry.thread = old.thread /\ entry.role = old.role
                /\ entry.provider = old.provider /\ entry.model = old.model
      BY <2>1 DEF Entries, NoThread
    <2>3. saved \in [Tasks -> Entries]
      BY <1>1, <2>2
    <2> HIDE DEF entry
    <2>4. Sound(saved)
      BY <1>0, <1>1, <2>2 DEF Sound
    <2> QED BY <1>0, <1>3, <2>3, <2>4, SavesAndEnds
  <1> QED BY <1>2, <1>3 DEF SavePullRequest

-----------------------------------------------------------------------------
(* An edit, by the producer, by Codex outside of a production or by the user *)

\* What an edit changes carries the bytes nobody had before.
Edit(by) ==
    LET edit == Len(author) + 1
    IN /\ author' = Append(author, by) /\ Len(author) < MaxEdits
       /\ tree' \in [Tasks -> [plan : PlanFiles, state : States]]
       /\ \A t \in Tasks :
             /\ tree'[t].plan = tree[t].plan \/ tree'[t].plan.bytes = edit
             /\ tree'[t].state = tree[t].state \/ tree'[t].state.bytes = edit

LEMMA EditStep ==
    ASSUME AllInv, NEW by \in Calls \cup {None}, by # None => pc[by] = "produce",
           Edit(by), UNCHANGED <<request, pc, run, lock, planRecord, buildRecord, threads>>
    PROVE  ControllerInv'
  <1> DEFINE edit == Len(author) + 1
  <1>0. /\ author \in Seq(Calls \cup {None}) /\ Len(author) \in Nat /\ DOMAIN author = 1..Len(author)
        /\ author' = Append(author, by) /\ Len(author') = edit
    BY DEF AllInv, ControllerInv, TreesOk, Edit
  <1>1. /\ DOMAIN author' = 1..edit /\ author'[edit] = by
        /\ \A e \in DOMAIN author : author'[e] = author[e]
    BY <1>0
  <1>2. /\ Made \subseteq Made' /\ edit \in Made'
        /\ \A e \in Made : (e \in DOMAIN author') <=> (e \in DOMAIN author)
    BY <1>0, <1>1 DEF Made
  <1>3. \A d : \A e \in Made : By(e, d)' = By(e, d)
    BY <1>1, <1>2 DEF By
  <1>4. \A model : \A e \in Made : ByModel(e, model)' = ByModel(e, model)
    BY <1>1, <1>2 DEF ByModel
  <1>5. \A e : e = edit => \A d \in Calls : pc[d] \in {"produce", "after"} => By(e, d)'
    <2>1. \A d \in Calls : pc[d] \in {"produce", "after"} => by \in {d, None}
      BY NoneIsNoCall DEF AllInv, LockInv, OneProducer, Producing
    <2> QED BY <1>1, <2>1 DEF By
  <1>6. \A o, t, role, provider, model :
            Origin(o, t, role, provider, model)' = Origin(o, t, role, provider, model)
    BY DEF Origin, Task
  <1>7. TreesOk'
    <2>1. author' \in Seq(Calls \cup {None}) /\ Len(author') <= MaxEdits
      BY <1>0, EditsAssumption DEF Edit
    <2>2. \A e \in DOMAIN author' : author'[e] # None => pc[author'[e]] \in Begun
      <3>1. \A e \in 1..edit : e = edit \/ e \in 1..Len(author)
        BY <1>0
      <3>2. \A e \in DOMAIN author : author[e] # None => pc[author[e]] \in Begun
        BY DEF AllInv, ControllerInv, TreesOk
      <3>3. by # None => pc[by] \in Begun
        BY DEF Begun, Producing
      <3> QED BY <1>0, <1>1, <3>1, <3>2, <3>3
    <2>3. ASSUME NEW t \in Tasks
          PROVE  (tree'[t].plan # None => tree'[t].plan.bytes \in Made') /\ tree'[t].state.bytes \in Made'
      <3>1. /\ tree'[t].plan = tree[t].plan \/ tree'[t].plan.bytes = edit
            /\ tree'[t].state = tree[t].state \/ tree'[t].state.bytes = edit
        BY DEF Edit
      <3>2. (tree[t].plan # None => tree[t].plan.bytes \in Made) /\ tree[t].state.bytes \in Made
        BY DEF AllInv, ControllerInv, TreesOk
      <3> QED BY <1>2, <3>1, <3>2
    <2>4. tree' \in [Tasks -> [plan : PlanFiles, state : States]]
      BY DEF Edit
    <2> QED BY <2>1, <2>2, <2>3, <2>4 DEF TreesOk
  <1>8. RecordsOk'
    BY <1>2, <1>4 DEF AllInv, ControllerInv, RecordsOk
  <1>9. ThreadsOk'
    BY <1>6 DEF AllInv, ControllerInv, ThreadsOk, Sound
  <1>10. ASSUME NEW d \in Calls PROVE CallOk(d, run[d], pc[d])'
    <2>0. SelectionOk(d, run[d], pc[d]) /\ ReviewOk(d, run[d], pc[d]) /\ ThreadOk(d, run[d], pc[d])
          /\ ProducerOk(d, run[d], pc[d])
      BY OfCall
    <2>1. SelectionOk(d, run[d], pc[d])'
      BY <2>0 DEF SelectionOk, Early, Selected
    <2>2. ReviewOk(d, run[d], pc[d])'
      BY <1>2, <1>4, <2>0 DEF ReviewOk, Subject
    <2>3. ThreadOk(d, run[d], pc[d])'
      BY <1>6, <2>0 DEF ThreadOk, Loaded, Sound, Task
    <2>4. ProducerOk(d, run[d], pc[d])'
      <3>1. ASSUME pc[d] \in {"produce", "after"}
            PROVE  /\ (Tree(d).plan # None /\ ~By(Tree(d).plan.bytes, d) => Tree(d).plan.bytes = run[d].before.plan)'
                   /\ (~By(Tree(d).state.bytes, d) => Tree(d).state = run[d].before.state)'
        <4>0. Task(d) \in Tasks
          BY <3>1, OfCall
        <4>1. /\ tree'[Task(d)].plan = tree[Task(d)].plan \/ tree'[Task(d)].plan.bytes = edit
              /\ tree'[Task(d)].state = tree[Task(d)].state \/ tree'[Task(d)].state.bytes = edit
          BY <4>0 DEF Edit
        <4>2. /\ tree[Task(d)].plan # None => tree[Task(d)].plan.bytes \in Made
              /\ tree[Task(d)].state.bytes \in Made
          BY <4>0 DEF AllInv, ControllerInv, TreesOk
        <4>3. \A e : e = edit => By(e, d)'
          BY <1>5, <3>1
        <4>4. /\ tree[Task(d)].plan # None /\ ~By(tree[Task(d)].plan.bytes, d)
                     => tree[Task(d)].plan.bytes = run[d].before.plan
              /\ ~By(tree[Task(d)].state.bytes, d) => tree[Task(d)].state = run[d].before.state
          BY <2>0, <3>1 DEF ProducerOk, Tree
        <4> HIDE DEF edit
        <4>5. \A e \in Made : By(e, d)' = By(e, d)
          BY <1>3
        <4>6. Task(d)' = Task(d)
          BY DEF Task
        <4> QED BY <4>1, <4>2, <4>3, <4>4, <4>5, <4>6 DEF Tree
      <3>2. pc[d] = "record" => (/\ run[d].after.plan \in Made /\ run[d].after.state \in States
                                 /\ run[d].after.state.bytes \in Made
                                 /\ By(IF request[d].phase = "plan" THEN run[d].after.plan
                                       ELSE run[d].after.state.bytes, d))'
        BY <1>2, <1>3, <2>0 DEF ProducerOk
      <3> QED BY <3>1, <3>2 DEF ProducerOk
    <2> QED BY <2>1, <2>2, <2>3, <2>4 DEF CallOk
  <1> QED BY <1>7, <1>8, <1>9, <1>10 DEF AllInv, ControllerInv

\* What the two kinds of edit of the model have in common.
LEMMA EditsEdit ==
    ASSUME AllInv, NEW t \in Tasks, NEW by \in Calls \cup {None}, Len(author) < MaxEdits,
           EditCode(t, by) \/ EditPlan(t, "PROPOSED", by) \/ EditPlan(t, "APPROVED", by)
    PROVE  Edit(by)
  <1> DEFINE edit == Len(author) + 1
  <1>0. /\ tree \in [Tasks -> [plan : PlanFiles, state : States]] /\ edit \in Bytes /\ MaxEdits \in Nat
    BY EditsAssumption DEF AllInv, ControllerInv, TreesOk, Bytes
  <1>1. \A state \in Edited(tree[t].state) : state \in States /\ state.bytes = edit
    BY <1>0 DEF Edited, States
  <1> HIDE DEF edit
  <1>2. CASE EditCode(t, by)
    <2>1. PICK state \in Edited(tree[t].state) : tree' = [tree EXCEPT ![t].state = state]
      BY <1>2 DEF EditCode
    <2>2. /\ tree' \in [Tasks -> [plan : PlanFiles, state : States]]
          /\ \A u \in Tasks : /\ tree'[u].plan = tree[u].plan
                              /\ tree'[u].state = tree[u].state \/ tree'[u].state.bytes = edit
      BY <1>0, <1>1, <2>1
    <2> QED BY <1>2, <2>2 DEF Edit, EditCode, edit
  <1>3. ASSUME NEW status \in {"PROPOSED", "APPROVED"}, EditPlan(t, status, by) PROVE Edit(by)
    <2>1. PICK state \in Edited(tree[t].state) :
             tree' = [tree EXCEPT ![t].state = state, ![t].plan = [status |-> status, bytes |-> edit]]
      BY <1>3 DEF EditPlan, edit
    <2>2. [status |-> status, bytes |-> edit] \in [status : {"PROPOSED", "APPROVED"}, bytes : Bytes]
      BY <1>0
    <2>3. /\ tree' \in [Tasks -> [plan : PlanFiles, state : States]]
          /\ \A u \in Tasks : /\ tree'[u].plan = tree[u].plan \/ tree'[u].plan.bytes = edit
                              /\ tree'[u].state = tree[u].state \/ tree'[u].state.bytes = edit
      BY <1>0, <1>1, <2>1, <2>2 DEF PlanFiles
    <2> QED BY <1>3, <2>3 DEF Edit, EditPlan, edit
  <1> QED BY <1>2, <1>3

LEMMA EditInv ==
    ASSUME AllInv,
           (\E c \in Calls : CodexEdits(c)) \/ (\E t \in Tasks : Approve(t))
    PROVE  ControllerInv'
  <1>1. ASSUME NEW c \in Calls, CodexEdits(c) PROVE ControllerInv'
    <2> DEFINE by == IF pc[c] = "produce" THEN c ELSE None
    <2>1. Task(c) \in Tasks
      BY <1>1, OfCall DEF CodexEdits
    <2>2. by \in Calls \cup {None} /\ (by # None => pc[by] = "produce")
      OBVIOUS
    <2>3. Len(author) < MaxEdits /\ (EditPlan(Task(c), "PROPOSED", by) \/ EditCode(Task(c), by))
      BY <1>1 DEF CodexEdits
    <2> HIDE DEF by
    <2>4. Edit(by)
      BY <2>1, <2>2, <2>3, EditsEdit
    <2> QED BY <1>1, <2>2, <2>4, EditStep DEF CodexEdits
  <1>2. ASSUME NEW t \in Tasks, Approve(t) PROVE ControllerInv'
    <2>1. Edit(None)
      BY <1>2, EditsEdit DEF Approve
    <2> QED BY <1>2, <2>1, EditStep DEF Approve
  <1> QED BY <1>1, <1>2

LEMMA KillInv ==
    ASSUME AllInv, NEW c \in Calls, Kill(c)
    PROVE  ControllerInv'
  <1>1. pc[c] # "idle" /\ Quiet
    BY DEF Kill, Quiet, files
  <1>2. PICK place \in {"killed", "failed"} : End(c, place)
    BY DEF Kill
  <1> QED BY <1>1, <1>2, EndStep DEF Ended

LEMMA ExchangeInv ==
    ASSUME AllInv, NEW c \in Calls, Exchange(c)
    PROVE  ControllerInv'
  <1>1. UNCHANGED <<pc, run>> /\ Quiet
    BY DEF Exchange, Quiet, files
  <1> QED BY <1>1, StutterStep

-----------------------------------------------------------------------------
(* Init, Next and what they say of every behaviour *)

LEMMA ControllerInvInit == Init => ControllerInv
  <1> SUFFICES ASSUME Init PROVE ControllerInv
    OBVIOUS
  <1>0. MaxEdits \in Nat /\ 0 \in Bytes /\ Clean \in States
    BY EditsAssumption DEF Bytes, Clean, States
  <1>1. PICK situation \in Situations :
           request = situation.request /\ tree = [t \in Tasks |-> [plan |-> situation.plan, state |-> Clean]]
    BY DEF Init
  <1>2. situation.request \in [Calls -> Requests \cup {None}] /\ situation.plan \in FirstPlans
    BY SituationsAssumption
  <1>3. author = <<>> /\ Len(author) = 0 /\ DOMAIN author = {} /\ author \in Seq(Calls \cup {None})
    BY DEF Init
  <1>4. 0 \in Made
    BY <1>3 DEF Made
  <1>5. TreesOk
    <2>1. situation.plan \in PlanFiles /\ (situation.plan # None => situation.plan.bytes = 0)
      BY <1>0, <1>2 DEF FirstPlans, PlanFiles
    <2>2. Clean.bytes = 0
      BY DEF Clean
    <2> QED BY <1>0, <1>1, <1>3, <1>4, <2>1, <2>2 DEF TreesOk
  <1>6. RecordsOk
    BY DEF Init, RecordsOk
  <1>7. ThreadsOk
    BY DEF Init, ThreadsOk, Sound, Entries
  <1>8. ASSUME NEW c \in Calls PROVE CallOk(c, run[c], pc[c])
    <2>1. run[c] = NewRun /\ pc[c] = "idle"
      BY DEF Init
    <2>2. /\ DOMAIN NewRun = RunFields /\ NewRun.provider = None /\ NewRun.model = None /\ NewRun.judged = None
          /\ NewRun.resumed = None /\ NewRun.thread = None
      BY DEF NewRun, RunFields
    <2>3. SelectionOk(c, NewRun, "idle")
      BY <2>2 DEF SelectionOk, Early, Selected, Producing
    <2>4. ReviewOk(c, NewRun, "idle") /\ ProducerOk(c, NewRun, "idle")
      BY <2>2 DEF ReviewOk, ProducerOk
    <2>5. ThreadOk(c, NewRun, "idle")
      BY <2>2 DEF ThreadOk, Loaded, Begun, Producing, Ended
    <2> QED BY <2>1, <2>3, <2>4, <2>5 DEF CallOk
  <1> QED BY <1>1, <1>2, <1>5, <1>6, <1>7, <1>8 DEF ControllerInv

LEMMA ControllerInvNext == AllInv /\ [Next]_vars => ControllerInv'
  <1> SUFFICES ASSUME AllInv, [Next]_vars PROVE ControllerInv'
    OBVIOUS
  <1>1. ASSUME NEW c \in Calls, Step(c) PROVE ControllerInv'
    <2>1. CASE Start(c) \/ Exchange(c) \/ Decide(c) \/ LoadState(c) \/ EnsureWorktree(c)
      BY <2>1, StartInv, ExchangeInv, DecideInv, LoadStateInv, EnsureWorktreeInv
    <2>2. CASE ReadArtifacts(c) \/ LoadProducer(c) \/ Select(c) \/ Preflight(c)
      BY <2>2, ReadArtifactsInv, LoadProducerInv, SelectInv, PreflightInv
    <2>3. CASE BeginTask(c) \/ AcquireExecutionLock(c) \/ ReadBefore(c) \/ CodexEdits(c) \/ CodexEnds(c)
      BY <2>3, BeginTaskInv, AcquireInv, ReadBeforeInv, EditInv, CodexEndsInv
    <2>4. CASE ReadAfter(c) \/ WriteRecord(c) \/ Release(c) \/ GuardReadOnly(c) \/ Persist(c)
      BY <2>4, ReadAfterInv, WriteRecordInv, ReleaseInv, GuardReadOnlyInv, PersistInv
    <2>5. CASE CommitAndPush(c) \/ SavePullRequest(c) \/ Kill(c)
      BY <2>5, CommitAndPushInv, SavePullRequestInv, KillInv
    <2> QED BY <1>1, <2>1, <2>2, <2>3, <2>4, <2>5 DEF Step
  <1>2. CASE \E t \in Tasks : Approve(t)
    BY <1>2, EditInv
  <1>3. CASE UNCHANGED vars
    <2> USE <1>3 DEF vars, Made, ByModel, By, Sound, Origin, Task
    <2>1. TreesOk' /\ RecordsOk' /\ ThreadsOk'
      BY DEF AllInv, ControllerInv, TreesOk, RecordsOk, ThreadsOk
    <2>2. ASSUME NEW c \in Calls PROVE CallOk(c, run[c], pc[c])'
      <3>1. SelectionOk(c, run[c], pc[c])'
        BY OfCall DEF SelectionOk, Early, Selected
      <3>2. ReviewOk(c, run[c], pc[c])'
        BY OfCall DEF ReviewOk, Subject
      <3>3. ThreadOk(c, run[c], pc[c])'
        BY OfCall DEF ThreadOk, Loaded
      <3>4. ProducerOk(c, run[c], pc[c])'
        BY OfCall DEF ProducerOk, Tree
      <3> QED BY <3>1, <3>2, <3>3, <3>4 DEF CallOk
    <2> QED BY <2>1, <2>2 DEF AllInv, ControllerInv
  <1> QED BY <1>1, <1>2, <1>3 DEF Next

LEMMA ControllerInvAlways == Spec => []AllInv
  <1>1. AllInv <=> LockInv /\ CallInv /\ ControllerInv
    BY DEF AllInv
  <1> QED BY <1>1, LockInvAlways, CallInvAlways, ControllerInvInit, ControllerInvNext, PTL DEF Spec

\* The files and the calls stay within their types, whatever the calls are
\* asked for, the marketplace answers and Codex edits.
THEOREM ControllerTypeHolds == Spec => []TypeOK
  <1>1. AllInv => TypeOK
    <2> SUFFICES ASSUME AllInv PROVE TypeOK
      OBVIOUS
    <2>1. client \in [Calls -> Clients] /\ \A c \in Calls : DOMAIN run[c] = RunFields
      BY DEF AllInv, CallInv
    <2>2. pc \in [Calls -> Places] /\ lock \in Calls \cup {None}
      BY DEF AllInv, LockInv
    <2> QED BY <2>1, <2>2 DEF AllInv, ControllerInv, TreesOk, RecordsOk, ThreadsOk, TypeOK
  <1> QED BY <1>1, ControllerInvAlways, PTL

\* A thread is continued only for the task, provider, model and role it was
\* started for, though calls load the state file early and overwrite each
\* other's entries (index.ts:409 and 457).
THEOREM ResumeIsExactHolds == Spec => []ResumeIsExact
  <1>1. AllInv => ResumeIsExact
    BY OfCall DEF ResumeIsExact, ThreadOk, Origin
  <1> QED BY <1>1, ControllerInvAlways, PTL

\* A free model never reviews what a production of the same model left, even
\* one that was killed or failed before it wrote its record: with one producer
\* at a time, what changed between two hashes is the producer's, so a record
\* names the author of the bytes it is about (core.ts:38, 39 and 42).
THEOREM ReviewIsIndependentHolds == Spec => []ReviewIsIndependent
  <1>1. ASSUME AllInv PROVE ReviewIsIndependent
    <2> SUFFICES ASSUME NEW c \in Calls, pc[c] \notin Ended, run[c].model # None, run[c].judged # None,
                        request[c].phase = "review", Subject(c, run[c]) # 0, author[Subject(c, run[c])] # None
                 PROVE  run[author[Subject(c, run[c])]].model # run[c].model
      BY DEF ReviewIsIndependent, Subject
    <2>1. SelectionOk(c, run[c], pc[c]) /\ ReviewOk(c, run[c], pc[c])
      BY <1>1, OfCall
    <2>2. pc[c] # "producer"
      BY <2>1 DEF SelectionOk
    <2>3. PICK model \in Models : ByModel(Subject(c, run[c]), model) /\ run[c].model # model
      BY <2>1, <2>2 DEF ReviewOk
    <2>4. Subject(c, run[c]) \in DOMAIN author
      <3>1. Subject(c, run[c]) \in Made
        BY <2>1 DEF ReviewOk, Subject
      <3>2. author \in Seq(Calls \cup {None})
        BY <1>1 DEF AllInv, ControllerInv, TreesOk
      <3>3. DOMAIN author = 1..Len(author) /\ Len(author) \in Nat
        BY <3>2
      <3> HIDE DEF Subject
      <3> QED BY <3>1, <3>3 DEF Made
    <2> QED BY <2>3, <2>4 DEF ByModel
  <1> QED BY <1>1, ControllerInvAlways, PTL
===============================================================================
