----------------------------- MODULE MCController -----------------------------
(***************************************************************************)
(* Instance for TLC: three calls at most, over one or two tasks, in the    *)
(* combinations that meet: productions and a review of what they left, a   *)
(* task that is continued, a task that asks for the primary provider.      *)
(***************************************************************************)
EXTENDS Controller

CONSTANTS c1, c2, c3, t1, t2, m1, m2, m3

MCCalls == {c1, c2, c3}
MCTasks == {t1, t2}
MCModels == {m1, m2, m3}
MCRegistry == [m \in MCModels |-> IF m = m3 THEN "stale" ELSE "current"]

Request(task, mode, phase, target, fresh, issue) ==
    [task |-> task, mode |-> mode, phase |-> phase, target |-> target, fresh |-> fresh, issue |-> issue,
     override |-> None]
Overridden(req, model) == [req EXCEPT !.override = model]

Free1(phase) == Request(t1, "openrouter-free", phase, None, FALSE, FALSE)
Review(target) == Request(t1, "openrouter-free", "review", target, TRUE, FALSE)
Primary(mode, task, issue) == Request(task, mode, "build", None, FALSE, issue)

Of(a, b, c) == [call \in MCCalls |-> CASE call = c1 -> a [] call = c2 -> b [] OTHER -> c]
Given(plan, requests) == [request |-> requests, plan |-> plan]
Approved == [status |-> "APPROVED", bytes |-> 0]
Proposed == [status |-> "PROPOSED", bytes |-> 0]

MCSituations ==
    {\* two productions of a plan and its review
     Given(None, Of(Overridden(Free1("plan"), m1), Free1("plan"), Review("plan"))),
     \* builds and the review
     Given(Approved, Of(Overridden(Free1("build"), m1), Free1("build"), Review("implementation"))),
     \* a build that is published, a role that differs, the review
     Given(Approved, Of([Overridden(Free1("build"), m1) EXCEPT !.issue = TRUE], Overridden(Free1("general"), m1),
                        Review("implementation"))),
     \* a task that is continued and published, and another task
     Given(None, Of(Free1("general"), [Free1("general") EXCEPT !.issue = TRUE], None)),
     Given(None, Of(Free1("general"), [Overridden(Free1("plan"), m1) EXCEPT !.task = t2, !.issue = TRUE], None)),
     \* the primary provider, asked for or looked for
     Given(None, Of(Primary("auto", t1, TRUE), None, None)),
     Given(None, Of(Primary("primary", t1, FALSE), None, None)),
     \* overrides
     Given(Proposed, Of(Overridden(Free1("plan"), m1), Overridden(Free1("build"), m3),
                        Overridden(Review("plan"), m1)))}

Record(model) == [id |-> model, passes |-> Gates]
Priced(model) == [id |-> model, passes |-> Gates \ {"zero pricing"}]

MCCatalogs ==
    {<<Record(m3), Record(m1), Record(m2)>>, <<Priced(m1), Record(m2)>>}

Account(type, requires, plan) == [type |-> type, requires |-> requires, plan |-> plan]
MCAccounts ==
    {Account("chatgpt", TRUE, "plus"), Account("chatgpt", TRUE, "free"), Account("apiKey", TRUE, "none")}

Rate(reached, spend, primary, secondary) ==
    [codex |-> TRUE, reached |-> reached, spend |-> spend, primary |-> primary, secondary |-> secondary]
MCRates ==
    {Rate("no", "clear", "below", "absent"), Rate("no", "clear", "below", "full"),
     Rate("documented", "clear", "below", "absent"), Rate("no", "absent", "below", "below")}
===============================================================================
