---------------------------- MODULE ReviewAgents ----------------------------
(***************************************************************************)
(* One review inside the orchestrator (app/ai/orchestrator.py): the        *)
(* organisation's agents and the conflict scan call the model provider in  *)
(* parallel through the process's thread pool, each with a time window,    *)
(* one retry after a timeout and a chain of fallback models                *)
(* (app/ai/agent.py); the answers are merged, stored and held against the  *)
(* previous version's findings (app/routers/reviews.py).                   *)
(*                                                                         *)
(* A timeout gives up waiting, but a call that a thread has begun goes on  *)
(* in that thread.  The deterministic scans never fail and find the same   *)
(* every time; they are left out.  Findings are told apart by issue.       *)
(***************************************************************************)
EXTENDS Naturals, Sequences, FiniteSets, SequencesExt

CONSTANTS
    Agents,      \* the reviewers the orchestrator knows
    Conflict,    \* the contradiction scan, a caller of its own
    Issues,      \* what findings are matched on
    Models,      \* length of the model chain: the primary and its fallbacks
    PoolSize     \* threads of the default executor

ASSUME ChainAssumption == Models \in Nat \ {0} /\ PoolSize \in Nat \ {0}
ASSUME CallerAssumption == IsFiniteSet(Agents) /\ Conflict \notin Agents

Callers == Agents \cup {Conflict}
OnceMore(c) == 3
Attempts(c) == IF c = Conflict THEN 1 ELSE 2
Calls == Callers \X (1..2) \X (1..Models)

VARIABLES
    agent,    \* agent[c]: the coroutine of a caller
    queue,    \* calls waiting for a thread, first come first served
    running,  \* calls a thread is executing, waited for or not
    review,   \* the stored review, and the verdicts on the previous version
    given_up, \* history: calls whose window closed before they were answered
    heard     \* history: what callers reported in answers to other calls

vars == <<agent, queue, running, review, given_up, heard>>

Outcomes == {"none", "answered", "raw", "malformed", "error", "timeout"}
Agent == [pc : {"off", "calling", "done"}, attempt : 1..2, model : 1..Models,
          raw : BOOLEAN, outcome : Outcomes, found : SUBSET Issues]
Review == [status : {"running", "completed", "failed"},
           found : [Issues -> SUBSET Callers],
           models_used : SUBSET Agents,
           verdict : [Issues -> {"none", "verified", "still_present"}]]

Coroutine(pc) == [pc |-> pc, attempt |-> 1, model |-> 1, raw |-> FALSE,
                  outcome |-> "none", found |-> {}]
Live(c) == <<c, agent[c].attempt, agent[c].model>>
Waiting(c) == agent[c].pc = "calling"

\* The organisation may have switched off any agent, and the conflict scan.
Init ==
    \E active \in SUBSET Callers :
        /\ agent = [c \in Callers |->
                        Coroutine(IF c \in active THEN "calling" ELSE "off")]
        /\ queue = SetToSeq({<<c, 1, 1>> : c \in active})
        /\ running = {} /\ given_up = {} /\ heard = {}
        /\ review = [status |-> "running", found |-> [i \in Issues |-> {}],
                     models_used |-> {}, verdict |-> [i \in Issues |-> "none"]]

----------------------------------------------------------------------------
(* asyncio.to_thread *)

Send ==
    /\ queue # <<>> /\ Cardinality(running) < PoolSize
    /\ running' = running \cup {Head(queue)}
    /\ queue' = Tail(queue)
    /\ UNCHANGED <<agent, review, given_up, heard>>

\* The caller ends with an outcome.
Ends(c, outcome, found) ==
    /\ agent' = [agent EXCEPT ![c].pc = "done", ![c].outcome = outcome,
                              ![c].found = found]
    /\ UNCHANGED queue

\* The chain: on an error or an answer that does not parse, the next model;
\* after the last, the raw text if some model gave one, else the error.
NextModel(c, raw) ==
    IF agent[c].model < Models
    THEN /\ agent' = [agent EXCEPT ![c].model = @ + 1, ![c].raw = raw]
         /\ queue' = Append(queue, <<c, agent[c].attempt, agent[c].model + 1>>)
    ELSE Ends(c, IF raw THEN "raw" ELSE "error", {})

AnyOfCaller(call) == Waiting(call[1])
\* The awaiting coroutine takes the answer of its current call and no other.
Awaited(call) == Waiting(call[1]) /\ call = Live(call[1])

Answer(call, kind, found) ==
    LET c == call[1]
    IN  /\ call \in running
        /\ running' = running \ {call}
        /\ IF ~Awaited(call) THEN UNCHANGED <<agent, queue>>
           ELSE \/ kind \in {"answered", "malformed"} /\ Ends(c, kind, found)
                \/ kind = "raw" /\ NextModel(c, TRUE)
                \/ kind = "error" /\ NextModel(c, agent[c].raw)
        /\ heard' = IF kind = "answered" /\ call \notin given_up
                    THEN heard \cup {c} \X found ELSE heard
        /\ UNCHANGED <<review, given_up>>

NoWindow(c) == c # Conflict
Window(c) == TRUE

LeftQueued(c) == queue
Cancelled(c) == RemoveFirst(queue, Live(c))

\* asyncio.wait_for gives up: a call no thread has begun is cancelled, one that
\* runs is abandoned.  An agent tries once more, from the head of the chain.
Timeout(c) ==
    /\ Waiting(c) /\ Window(c)
    /\ given_up' = given_up \cup {Live(c)}
    /\ IF agent[c].attempt < Attempts(c)
       THEN /\ agent' = [agent EXCEPT ![c] = [Coroutine("calling") EXCEPT
                                                !.attempt = agent[c].attempt + 1]]
            /\ queue' = Append(Cancelled(c), <<c, agent[c].attempt + 1, 1>>)
       ELSE /\ agent' = [agent EXCEPT ![c].pc = "done", ![c].outcome = "timeout"]
            /\ queue' = Cancelled(c)
    /\ UNCHANGED <<running, review, heard>>

----------------------------------------------------------------------------
(* gather, _merge_findings and the rest of trigger_review *)

Reporters(i) == {c \in Callers : agent[c].outcome = "answered" /\ i \in agent[c].found}

\* Findings that are not a list of objects raise while they are merged.
Unmergeable == \E a \in Agents : agent[a].outcome = "malformed"

\* models_used of audit_meta: every result without an error.
Answered == {a \in Agents : agent[a].outcome \in {"answered", "raw"}}

\* The orchestrator's own verdict (success, partial, failed) is not consulted.
Finish ==
    /\ review.status = "running"
    /\ \A c \in Callers : agent[c].pc # "calling"
    /\ review' =
         IF Unmergeable THEN [review EXCEPT !.status = "failed"]
         ELSE [status |-> "completed",
               found |-> [i \in Issues |-> Reporters(i)],
               models_used |-> Answered,
               verdict |-> [i \in Issues |-> IF Reporters(i) = {} THEN "verified"
                                             ELSE "still_present"]]
    /\ UNCHANGED <<agent, queue, running, given_up, heard>>

\* A thread left over from an earlier review is all that moves after the end.
Next ==
    \/ Send
    \/ \E call \in running, found \in SUBSET Issues :
        \E kind \in {"answered", "malformed", "raw", "error"} : Answer(call, kind, found)
    \/ \E c \in Callers : Timeout(c)
    \/ Finish

Spec == Init /\ [][Next]_vars
\* Timers fire and the event loop goes on; nothing is assumed of the provider.
FairSpec == Spec /\ WF_vars(Finish) /\ \A c \in Callers : WF_vars(Timeout(c))

----------------------------------------------------------------------------
\* The stages of the code: no caller gets a third window, nor goes past the end
\* of the model chain.
TypeOK ==
    /\ agent \in [Callers -> Agent]
    /\ queue \in Seq(Calls) /\ running \in SUBSET Calls
    /\ review \in Review
    /\ given_up \in SUBSET Calls /\ heard \in SUBSET (Callers \X Issues)

\* However answers, timeouts and retries interleave, a completed review holds
\* exactly what its agents reported within a window: no answer of a slow call
\* that was given up slips in, and none that came in time is lost to another
\* agent's failure.
OnlyTimelyAnswers ==
    review.status = "completed" =>
        \A i \in Issues : review.found[i] = {c \in Callers : <<c, i>> \in heard}

\* Threads go to calls somebody waits for: who waits has its call in the queue
\* or in a thread, nothing given up is left in the queue, and a thread nobody
\* waits for runs a call that it had begun when the window closed.  The rest
\* would let the retries of one slow agent take the pool from the others, or
\* spend an agent's window on a call that is never made.
ThreadsServeTheWaiting ==
    /\ \A c \in Callers : Waiting(c) => Live(c) \in ToSet(queue) \cup running
    /\ ToSet(queue) \cap given_up = {}
    /\ \A call \in running : Awaited(call) \/ call \in given_up

\* The review ends even if the provider never answers and no thread is free.
ReviewEnds == <>(review.status # "running")
============================================================================
