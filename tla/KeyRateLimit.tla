---------------------------- MODULE KeyRateLimit ----------------------------
(***************************************************************************)
(* The request limit of one API key and one class of calls                  *)
(* (runAuthed in src/apps/web/src/api/access/handlers.ts).  A call reads     *)
(* the clock, writes its row into api_request_log, counts the rows of the    *)
(* window that ends with it, its own among them, and is refused when they    *)
(* are too many.  Calls run in several processes, whose clocks differ, and   *)
(* nothing is locked.                                                       *)
(***************************************************************************)
EXTENDS Integers, FiniteSets

CONSTANTS
    Requests,       \* calls, each happens once
    Limit, Window,  \* KEY_RATE_LIMITS
    LastTick        \* bound: what a clock may show

ASSUME RateAssumption ==
    /\ IsFiniteSet(Requests)
    /\ Limit \in Nat /\ Window \in Nat /\ LastTick \in Nat

VARIABLES
    rlCall,         \* calls: how far each one is, and its "now"
    rlLog           \* api_request_log: the calls that have a row

rlVars == <<rlCall, rlLog>>
-----------------------------------------------------------------------------
Ticks == 0 .. LastTick

RateCall == [pc: {"new", "insert", "count", "running", "done", "refused", "lost"},
             at: Ticks]

RateTypeOK ==
    /\ rlCall \in [Requests -> RateCall]
    /\ rlLog \subseteq Requests

RateInit ==
    /\ rlCall = [q \in Requests |-> [pc |-> "new", at |-> 0]]
    /\ rlLog = {}

RateGoto(q, pc) == rlCall' = [rlCall EXCEPT ![q].pc = pc]

\* deps.now(), by the clock of the process that answers
ReadClock(q, t) ==
    /\ rlCall[q].pc = "new"
    /\ rlCall' = [rlCall EXCEPT ![q] = [pc |-> "insert", at |-> t]]
    /\ UNCHANGED rlLog

InsertRequest(q) ==
    /\ rlCall[q].pc = "insert"
    /\ rlLog' = rlLog \cup {q}
    /\ RateGoto(q, "count")

\* countRequests: every row from the beginning of the window on, also rows
\* of calls that were refused or are still running.
RowsSince_Answered(t) ==
    {q \in rlLog : rlCall[q].at >= t /\ rlCall[q].pc \in {"done", "refused"}}
RowsSince(t) == {q \in rlLog : rlCall[q].at >= t}

CountRequests(q) == Cardinality(RowsSince(rlCall[q].at - Window))

Admit(q) ==
    /\ rlCall[q].pc = "count"
    /\ CountRequests(q) <= Limit
    /\ RateGoto(q, "running")
    /\ UNCHANGED rlLog

\* updateRequestStatus 429
Refuse(q) ==
    /\ rlCall[q].pc = "count"
    /\ CountRequests(q) > Limit
    /\ RateGoto(q, "refused")
    /\ UNCHANGED rlLog

\* The call has run; its status is stored.
Finish(q) ==
    /\ rlCall[q].pc = "running"
    /\ RateGoto(q, "done")
    /\ UNCHANGED rlLog

\* The process dies before the call is admitted; its row stays.
Lose(q) ==
    /\ rlCall[q].pc \in {"insert", "count"}
    /\ RateGoto(q, "lost")
    /\ UNCHANGED rlLog

RateNext ==
    \E q \in Requests :
        \/ \E t \in Ticks : ReadClock(q, t)
        \/ InsertRequest(q) \/ Admit(q) \/ Refuse(q) \/ Finish(q) \/ Lose(q)

RateSpec == RateInit /\ [][RateNext]_rlVars
-----------------------------------------------------------------------------
(* Properties                                                               *)

Admitted == {q \in Requests : rlCall[q].pc \in {"running", "done"}}
AdmittedIn(t) == {q \in Admitted : rlCall[q].at \in t .. t + Window}

\* In no window of time, wherever it begins, does a key get more calls through
\* than its limit, however the calls of several processes overlap and however
\* far their clocks are apart (runAuthed).
AdmittedWithinLimit == \A t \in Ticks : Cardinality(AdmittedIn(t)) <= Limit

=============================================================================
