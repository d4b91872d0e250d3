-------------------------- MODULE ConnectorProcess --------------------------
(***************************************************************************)
(* The connector process (packages/process): one reader thread takes       *)
(* frames from standard input, answers HELLO and CANCEL itself and hands   *)
(* every other operation to a pool of worker threads behind a bounded      *)
(* semaphore.  Message ids are remembered in a bounded window, a CANCEL    *)
(* marks its session in the server and, through a callback, in the         *)
(* handler, and each operation looks at both marks before and after the    *)
(* effect it has on the store.                                             *)
(*                                                                         *)
(* What a frame carries is abstracted to the operation, the session and    *)
(* the message id; versions, capabilities, credentials and payloads are    *)
(* the reasons for which a request may be refused.                         *)
(***************************************************************************)
EXTENDS Integers, FiniteSets, SequencesExt

CONSTANTS
    Request,       \* the frames a peer may send
    Session,       \* session ids
    Message,       \* message ids
    MaxMessages,   \* max_completed_messages, 4096 in the code
    MaxPending,    \* max_pending_requests, 8 in the code
    Workers,       \* threads of the pool, 4 in the code
    None           \* no frame yet, no answer yet

Form == [op : {"hello", "cancel", "operate"}, session : Session, message : Message]
Idle == "idle"
Closed == "closed"

ASSUME ProcessAssumption ==
    /\ MaxMessages \in Nat \ {0}
    /\ MaxPending \in Nat \ {0}
    /\ Workers \in Nat \ {0}
    /\ None \notin Form \cup {"ok", "failed"}
    /\ Idle \notin Request
    /\ Closed \notin Request

VARIABLES
    reader,      \* the frame the reader thread is busy with, or Idle, or Closed
    slots,       \* permits left in the semaphore "pending"
    queue,       \* operations submitted to the pool and not yet taken
    messages,    \* the ids remembered, oldest first (OrderedDict _messages)
    bound,       \* sessions a HELLO has bound (_sessions)
    cancelled,   \* sessions cancelled in the server (_cancelled)
    aborted,     \* sessions cancelled in the handler (_cancelled_sessions)
    form,        \* what each frame asks for
    at,          \* how far each frame has come
    verdict,     \* what was decided about it
    sent,        \* the response written for it
    leases,      \* requests whose credential lease is not disposed of
    effects,     \* history: requests whose operation took effect
    told,        \* history: sessions whose CANCEL was answered "cancelled"
    late,        \* history: operations read after their session was in told
    overtaken    \* history: operations undecided when their session came in told

serverVars == <<messages, bound, cancelled>>
poolVars == <<reader, slots, queue>>
frameVars == <<form, at, verdict, sent>>
historyVars == <<effects, told, late, overtaken>>
vars == <<poolVars, serverVars, aborted, frameVars, leases, historyVars>>

Phase == {"unread", "waiting", "queued", "taken", "registered", "leased",
          "running", "performed", "returned", "failing", "aborting",
          "answering", "written", "done"}

Working == {"taken", "registered", "leased", "running", "performed",
            "returned", "failing", "aborting", "answering", "written"}
InFlight == {"registered", "leased", "running", "performed", "returned"}

TypeOK ==
    /\ reader \in Request \cup {Idle, Closed}
    /\ slots \in 0 .. MaxPending
    /\ queue \in Seq(Request)
    /\ messages \in Seq(Message)
    /\ bound \in SUBSET Session
    /\ cancelled \in SUBSET Session
    /\ aborted \in SUBSET Session
    /\ form \in [Request -> Form \cup {None}]
    /\ at \in [Request -> Phase]
    /\ verdict \in [Request -> {"ok", "failed", None}]
    /\ sent \in [Request -> {"ok", "failed", None}]
    /\ leases \in SUBSET Request
    /\ effects \in SUBSET Request
    /\ told \in SUBSET Session
    /\ late \in SUBSET Request
    /\ overtaken \in SUBSET Request

Init ==
    /\ reader = Idle
    /\ slots = MaxPending
    /\ queue = <<>>
    /\ messages = <<>>
    /\ bound = {} /\ cancelled = {} /\ aborted = {}
    /\ form = [r \in Request |-> None]
    /\ at = [r \in Request |-> "unread"]
    /\ verdict = [r \in Request |-> None]
    /\ sent = [r \in Request |-> None]
    /\ leases = {} /\ effects = {} /\ told = {} /\ late = {} /\ overtaken = {}

-----------------------------------------------------------------------------
(* Helpers.                                                                *)

Operates(r) == form[r] # None /\ form[r].op = "operate"
Held(s) == {s[i] : i \in 1 .. Len(s)}
GoTo(r, phase) == at' = [at EXCEPT ![r] = phase]
Decide(r, v) == verdict' = [verdict EXCEPT ![r] = v]

\* The threads of the pool that run a request.
Busy == {r \in Request : at[r] \in Working /\ Operates(r)}

\* A new id goes to the end and the oldest falls out of a full window.
Remember(m) ==
    LET longer == Append(messages, m)
    IN  messages' = IF Len(longer) > MaxMessages THEN Tail(longer) ELSE longer

\* A variant: the id of an operation that failed stays in the window.
DropNothing(m) == UNCHANGED messages

\* _messages.pop(message_id, None); the window holds an id once.
Drop(m) ==
    \/ m \notin Held(messages) /\ UNCHANGED messages
    \/ \E i \in DOMAIN messages : messages[i] = m /\ messages' = RemoveAt(messages, i)

-----------------------------------------------------------------------------
(* The reader thread.                                                      *)

\* A frame is read and decoded.  HELLO and CANCEL are handled at once by the
\* reader, anything else needs a permit first.
Read(r) ==
    /\ reader = Idle
    /\ at[r] = "unread"
    /\ \E f \in Form :
        /\ form' = [form EXCEPT ![r] = f]
        /\ GoTo(r, IF f.op = "operate" THEN "waiting" ELSE "taken")
        /\ late' = IF f.op = "operate" /\ f.session \in told THEN late \cup {r} ELSE late
    /\ reader' = r
    /\ UNCHANGED <<slots, queue, serverVars, aborted, verdict, sent, leases, effects, told, overtaken>>

\* pending.acquire() and workers.submit().
Submit(r) ==
    /\ at[r] = "waiting"
    /\ slots > 0
    /\ slots' = slots - 1
    /\ queue' = Append(queue, r)
    /\ GoTo(r, "queued")
    /\ reader' = Idle
    /\ UNCHANGED <<serverVars, aborted, form, verdict, sent, leases, historyVars>>

\* End of input, or a framing error: the loop is left and the pool drained.
Close ==
    /\ reader = Idle
    /\ reader' = Closed
    /\ UNCHANGED <<slots, queue, serverVars, aborted, frameVars, leases, historyVars>>

-----------------------------------------------------------------------------
(* ConnectorProcessServer.handle, on the reader or on a worker thread.     *)

\* A free worker takes the oldest submitted operation.
Take(r) ==
    /\ queue # <<>> /\ r = Head(queue)
    /\ Cardinality(Busy) < Workers
    /\ queue' = Tail(queue)
    /\ GoTo(r, "taken")
    /\ UNCHANGED <<reader, slots, serverVars, aborted, form, verdict, sent, leases, historyVars>>

\* A variant: only the ids of operations that were carried out count.
IsDuplicateOfDone(r) ==
    \E q \in Request : verdict[q] = "ok" /\ form[q].message = form[r].message

IsDuplicate(r) == form[r].message \in Held(messages)

\* An id of the window is refused; it stays with the request that used it.
Duplicate(r) ==
    /\ at[r] = "taken"
    /\ IsDuplicate(r)
    /\ GoTo(r, "answering")
    /\ Decide(r, "failed")
    /\ UNCHANGED <<poolVars, serverVars, aborted, form, sent, leases, historyVars>>

\* Under the state lock the id is recorded, and HELLO is answered.
HelloBinds(r) ==
    /\ form[r].op = "hello"
    /\ bound' = bound \cup {form[r].session}
    /\ GoTo(r, "answering")
    /\ Decide(r, "ok")
    /\ UNCHANGED cancelled

\* Its connector, a version or a capability does not match.
HelloRefused(r) ==
    /\ form[r].op = "hello"
    /\ GoTo(r, "answering")
    /\ Decide(r, "failed")
    /\ UNCHANGED <<bound, cancelled>>

\* It names no target session: refused, after its id was recorded.
CancelRefused(r) ==
    /\ form[r].op = "cancel"
    /\ GoTo(r, "answering")
    /\ Decide(r, "failed")
    /\ UNCHANGED <<bound, cancelled>>

\* CANCEL of a session nobody bound changes nothing.
CancelUnknown(r) ==
    /\ form[r].op = "cancel"
    /\ form[r].session \notin bound
    /\ GoTo(r, "answering")
    /\ Decide(r, "ok")
    /\ UNCHANGED <<bound, cancelled>>

CancelMarks(r) ==
    /\ form[r].op = "cancel"
    /\ form[r].session \in bound
    /\ cancelled' = cancelled \cup {form[r].session}
    /\ GoTo(r, "aborting")
    /\ Decide(r, "ok")
    /\ UNCHANGED bound

OperationAdmitted(r) ==
    /\ form[r].op = "operate"
    /\ GoTo(r, "registered")
    /\ UNCHANGED <<bound, cancelled, verdict>>

Register(r) ==
    /\ at[r] = "taken"
    /\ ~ IsDuplicate(r)
    /\ Remember(form[r].message)
    /\ \/ HelloBinds(r)
       \/ HelloRefused(r)
       \/ CancelRefused(r)
       \/ CancelUnknown(r)
       \/ CancelMarks(r)
       \/ OperationAdmitted(r)
    /\ UNCHANGED <<poolVars, aborted, form, sent, leases, historyVars>>

\* abort_session runs outside the lock.  It is optional in a handler and may
\* raise; the response then says callback_failed and is a success all the same.
AbortSession(r) ==
    /\ at[r] = "aborting"
    /\ aborted' \in {aborted, aborted \cup {form[r].session}}
    /\ GoTo(r, "answering")
    /\ UNCHANGED <<poolVars, serverVars, form, verdict, sent, leases, historyVars>>

-----------------------------------------------------------------------------
(* _dispatch and the handler, on a worker thread.                          *)

\* A variant: the mark of the server is not looked at.
AliveIfBound(r) == form[r].session \in bound

Alive(r) == form[r].session \in bound \ cancelled

\* The session is looked up, connector and capabilities are verified, and
\* the credential is leased.
Authorize(r) ==
    /\ at[r] = "registered"
    /\ Alive(r)
    /\ leases' = leases \cup {r}
    /\ GoTo(r, "leased")
    /\ UNCHANGED <<poolVars, serverVars, aborted, form, verdict, sent, historyVars>>

\* Cancelled or unknown session, another connector, a capability that was
\* not negotiated, or a credential reference that is not authorized.
Unauthorized(r) ==
    /\ at[r] = "registered"
    /\ GoTo(r, "failing")
    /\ UNCHANGED <<poolVars, serverVars, aborted, form, verdict, sent, leases, historyVars>>

\* What the handler's two checks look at.
HandlerSeesCancel(r) == form[r].session \in aborted

\* A variant: disposed of only when the handler returns.
DisposeReturned(r) == leases' = IF at[r] = "performed" THEN leases \ {r} ELSE leases

\* finally: lease.dispose()
Dispose(r) == leases' = leases \ {r}

\* TemporalProcessHandler.handle, before its operation.
Enter(r) ==
    /\ at[r] = "leased"
    /\ \/ /\ HandlerSeesCancel(r)
          /\ GoTo(r, "failing")
          /\ Dispose(r)
       \/ /\ ~ HandlerSeesCancel(r)
          /\ GoTo(r, "running")
          /\ UNCHANGED leases
    /\ UNCHANGED <<poolVars, serverVars, aborted, form, verdict, sent, historyVars>>

\* The operation takes effect in its store and returns,
Perform(r) ==
    /\ at[r] = "running"
    /\ effects' = effects \cup {r}
    /\ GoTo(r, "performed")
    /\ UNCHANGED <<poolVars, serverVars, aborted, form, verdict, sent, leases, told, late, overtaken>>

\* or it raises, with or without having taken effect.
PerformFails(r) ==
    /\ at[r] = "running"
    /\ effects' \in {effects, effects \cup {r}}
    /\ GoTo(r, "failing")
    /\ Dispose(r)
    /\ UNCHANGED <<poolVars, serverVars, aborted, form, verdict, sent, told, late, overtaken>>

\* TemporalProcessHandler.handle, after its operation.
Leave(r) ==
    /\ at[r] = "performed"
    /\ GoTo(r, IF HandlerSeesCancel(r) THEN "failing" ELSE "returned")
    /\ Dispose(r)
    /\ UNCHANGED <<poolVars, serverVars, aborted, form, verdict, sent, historyVars>>

\* A variant: the mark is not looked at again after the operation.
ConcludeUnchecked(r) ==
    /\ at[r] = "returned"
    /\ GoTo(r, "answering")
    /\ Decide(r, "ok")
    /\ UNCHANGED <<poolVars, serverVars, aborted, form, sent, leases, historyVars>>

\* Under the lock: a result completed after the cancellation is discarded.
Conclude(r) ==
    /\ at[r] = "returned"
    /\ \/ /\ form[r].session \in cancelled
          /\ GoTo(r, "failing")
          /\ UNCHANGED verdict
       \/ /\ form[r].session \notin cancelled
          /\ GoTo(r, "answering")
          /\ Decide(r, "ok")
    /\ UNCHANGED <<poolVars, serverVars, aborted, form, sent, leases, historyVars>>

\* Under the lock: the id of an operation that failed may be used again.
Forget(r) ==
    /\ at[r] = "failing"
    /\ Drop(form[r].message)
    /\ GoTo(r, "answering")
    /\ Decide(r, "failed")
    /\ UNCHANGED <<poolVars, bound, cancelled, aborted, form, sent, leases, historyVars>>

-----------------------------------------------------------------------------
(* The response.                                                           *)

Undecided(s) == {r \in Request : Operates(r) /\ form[r].session = s /\ verdict[r] = None}

\* A result that cannot be serialised is answered as a failure.
Write(r) ==
    /\ at[r] = "answering"
    /\ \E answer \in {verdict[r], "failed"} :
        /\ sent' = [sent EXCEPT ![r] = answer]
        /\ answer # verdict[r] => Operates(r)
    /\ IF form[r].op = "cancel" /\ verdict[r] = "ok" /\ form[r].session \in cancelled
       THEN /\ told' = told \cup {form[r].session}
            /\ overtaken' = overtaken \cup Undecided(form[r].session)
       ELSE UNCHANGED <<told, overtaken>>
    /\ GoTo(r, IF Operates(r) THEN "written" ELSE "done")
    /\ reader' = IF Operates(r) THEN reader ELSE Idle
    /\ UNCHANGED <<slots, queue, serverVars, aborted, form, verdict, leases, effects, late>>

\* A variant: the permit of an operation that failed is not given back.
ReleaseOnSuccess(r) ==
    /\ at[r] = "written"
    /\ slots' = IF sent[r] = "ok" THEN slots + 1 ELSE slots
    /\ GoTo(r, "done")
    /\ UNCHANGED <<reader, queue, serverVars, aborted, form, verdict, sent, leases, historyVars>>

\* The done callback of the future gives the permit back.
Release(r) ==
    /\ at[r] = "written"
    /\ slots' = slots + 1
    /\ GoTo(r, "done")
    /\ UNCHANGED <<reader, queue, serverVars, aborted, form, verdict, sent, leases, historyVars>>

-----------------------------------------------------------------------------

Handle(r) ==
    \/ Submit(r) \/ Take(r)
    \/ Duplicate(r) \/ Register(r) \/ AbortSession(r)
    \/ Authorize(r) \/ Unauthorized(r)
    \/ Enter(r) \/ Perform(r) \/ PerformFails(r) \/ Leave(r)
    \/ Conclude(r) \/ Forget(r)
    \/ Write(r) \/ Release(r)

\* The process ends when the input is closed and the pool has drained.
Exited ==
    /\ reader = Closed
    /\ \A r \in Request : at[r] \in {"unread", "done"}
    /\ UNCHANGED vars

Next ==
    \/ \E r \in Request : Read(r) \/ Handle(r)
    \/ Close
    \/ Exited

Spec == Init /\ [][Next]_vars

\* Threads that can run do run, and a handler's operation returns or raises.
FairSpec == Spec /\ \A r \in Request : WF_vars(Handle(r))
-----------------------------------------------------------------------------
(* Properties.                                                             *)

\* Every permit is free or belongs to an operation that was submitted and is
\* not finished, and no credential lease outlives the answer of its request: no
\* failure leaks one, so the reader never starves.
Submitted == {r \in Request : Operates(r) /\ at[r] \notin {"unread", "waiting", "done"}}
ResourcesComeBack ==
    /\ slots + Cardinality(Submitted) = MaxPending
    /\ \A r \in leases : sent[r] = None

\* An operation that was read after the CANCEL of its session had been
\* answered has no effect on a store.
LateOperationsHaveNoEffect == late \cap effects = {}

\* An operation that was undecided when its session's CANCEL was answered, or
\* was read later, is never answered as a success.
CancelledResultsDiscarded == \A r \in late \cup overtaken : sent[r] # "ok"

\* A message id is not executed twice at the same time, as long as the window
\* has not been filled; after that the oldest id is forgotten, although its
\* operation may still run.
WindowNeverFilled ==
    Cardinality({form[r].message : r \in {q \in Request : form[q] # None}}) <= MaxMessages
NoTwinInFlight ==
    WindowNeverFilled => \A r, q \in Request :
        /\ at[r] \in InFlight /\ at[q] \in InFlight
        /\ form[r].message = form[q].message
        => r = q

\* An id stays taken only for an operation in flight, for one that was carried
\* out, or for a HELLO or CANCEL, which keep theirs also when they are refused:
\* an operation that failed can be retried under its own id as soon as its
\* answer is read.
Owns(r, m) ==
    /\ form[r] # None /\ form[r].message = m
    /\ at[r] \in InFlight \cup {"failing"} \/ verdict[r] = "ok"
HeldIdsHaveOwners ==
    \A m \in Held(messages) : \E r \in Request :
        \/ Owns(r, m)
        \/ form[r] # None /\ form[r].message = m /\ form[r].op \in {"hello", "cancel"}

\* Every frame that was read is answered, and its permit comes back.
EveryFrameIsAnswered ==
    \A r \in Request : at[r] # "unread" ~> at[r] = "done" /\ sent[r] # None

\* A cancelled operation has no effect if it had not begun, and no result after
\* its CANCEL was handled (process/server.py _cancel, _dispatch).
CancelIsFinal == LateOperationsHaveNoEffect /\ CancelledResultsDiscarded

\* A message id has one operation in flight, and only such an operation holds
\* it (process/server.py __call__, _hello).
IdsAreExact == NoTwinInFlight /\ HeldIdsHaveOwners
=============================================================================
