--------------------------- MODULE Materialization ---------------------------
(* Create-only tables on MaybeAI (maybe_sheet/materialization.py) through the  *)
(* SDK (sdk/client.py materialize, reconcile_materialization).  A create is one*)
(* run of the provider's command line, whose answer may be lost while the      *)
(* request is executed now, later or never; the caller then asks again under   *)
(* the same key, or reconciles the reference it was given.  A created table is *)
(* read back by its identity before the answer says so, and others may edit or *)
(* delete it meanwhile.  The provider (its documents, keys and refusals) is    *)
(* outside the repository, and is what the code relies on.                     *)
EXTENDS Naturals, FiniteSets

CONSTANTS Clients,    \* SDK clients, each with its connector
          Keys,       \* idempotency keys
          Names,      \* table names of one document
          Contents,   \* portable frames: schema and rows
          Half,       \* what a create that failed midway leaves in its table
          None,
          MaxCalls,   \* bound: creates and reconciles
          MaxEdits    \* bound: edits and deletions by others

VARIABLES native,   \* per client: the cached answer of the probe
          tables,   \* provider: tables by identity (the call that made them)
          made,     \* provider: what each key created, and its revision then
          flight,   \* create requests sent and not executed
          call,     \* per client: the call in progress
          refs,     \* reconciliation references handed out
          log,      \* history: per call its request, answer and table
          held,     \* history: what each table has held
          edits     \* edits made

vars == <<native, tables, made, flight, call, refs, log, held, edits>>

Calls == 1..MaxCalls
Request == [n : Calls, key : Keys, name : Names, content : Contents]
Idle == [op |-> "idle", n |-> 0, key |-> None, name |-> None, content |-> None,
         step |-> "none", table |-> 0, revision |-> 0]
NoAnswer == [op |-> "none", key |-> None, content |-> None, answer |-> "none", table |-> 0]

\* Calls are numbered; one without an answer has NoAnswer.
Begun == Cardinality({n \in Calls : log[n] # NoAnswer})
Started(op, key, content) ==
  [log EXCEPT ![Begun + 1] = [op |-> op, key |-> key, content |-> content,
                              answer |-> "running", table |-> 0]]

\* probe_native_materialization: any failure counts as no, and is remembered.
ProbeNative(c, proved) ==
  /\ native[c] = "unknown"
  /\ native' = [native EXCEPT ![c] = IF proved THEN "yes" ELSE "no"]
  /\ UNCHANGED <<tables, made, flight, call, refs, log, held, edits>>

\* materialize: the frame becomes a portable request, the connector must
\* advertise the capability, and the command line is started.
CreateTable(c, key, name, content) ==
  /\ call[c] = Idle /\ Begun < MaxCalls /\ native[c] = "yes"
  /\ call' = [call EXCEPT ![c] = [op |-> "create", n |-> Begun + 1, key |-> key, name |-> name,
                                  content |-> content, step |-> "sent", table |-> 0, revision |-> 0]]
  /\ flight' = flight \cup {[n |-> Begun + 1, key |-> key, name |-> name, content |-> content]}
  /\ log' = Started("create", key, content)
  /\ UNCHANGED <<native, tables, made, refs, held, edits>>

-----------------------------------------------------------------------------
(* The provider.                                                             *)

\* The answer reaches the call if it still waits for it.
Waiting(req) == {c \in Clients : call[c].n = req.n /\ call[c].step = "sent"}
Reply(req, step, table, revision) ==
  [c \in Clients |-> IF c \in Waiting(req)
                     THEN [call[c] EXCEPT !.step = step, !.table = table, !.revision = revision]
                     ELSE call[c]]
Same(req) == made[req.key].name = req.name /\ made[req.key].content = req.content
Taken(name) == \E t \in Calls : tables[t].there /\ tables[t].name = name

\* A table is made, whole, or half with an error that says so.
Make(req, content, step) ==
  /\ made[req.key].table = 0 /\ ~Taken(req.name)
  /\ tables' = [tables EXCEPT ![req.n] = [there |-> TRUE, name |-> req.name, content |-> content,
                                          revision |-> 1]]
  /\ made' = [made EXCEPT ![req.key] = [table |-> req.n, name |-> req.name,
                                        content |-> req.content, revision |-> 1]]
  /\ held' = [held EXCEPT ![req.n] = {content}]
  /\ call' = Reply(req, step, req.n, 1)

\* A key that already made this table answers as it did then.
Again(req) ==
  /\ made[req.key].table # 0 /\ Same(req)
  /\ call' = Reply(req, "created", made[req.key].table, made[req.key].revision)
  /\ UNCHANGED <<tables, made, held>>

\* Refused before anything was done: name taken, key of another request,
\* schema or size.
Refuse(req) ==
  /\ call' = Reply(req, "refused", 0, 0)
  /\ made[req.key].table = 0 \/ ~Same(req)
  /\ UNCHANGED <<tables, made, held>>

Execute(req) ==
  /\ flight' = flight \ {req}
  /\ \/ Make(req, req.content, "created") \/ Make(req, Half, "partial")
     \/ Again(req) \/ Refuse(req)
     \/ call' = call /\ UNCHANGED <<tables, made, held>>
  /\ UNCHANGED <<native, refs, log, edits>>

\* Somebody edits or deletes a table by other means.
EditTable(t, content) ==
  /\ tables[t].there /\ edits < MaxEdits
  /\ edits' = edits + 1
  /\ tables' = [tables EXCEPT ![t].content = content, ![t].revision = @ + 1]
  /\ held' = [held EXCEPT ![t] = @ \cup {content}]
  /\ UNCHANGED <<native, made, flight, call, refs, log>>
DeleteTable(t) ==
  /\ tables[t].there /\ edits < MaxEdits
  /\ edits' = edits + 1
  /\ tables' = [tables EXCEPT ![t].there = FALSE]
  /\ UNCHANGED <<native, made, flight, call, refs, log, held>>

-----------------------------------------------------------------------------
(* Answers.                                                                  *)

Answer(c, answer, table) ==
  /\ log' = [log EXCEPT ![call[c].n].answer = answer, ![call[c].n].table = table]
  /\ call' = [call EXCEPT ![c] = Idle]

\* The operation identity: the target and the fingerprints of the frame.
Reference(c) == [key |-> call[c].key, name |-> call[c].name, content |-> call[c].content]

\* The process failed, timed out, or its answer is none the request could have.
Lose(c) ==
  /\ call[c].op = "create" /\ call[c].step \in {"sent", "created", "refused", "partial"}
  /\ Answer(c, "unknown", 0)
  /\ refs' = refs \cup {Reference(c)}
  /\ UNCHANGED <<native, tables, made, flight, held, edits>>

\* duplicate_name, idempotency_conflict, unsupported_schema, resource_limit,
\* each with pre_mutation.
Refused(c) ==
  /\ call[c].step = "refused"
  /\ Answer(c, "rejected", 0)
  /\ UNCHANGED <<native, tables, made, flight, refs, held, edits>>

Partial(c) ==
  /\ call[c].step = "partial"
  /\ Answer(c, "partial", call[c].table)
  /\ refs' = refs \cup {Reference(c)}
  /\ UNCHANGED <<native, tables, made, flight, held, edits>>

\* A variant: only the revision is compared with what is read back.
RevisionSame(c) == tables[call[c].table].revision = call[c].revision
\* The table read by its identity is the one created: same revision, and the
\* frame or, when reconciling, its fingerprints.
ReadBackSame(c) ==
  /\ tables[call[c].table].revision = call[c].revision
  /\ tables[call[c].table].content = call[c].content

\* The read back of a create or a reconcile; `read` says whether the table could
\* be read and decoded.
ReadBack(c, read) ==
  /\ call[c].step = "created" /\ (read => tables[call[c].table].there)
  /\ Answer(c, IF read /\ ReadBackSame(c) THEN "succeeded" ELSE "failed", call[c].table)
  /\ UNCHANGED <<native, tables, made, flight, refs, held, edits>>

-----------------------------------------------------------------------------
(* Reconciling a reference.                                                  *)

\* The reference must name this destination; then the provider is asked for the
\* table its key made.
Reconcile(c, ref, name) ==
  /\ call[c] = Idle /\ Begun < MaxCalls /\ native[c] = "yes"
  /\ log' = [Started("reconcile", ref.key, ref.content)
               EXCEPT ![Begun + 1].answer = IF ref.name = name THEN "running" ELSE "rejected"]
  /\ call' = IF ref.name = name
             THEN [call EXCEPT ![c] = [op |-> "reconcile", n |-> Begun + 1, key |-> ref.key,
                                       name |-> name, content |-> ref.content, step |-> "asked",
                                       table |-> 0, revision |-> 0]]
             ELSE call
  /\ UNCHANGED <<native, tables, made, flight, refs, held, edits>>

Found(c) ==
  /\ call[c].step = "asked" /\ made[call[c].key].table # 0
  /\ call' = [call EXCEPT ![c].step = "created", ![c].table = made[call[c].key].table,
                          ![c].revision = made[call[c].key].revision]
  /\ UNCHANGED <<native, tables, made, flight, refs, log, held, edits>>

\* Nothing found, or the provider cannot be asked.
Unavailable(c) ==
  /\ call[c].step = "asked"
  /\ Answer(c, "unknown", 0)
  /\ UNCHANGED <<native, tables, made, flight, refs, held, edits>>

Init ==
  /\ native = [c \in Clients |-> "unknown"]
  /\ tables = [t \in Calls |-> [there |-> FALSE, name |-> None, content |-> None, revision |-> 0]]
  /\ made = [k \in Keys |-> [table |-> 0, name |-> None, content |-> None, revision |-> 0]]
  /\ flight = {} /\ refs = {} /\ edits = 0
  /\ call = [c \in Clients |-> Idle]
  /\ log = [n \in Calls |-> NoAnswer]
  /\ held = [t \in Calls |-> {}]

Next ==
  \/ \E c \in Clients :
       \/ \E proved \in BOOLEAN : ProbeNative(c, proved)
       \/ \E key \in Keys, name \in Names, content \in Contents : CreateTable(c, key, name, content)
       \/ Lose(c) \/ Refused(c) \/ Partial(c) \/ Found(c) \/ Unavailable(c)
       \/ \E read \in BOOLEAN : ReadBack(c, read)
       \/ \E ref \in refs, name \in Names : Reconcile(c, ref, name)
  \/ \E req \in flight : Execute(req)
  \/ \E t \in Calls : DeleteTable(t) \/ \E content \in Contents : EditTable(t, content)

Spec == Init /\ [][Next]_vars

\* A success means that the key made the table, that the table held the frame
\* that was asked for, and that it is the only table of the key; a rejected
\* create made none and will make none, however late its request arrives; a
\* failed or partial call did make a table (materialization.py create_table,
\* reconcile_materialization).
MaterializedIsTrue ==
  \A n \in Calls :
    /\ log[n].answer = "succeeded" =>
         /\ made[log[n].key].table = log[n].table
         /\ log[n].content \in held[log[n].table]
    /\ log[n].op = "create" /\ log[n].answer = "rejected" =>
         /\ held[n] = {} /\ \A req \in flight : req.n # n
    /\ log[n].answer \in {"failed", "partial"} =>
         /\ made[log[n].key].table = log[n].table /\ log[n].table # 0
=============================================================================
