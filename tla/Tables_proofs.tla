----------------------------- MODULE Tables_proofs -----------------------------
(***************************************************************************)
(* The safety of the tables: of PortableTables, for any calls,             *)
(* destinations, keys and contents, and any writes by other programs; and  *)
(* of TableStore, for any contexts, tasks, tables, transactions and writes. *)
(*                                                                         *)
(* What a call of PortableTables knows when it acts was decided several    *)
(* steps earlier, so Inv says what each phase may still rely on: the       *)
(* index's lock keeps records and index as they were read, the link and    *)
(* the comparison of revisions do so for the tables.                       *)
(*                                                                         *)
(* For TableStore, StoreInv ties a write's answer to where its rows are:   *)
(* in the connection that a context, or several of one thread, may still   *)
(* commit, in the table, or dropped by a write that took note of them.     *)
(* Each kind of step is proved once: a call begins (CallBegins), a         *)
(* statement goes on (SkipHolds), drops or creates (DdlHolds), adds rows   *)
(* or fails (EndsHold), a connection ends (ClosingHolds).                  *)
(***************************************************************************)
EXTENDS PortableTables, TableStore, FiniteSetTheorems, TLAPS

Inside == Held \ {"opened"}

\* A call has a request from its beginning and an answer only at its end.
Begun ==
    \A c \in Call :
        /\ phase[c] # "idle" => request[c] \in Request
        /\ phase[c] # "done" => answer[c] = None

Exclusive ==
    \A c, d \in Call : phase[c] \in Inside /\ phase[d] \in Inside => c = d

\* A worksheet that was absent is absent as long as its workbook is the same.
Absent ==
    \A c \in Call : phase[c] = "publishing" =>
        /\ seen[c] <= revision
        /\ T(c) \in Sheet /\ revision = seen[c] => table[T(c)] = None

Unrecorded ==
    \A c \in Call :
        phase[c] \in {"publishing", "checking", "recording"} => record[T(c)] = None

OwnRecord ==
    \A c \in Call :
        phase[c] \in {"indexing", "replacing", "reading"} => record[T(c)] = E(c)

Indexed ==
    /\ \A r \in index : record[r.table] = [key |-> r.key, body |-> r.body]
    /\ \A c \in Call : phase[c] = "replacing" => copy[c] = index

\* What is about to be recorded is there.
Present ==
    \A c \in Call : phase[c] \in {"checking", "recording"} =>
        /\ table[T(c)] # None
        /\ phase[c] = "recording" /\ foreign[T(c)] = 0 => table[T(c)] = B(c)

RecordsAreTrue ==
    \A t \in Table : record[t] # None =>
        /\ table[t] # None
        /\ foreign[t] = 0 => table[t] = record[t].body

\* A call that published has gone on, and only for a file does it come back to
\* read what it published.
Owned ==
    \A t \in Table, c \in Call : creator[t] = c =>
        /\ phase[c] \notin {"idle", "opened", "locked", "publishing"}
        /\ phase[c] = "reading" => t \notin Sheet
        /\ t = T(c)

Inv ==
    /\ TypeOK /\ Begun /\ Exclusive
    /\ Absent /\ Unrecorded /\ OwnRecord /\ Indexed /\ Present
    /\ RecordsAreTrue /\ Owned
    /\ AnswersAreTrue

-----------------------------------------------------------------------------
(* Types.                                                                  *)

\* Who has begun asks for one of the tables.
LEMMA RequestTypes ==
  ASSUME Begun, NEW c \in Call, phase[c] # "idle"
  PROVE  /\ request[c] \in Request
         /\ T(c) \in Table /\ B(c) \in Body /\ E(c) \in Entry
  BY DEF Begun, Request, Entry, T, B, E

\* The answers of a handler are answers.
LEMMA AnswersTyped ==
  ASSUME TypeOK, NEW c \in Call, NEW a \in Answer, Answers(c, a)
  PROVE  /\ answer' \in [Call -> Answer \cup {None}]
         /\ phase' \in [Call -> Held \cup {"idle", "done", "dead"}]
         /\ seen' \in [Call -> Nat]
         /\ copy' \in [Call -> SUBSET Request]
  BY DEF TypeOK, Answers, Leaves, Goes

\* Every step keeps the types.
LEMMA TypeNext == TypeOK /\ Begun /\ [Next]_vars => TypeOK'
<1> SUFFICES ASSUME TypeOK, Begun, [Next]_vars PROVE TypeOK'
  OBVIOUS
<1>1. CASE UNCHANGED vars
  BY <1>1 DEF vars, files, local, TypeOK
<1>2. ASSUME NEW c \in Call, Begin(c) \/ Lock(c) \/ Crash(c) PROVE TypeOK'
  BY <1>2 DEF Begin, Lock, Crash, Goes, Leaves, files, local, TypeOK, Held
<1>3. ASSUME NEW c \in Call, Replay(c) \/ Inspect(c) \/ InspectFails(c) PROVE TypeOK'
  BY <1>3 DEF Replay, Inspect, InspectFails, Continues, Answers, Leaves, Goes, files, TypeOK, Held,
     Answer, NotStarted
<1>4. ASSUME NEW c \in Call, Publish(c) \/ PublishUnclean(c) PROVE TypeOK'
  <2>1. phase[c] # "idle" /\ Puts(c)
    BY <1>4 DEF Publish, PublishUnclean
  <2>2. /\ table' \in [Table -> Body \cup {Foreign, None}]
        /\ revision' \in Nat
        /\ creator' \in [Table -> Call \cup {None}]
    BY <2>1, RequestTypes DEF Puts, TypeOK
  <2>3. QED
    BY <1>4, <2>2 DEF Publish, PublishUnclean, Answers, Leaves, Goes, local, TypeOK, Held, Answer
<1>5. ASSUME NEW c \in Call, PublishLate(c) \/ PublishFails(c) \/ Check(c) PROVE TypeOK'
  BY <1>5 DEF PublishLate, PublishFails, Check, Continues, Answers, Leaves, Goes, files, TypeOK, Held,
     Answer, NotStarted
<1>6. ASSUME NEW c \in Call, Record(c) PROVE TypeOK'
  BY <1>6, RequestTypes DEF Record, Goes, local, TypeOK, Held
<1>7. ASSUME NEW c \in Call, ReadIndex(c) PROVE TypeOK'
  BY <1>7 DEF ReadIndex, Goes, files, TypeOK, Held
<1>8. ASSUME NEW c \in Call, WriteIndex(c) PROVE TypeOK'
  <2>1. index' \subseteq Request
    BY <1>8, RequestTypes DEF WriteIndex, TypeOK
  <2>2. QED
    BY <1>8, <2>1 DEF WriteIndex, Continues, Answers, Leaves, Goes, TypeOK, Held, Answer
<1>9. ASSUME NEW c \in Call, StoreFails(c) \/ IndexUnreadable(c) \/ ReadBack(c) PROVE TypeOK'
  BY <1>9 DEF StoreFails, IndexUnreadable, ReadBack, Answers, Leaves, Goes, files, TypeOK, Held,
     Answer, NotStarted
<1>10. ASSUME NEW t \in Table, Write(t) PROVE TypeOK'
  BY <1>10 DEF Write, local, TypeOK
<1>11. QED
  BY <1>1, <1>2, <1>3, <1>4, <1>5, <1>6, <1>7, <1>8, <1>9, <1>10 DEF Next, Step

-----------------------------------------------------------------------------
(* Locks and requests.                                                     *)

\* Most steps of a call touch nothing but the call.
Quiet(c) ==
    /\ UNCHANGED <<files, request, creator, foreign>>
    /\ \/ Lock(c) \/ Crash(c) \/ Replay(c) \/ Inspect(c) \/ InspectFails(c)
       \/ PublishLate(c) \/ PublishFails(c) \/ Check(c)
       \/ ReadIndex(c) \/ StoreFails(c) \/ IndexUnreadable(c) \/ ReadBack(c)

\* The steps, with the quiet ones together.
LEMMA Steps ==
  ASSUME NEW c \in Call, Step(c)
  PROVE  \/ Begin(c) \/ Quiet(c)
         \/ Publish(c) \/ PublishUnclean(c) \/ Record(c) \/ WriteIndex(c)
  BY DEF Step, Quiet, Lock, Crash, Replay, Inspect, InspectFails, PublishLate, PublishFails,
     Check, ReadIndex, StoreFails, IndexUnreadable, ReadBack, local

\* A step of a call leaves every other call where it was.
LEMMA OthersKeep ==
  ASSUME TypeOK, NEW c \in Call, Step(c), NEW d \in Call, d # c
  PROVE  /\ phase'[d] = phase[d] /\ request'[d] = request[d]
         /\ seen'[d] = seen[d] /\ copy'[d] = copy[d] /\ answer'[d] = answer[d]
<1>1. CASE Begin(c) \/ Lock(c) \/ Crash(c)
  BY <1>1 DEF Begin, Lock, Crash, Goes, Leaves, local, TypeOK
<1>2. CASE Replay(c) \/ Inspect(c) \/ InspectFails(c)
  BY <1>2 DEF Replay, Inspect, InspectFails, Continues, Answers, Leaves, Goes, TypeOK
<1>3. CASE Publish(c) \/ PublishUnclean(c)
  BY <1>3 DEF Publish, PublishUnclean, Answers, Leaves, Goes, local, TypeOK
<1>4. CASE PublishLate(c) \/ PublishFails(c) \/ Check(c)
  BY <1>4 DEF PublishLate, PublishFails, Check, Continues, Answers, Leaves, Goes, TypeOK
<1>5. CASE Record(c) \/ ReadIndex(c) \/ WriteIndex(c)
  BY <1>5 DEF Record, ReadIndex, WriteIndex, Continues, Answers, Leaves, Goes, local, TypeOK
<1>6. CASE StoreFails(c) \/ IndexUnreadable(c) \/ ReadBack(c)
  BY <1>6 DEF StoreFails, IndexUnreadable, ReadBack, Answers, Leaves, Goes, TypeOK
<1>7. QED
  BY <1>1, <1>2, <1>3, <1>4, <1>5, <1>6 DEF Step

\* Where a quiet step takes the call, and what it must have seen for that.
LEMMA QuietStep ==
  ASSUME TypeOK, NEW c \in Call, Quiet(c)
  PROVE  /\ phase[c] # "idle" /\ phase'[c] # "idle"
         /\ request'[c] = request[c]
         /\ phase'[c] \in Inside => phase[c] \in Inside \/ (phase[c] = "opened" /\ IndexFree)
         /\ phase'[c] # "opened"
         /\ phase'[c] = "publishing" =>
               /\ phase[c] = "locked" /\ record[T(c)] = None
               /\ table[T(c)] = None /\ seen'[c] = revision
         /\ phase'[c] = "checking" => FALSE
         /\ phase'[c] = "recording" =>
               /\ table[T(c)] = B(c)
               /\ phase[c] = "checking" \/ (phase[c] = "locked" /\ record[T(c)] = None)
         /\ phase'[c] = "indexing" => FALSE
         /\ phase'[c] = "replacing" => phase[c] = "indexing" /\ copy'[c] = index
         /\ phase'[c] = "reading" =>
               /\ phase[c] = "locked" /\ record[T(c)] # None
               /\ record[T(c)].key = request[c].key /\ record[T(c)].body = B(c)
         /\ phase'[c] = "locked" => phase[c] = "opened"
         /\ phase'[c] \in Held => answer'[c] = answer[c]
         /\ phase'[c] = "dead" => answer'[c] = answer[c]
<1>0. c \in DOMAIN phase /\ c \in DOMAIN answer /\ c \in DOMAIN seen /\ c \in DOMAIN copy
  BY DEF TypeOK
<1>1. request'[c] = request[c]
  BY DEF Quiet
<1>2. CASE Lock(c) \/ Crash(c)
  BY <1>0, <1>1, <1>2 DEF Lock, Crash, Goes, Leaves, Held, Inside, local
<1>3. CASE Replay(c) \/ Inspect(c) \/ InspectFails(c)
  BY <1>0, <1>1, <1>3 DEF Replay, Inspect, InspectFails, Knows, Continues, Answers, Leaves, Goes, Held, Inside
<1>4. CASE PublishLate(c) \/ PublishFails(c) \/ Check(c)
  BY <1>0, <1>1, <1>4 DEF PublishLate, PublishFails, Check, Continues, Answers, Leaves, Goes, Held, Inside
<1>5. CASE ReadIndex(c)
  BY <1>0, <1>1, <1>5 DEF ReadIndex, Goes, Held, Inside
<1>6. CASE StoreFails(c) \/ IndexUnreadable(c) \/ ReadBack(c)
  BY <1>0, <1>1, <1>6 DEF StoreFails, IndexUnreadable, ReadBack, Answers, Leaves, Goes, Held, Inside
<1>7. QED
  BY <1>2, <1>3, <1>4, <1>5, <1>6 DEF Quiet

-----------------------------------------------------------------------------
(* The parts of the invariant, for a step of a call.                       *)

\* Requests and answers come and stay.
LEMMA BegunNext ==
  ASSUME TypeOK, Begun, NEW c \in Call, Step(c)
  PROVE  Begun'
<1>1. \A d \in Call : d # c =>
        phase'[d] = phase[d] /\ request'[d] = request[d] /\ answer'[d] = answer[d]
  BY OthersKeep
<1>2. phase'[c] # "idle" => request'[c] \in Request
  <2>1. CASE Begin(c)
    BY <2>1 DEF Begin, TypeOK
  <2>2. CASE ~ Begin(c)
    <3>1. phase[c] # "idle" /\ request'[c] = request[c]
      BY <2>2, Steps, QuietStep DEF Publish, PublishUnclean, Record, WriteIndex, local
    <3>2. QED BY <3>1 DEF Begun
  <2>3. QED BY <2>1, <2>2
<1>3. phase'[c] # "done" => answer'[c] = None
  <2>1. CASE Begin(c) \/ Publish(c) \/ Record(c)
    BY <2>1 DEF Begin, Publish, Record, TypeOK, Begun
  <2>2. CASE PublishUnclean(c)
    BY <2>2 DEF PublishUnclean, Answers, Leaves, Goes, TypeOK
  <2>3. CASE WriteIndex(c)
    BY <2>3 DEF WriteIndex, Continues, Answers, Leaves, Goes, TypeOK, Begun
  <2>4. CASE Quiet(c)
    <3>1. phase'[c] # "done" => answer'[c] = answer[c] /\ phase[c] # "done"
      BY <2>4 DEF Quiet, Lock, Crash, Replay, Inspect, InspectFails, PublishLate, PublishFails,
         Check, ReadIndex, StoreFails, IndexUnreadable, ReadBack, Continues, Answers, Leaves, Goes,
         TypeOK, Held
    <3>2. QED BY <3>1 DEF Begun
  <2>5. QED BY <2>1, <2>2, <2>3, <2>4, Steps
<1>4. QED BY <1>1, <1>2, <1>3 DEF Begun

\* The directory's index admits one call at a time.
LEMMA ExclusiveNext ==
  ASSUME TypeOK, Exclusive, NEW c \in Call, Step(c)
  PROVE  Exclusive'
<1>1. \A d \in Call : d # c => phase'[d] = phase[d]
  BY OthersKeep
<1>2. phase'[c] \in Inside => phase[c] \in Inside \/ \A d \in Call : phase[d] \notin Inside
  <2>1. CASE Begin(c)
    BY <2>1 DEF Begin, Goes, TypeOK, Inside
  <2>2. CASE Publish(c) \/ PublishUnclean(c) \/ Record(c) \/ WriteIndex(c)
    BY <2>2 DEF Publish, PublishUnclean, Record, WriteIndex, Inside, Held
  <2>3. CASE Quiet(c)
    BY <2>3, QuietStep DEF IndexFree, Inside
  <2>4. QED BY <2>1, <2>2, <2>3, Steps
<1>3. QED BY <1>1, <1>2 DEF Exclusive

\* A worksheet appears with another revision only.
LEMMA AbsentNext ==
  ASSUME TypeOK, TypeOK', Begun, Absent, NEW c \in Call, Step(c)
  PROVE  Absent'
<1> SUFFICES ASSUME NEW d \in Call, phase'[d] = "publishing"
             PROVE  /\ seen'[d] <= revision'
                    /\ T(d)' \in Sheet /\ revision' = seen'[d] => table'[T(d)'] = None
  BY DEF Absent
<1>1. CASE Begin(c)
  <2>1. d # c
    BY <1>1 DEF Begin, Goes, TypeOK
  <2>2. QED BY <1>1, <2>1, OthersKeep DEF Begin, Absent, T, files
<1>2. CASE Quiet(c)
  <2>1. CASE d = c
    BY <1>2, <2>1, QuietStep DEF Quiet, T, files, TypeOK
  <2>2. CASE d # c
    BY <1>2, <2>2, OthersKeep DEF Quiet, Absent, T, files
  <2>3. QED BY <2>1, <2>2
<1>3. CASE Publish(c) \/ PublishUnclean(c)
  <2>1. d # c
    BY <1>3 DEF Publish, PublishUnclean, Answers, Leaves, Goes, TypeOK
  <2>2. phase[d] = "publishing" /\ request'[d] = request[d] /\ seen'[d] = seen[d]
    BY <2>1, OthersKeep
  <2>3. seen[d] <= revision /\ (T(d) \in Sheet /\ revision = seen[d] => table[T(d)] = None)
    BY <2>2 DEF Absent
  <2>4. T(d)' = T(d)
    BY <2>2 DEF T
  <2>5. CASE T(c) \in Sheet
    BY <1>3, <2>2, <2>3, <2>5 DEF Publish, PublishUnclean, Puts, TypeOK
  <2>6. CASE T(c) \notin Sheet
    BY <1>3, <2>2, <2>3, <2>4, <2>6, PortableAssumption
       DEF Publish, PublishUnclean, Puts, TypeOK
  <2>7. QED BY <2>5, <2>6
<1>4. CASE Record(c) \/ WriteIndex(c)
  <2>1. d # c
    BY <1>4 DEF Record, WriteIndex, Continues, Answers, Leaves, Goes, TypeOK
  <2>2. QED BY <1>4, <2>1, OthersKeep DEF Record, WriteIndex, Absent, T
<1>5. QED BY <1>1, <1>2, <1>3, <1>4, Steps

\* Records are written by whoever is alone inside.
LEMMA UnrecordedNext ==
  ASSUME TypeOK, Exclusive, Unrecorded, NEW c \in Call, Step(c)
  PROVE  Unrecorded'
<1> SUFFICES ASSUME NEW d \in Call, phase'[d] \in {"publishing", "checking", "recording"}
             PROVE  record'[T(d)'] = None
  BY DEF Unrecorded
<1>1. CASE Begin(c)
  <2>1. d # c
    BY <1>1 DEF Begin, Goes, TypeOK
  <2>2. QED BY <1>1, <2>1, OthersKeep DEF Begin, Unrecorded, T, files
<1>2. CASE Quiet(c)
  <2>1. CASE d = c
    BY <1>2, <2>1, QuietStep DEF Quiet, T, files, Unrecorded
  <2>2. CASE d # c
    BY <1>2, <2>2, OthersKeep DEF Quiet, Unrecorded, T, files
  <2>3. QED BY <2>1, <2>2
<1>3. CASE Publish(c) \/ PublishUnclean(c)
  <2>1. phase[c] = "publishing" /\ request' = request /\ record' = record
    BY <1>3 DEF Publish, PublishUnclean, local
  <2>2. QED BY <2>1, OthersKeep DEF Unrecorded, T
<1>4. CASE Record(c) \/ WriteIndex(c)
  <2>1. d # c
    BY <1>4 DEF Record, WriteIndex, Continues, Answers, Leaves, Goes, TypeOK
  <2>2. phase[c] \in Inside /\ phase[d] \in Inside
    BY <1>4, <2>1, OthersKeep DEF Record, WriteIndex, Inside, Held
  <2>3. QED BY <2>1, <2>2 DEF Exclusive
<1>5. QED BY <1>1, <1>2, <1>3, <1>4, Steps

\* The record is what the call in its last phases wrote or recognised.
LEMMA OwnRecordNext ==
  ASSUME TypeOK, TypeOK', Begun, Begun', Exclusive, OwnRecord, NEW c \in Call, Step(c)
  PROVE  OwnRecord'
<1> SUFFICES ASSUME NEW d \in Call, phase'[d] \in {"indexing", "replacing", "reading"}
             PROVE  record'[T(d)'] = E(d)'
  BY DEF OwnRecord
<1>1. CASE Begin(c)
  <2>1. d # c
    BY <1>1 DEF Begin, Goes, TypeOK
  <2>2. QED BY <1>1, <2>1, OthersKeep DEF Begin, OwnRecord, T, E, files
<1>2. CASE Quiet(c)
  <2>1. request'[d] = request[d] /\ record' = record
    BY <1>2 DEF Quiet, files
  <2>2. CASE d = c
    <3>1. CASE phase'[c] = "reading"
      <4>1. /\ record[T(c)] # None /\ phase[c] # "idle"
            /\ record[T(c)].key = request[c].key /\ record[T(c)].body = B(c)
        BY <1>2, <3>1, QuietStep
      <4>2. record[T(c)] \in Entry
        BY <4>1, RequestTypes DEF TypeOK
      <4>3. record[T(c)] = E(c)
        BY <4>1, <4>2 DEF Entry, E, B
      <4>4. QED BY <2>1, <2>2, <4>3 DEF T, E
    <3>2. CASE phase'[c] # "reading"
      <4>1. phase[c] = "indexing"
        BY <1>2, <2>2, <3>2, QuietStep
      <4>2. QED BY <2>1, <2>2, <4>1 DEF OwnRecord, T, E
    <3>3. QED BY <3>1, <3>2
  <2>3. CASE d # c
    BY <2>1, <2>3, OthersKeep DEF OwnRecord, T, E
  <2>4. QED BY <2>2, <2>3
<1>3. CASE Publish(c) \/ PublishUnclean(c)
  <2>1. d # c
    BY <1>3 DEF Publish, PublishUnclean, Answers, Leaves, Goes, TypeOK
  <2>2. QED BY <1>3, <2>1, OthersKeep DEF Publish, PublishUnclean, OwnRecord, T, E
<1>4. CASE Record(c)
  <2>1. CASE d = c
    BY <1>4, <2>1, RequestTypes DEF Record, TypeOK, T, E, local
  <2>2. CASE d # c
    <3>1. phase[c] \in Inside /\ phase[d] \in Inside
      BY <1>4, <2>2, OthersKeep DEF Record, Inside, Held
    <3>2. QED BY <2>2, <3>1 DEF Exclusive
  <2>3. QED BY <2>1, <2>2
<1>5. CASE WriteIndex(c)
  <2>1. phase[c] = "replacing" /\ request' = request /\ record' = record
    BY <1>5 DEF WriteIndex
  <2>2. QED BY <2>1, OthersKeep DEF OwnRecord, T, E
<1>6. QED BY <1>1, <1>2, <1>3, <1>4, <1>5, Steps

\* The index repeats the records, and a call puts back all it read.
LEMMA IndexedNext ==
  ASSUME TypeOK, Begun, Exclusive, Unrecorded, OwnRecord, Indexed, NEW c \in Call, Step(c)
  PROVE  Indexed' /\ index \subseteq index'
<1>1. CASE Begin(c)
  <2>1. phase'[c] = "opened"
    BY <1>1 DEF Begin, Goes, TypeOK
  <2>2. QED BY <1>1, <2>1, OthersKeep DEF Begin, Indexed, files
<1>2. CASE Quiet(c)
  BY <1>2, QuietStep, OthersKeep DEF Quiet, files, Indexed
<1>3. CASE Publish(c) \/ PublishUnclean(c)
  <2>1. phase'[c] # "replacing"
    BY <1>3 DEF Publish, PublishUnclean, Answers, Leaves, Goes, TypeOK
  <2>2. QED BY <1>3, <2>1, OthersKeep DEF Publish, PublishUnclean, Indexed
<1>4. CASE Record(c)
  <2>1. phase'[c] = "indexing" /\ index' = index /\ record[T(c)] = None
    BY <1>4 DEF Record, Goes, TypeOK, Unrecorded
  <2>2. \A r \in index : r.table # T(c)
    <3>1. ASSUME NEW r \in index PROVE r.table # T(c)
      <4>1. r \in Request /\ record[r.table] = [key |-> r.key, body |-> r.body]
        BY DEF Indexed, TypeOK
      <4>2. [key |-> r.key, body |-> r.body] \in Entry
        BY <4>1 DEF Request, Entry
      <4>3. QED BY <2>1, <4>1, <4>2, PortableAssumption
    <3>2. QED BY <3>1
  <2>3. \A r \in index : record'[r.table] = record[r.table]
    BY <1>4, <2>2 DEF Record, TypeOK, Request
  <2>4. QED BY <2>1, <2>3, OthersKeep DEF Indexed
<1>5. CASE WriteIndex(c)
  <2>1. /\ copy[c] = index /\ record[T(c)] = E(c) /\ request[c] \in Request
        /\ record' = record
    BY <1>5 DEF WriteIndex, Indexed, OwnRecord, Begun
  <2>2. \A r \in index : <<r.table, r.key>> = <<T(c), request[c].key>> => r = request[c]
    <3>1. SUFFICES ASSUME NEW r \in index, r.table = T(c), r.key = request[c].key
                   PROVE  r = request[c]
      OBVIOUS
    <3>2. r \in Request /\ record[T(c)] = [key |-> r.key, body |-> r.body]
      BY <3>1 DEF Indexed, TypeOK
    <3>3. r.body = request[c].body
      BY <2>1, <3>2 DEF E
    <3>4. QED BY <2>1, <3>1, <3>2, <3>3 DEF Request, T
  <2>3. index' = index \cup {request[c]}
    BY <1>5, <2>1, <2>2 DEF WriteIndex
  <2>4. phase'[c] # "replacing"
    BY <1>5 DEF WriteIndex, Continues, Answers, Leaves, Goes, TypeOK
  <2>5. \A d \in Call : d # c => phase'[d] # "replacing"
    BY <1>5, OthersKeep DEF WriteIndex, Exclusive, Inside, Held
  <2>6. QED BY <2>1, <2>3, <2>4, <2>5 DEF Indexed, E, T
<1>6. QED BY <1>1, <1>2, <1>3, <1>4, <1>5, Steps

\* What is there stays, whoever put it there.
LEMMA Creates ==
  ASSUME TypeOK, Begun, Absent, Unrecorded, NEW c \in Call, Step(c)
  PROVE  /\ foreign' = foreign
         /\ \A t \in Table : table[t] # None => table'[t] = table[t]
         /\ \A t \in Table : record[t] # None => record'[t] = record[t]
<1>1. CASE Begin(c) \/ Quiet(c) \/ WriteIndex(c)
  BY <1>1 DEF Begin, Quiet, WriteIndex, files
<1>2. CASE Publish(c) \/ PublishUnclean(c)
  <2>1. T(c) \in Table /\ table[T(c)] = None
    BY <1>2, RequestTypes DEF Publish, PublishUnclean, MayPut, Absent
  <2>2. QED BY <1>2, <2>1 DEF Publish, PublishUnclean, Puts, TypeOK
<1>3. CASE Record(c)
  <2>1. T(c) \in Table /\ record[T(c)] = None
    BY <1>3, RequestTypes DEF Record, Unrecorded
  <2>2. QED BY <1>3, <2>1 DEF Record, TypeOK
<1>4. QED BY <1>1, <1>2, <1>3, Steps

\* The table a call put in place or found is there when it is recorded.
LEMMA PresentNext ==
  ASSUME TypeOK, Begun, Absent, Unrecorded, Present, NEW c \in Call, Step(c)
  PROVE  Present'
<1> SUFFICES ASSUME NEW d \in Call, phase'[d] \in {"checking", "recording"}
             PROVE  /\ table'[T(d)'] # None
                    /\ phase'[d] = "recording" /\ foreign'[T(d)'] = 0 => table'[T(d)'] = B(d)'
  BY DEF Present
<1>0. /\ foreign' = foreign
      /\ \A t \in Table : table[t] # None => table'[t] = table[t]
  BY Creates
<1>1. CASE d # c
  <2>1. phase'[d] = phase[d] /\ request'[d] = request[d]
    BY <1>1, OthersKeep
  <2>2. T(d) \in Table
    BY <2>1, RequestTypes
  <2>3. table[T(d)] # None /\ (phase[d] = "recording" /\ foreign[T(d)] = 0 => table[T(d)] = B(d))
    BY <2>1 DEF Present
  <2>4. table'[T(d)] = table[T(d)] /\ foreign' = foreign
    BY <1>0, <2>2, <2>3
  <2>5. T(d)' = T(d) /\ B(d)' = B(d)
    BY <2>1 DEF T, B
  <2>6. QED BY <2>1, <2>3, <2>4, <2>5
<1>2. CASE d = c
  <2>1. CASE Quiet(c)
    <3>1. table[T(c)] = B(c) /\ B(c) \in Body
      BY <1>2, <2>1, QuietStep, RequestTypes
    <3>2. QED BY <1>2, <2>1, <3>1, PortableAssumption DEF Quiet, files, T, B
  <2>2. CASE Publish(c)
    <3>1. T(c) \in Table /\ B(c) \in Body /\ request' = request
      BY <2>2, RequestTypes DEF Publish, local
    <3>2. table'[T(c)] = B(c)
      BY <2>2, <3>1 DEF Publish, Puts, TypeOK
    <3>3. QED BY <1>2, <3>1, <3>2, PortableAssumption DEF T, B
  <2>3. CASE Begin(c) \/ PublishUnclean(c) \/ Record(c) \/ WriteIndex(c)
    BY <1>2, <2>3 DEF Begin, PublishUnclean, Record, WriteIndex, Continues, Answers, Leaves, Goes,
       TypeOK
  <2>4. QED BY <2>1, <2>2, <2>3, Steps
<1>3. QED BY <1>1, <1>2

\* A record is written for a table that is there.
LEMMA RecordsAreTrueNext ==
  ASSUME TypeOK, Begun, Absent, Unrecorded, Present, RecordsAreTrue, NEW c \in Call, Step(c)
  PROVE  RecordsAreTrue'
<1>0. /\ foreign' = foreign
      /\ \A t \in Table : table[t] # None => table'[t] = table[t]
  BY Creates
<1>1. CASE Record(c)
  <2>1. /\ T(c) \in Table /\ table[T(c)] # None
        /\ foreign[T(c)] = 0 => table[T(c)] = B(c)
    BY <1>1, RequestTypes DEF Record, Present
  <2>2. /\ record' = [record EXCEPT ![T(c)] = E(c)]
        /\ table' = table /\ foreign' = foreign
    BY <1>1 DEF Record
  <2>3. E(c).body = B(c)
    BY DEF E, B
  <2>4. record'[T(c)] = E(c) /\ \A t \in Table : t # T(c) => record'[t] = record[t]
    BY <2>1, <2>2 DEF TypeOK
  <2>5. QED BY <2>1, <2>2, <2>3, <2>4 DEF RecordsAreTrue
<1>2. CASE ~ Record(c)
  <2>1. record' = record
    BY <1>2, Steps DEF Begin, Quiet, Publish, PublishUnclean, WriteIndex, files
  <2>2. QED BY <1>0, <2>1 DEF RecordsAreTrue
<1>3. QED BY <1>1, <1>2

\* Who publishes leaves the phases before publication for good.
LEMMA OwnedNext ==
  ASSUME TypeOK, Begun, Unrecorded, OwnRecord, Owned, NEW c \in Call, Step(c)
  PROVE  Owned'
<1> SUFFICES ASSUME NEW t \in Table, NEW d \in Call, creator'[t] = d
             PROVE  /\ phase'[d] \notin {"idle", "opened", "locked", "publishing"}
                    /\ phase'[d] = "reading" => t \notin Sheet
                    /\ t = T(d)'
  BY DEF Owned
<1>1. CASE Publish(c) \/ PublishUnclean(c)
  <2>1. phase'[c] \in {"checking", "recording", "done"}
    BY <1>1 DEF Publish, PublishUnclean, Answers, Leaves, Goes, TypeOK
  <2>2. d # c => creator[t] = d
    BY <1>1 DEF Publish, PublishUnclean, Puts, TypeOK
  <2>3. creator[t] # c
    BY <1>1 DEF Publish, PublishUnclean, Owned
  <2>4. T(c)' = T(c) /\ (d = c => t = T(c))
    BY <1>1, <2>3 DEF Publish, PublishUnclean, Puts, TypeOK, T, local
  <2>5. CASE d = c
    BY <2>1, <2>4, <2>5, <1>1, RequestTypes DEF Publish, PublishUnclean, Continues, Goes, Leaves, Answers, TypeOK
  <2>6. CASE d # c
    BY <2>2, <2>6, OthersKeep DEF Owned, T
  <2>7. QED BY <2>5, <2>6
<1>2. CASE ~ (Publish(c) \/ PublishUnclean(c))
  <2>1. creator[t] = d
    BY <1>2, Steps DEF Begin, Quiet, Record, WriteIndex
  <2>2. CASE d # c
    BY <2>1, <2>2, OthersKeep DEF Owned, T
  <2>3. CASE d = c
    <3>1. /\ phase[c] \notin {"idle", "opened", "locked", "publishing"}
          /\ phase[c] = "reading" => t \notin Sheet
          /\ t = T(c)
      BY <2>1, <2>3 DEF Owned
    <3>2. CASE Begin(c) \/ Record(c)
      BY <2>3, <3>1, <3>2 DEF Begin, Record, Goes, TypeOK, local, T
    <3>3. CASE WriteIndex(c)
      <4>1. phase'[c] \in {"reading", "done"} /\ (phase'[c] = "reading" => T(c) \notin Sheet)
        BY <3>3 DEF WriteIndex, Continues, Answers, Leaves, Goes, TypeOK
      <4>2. T(c)' = T(c)
        BY <3>3 DEF WriteIndex, T
      <4>3. QED BY <2>3, <3>1, <4>1, <4>2
    <3>4. CASE Quiet(c)
      BY <2>3, <3>1, <3>4, QuietStep DEF T
    <3>5. QED BY <1>2, <3>2, <3>3, <3>4, Steps
  <2>4. QED BY <2>2, <2>3
<1>3. QED BY <1>1, <1>2

\* The answer of a step is true, and a step makes no earlier answer false.
LEMMA AnswersNext ==
  ASSUME TypeOK, TypeOK', Begun, Begun', Absent, Unrecorded, OwnRecord, Present, RecordsAreTrue,
         RecordsAreTrue', Owned, AnswersAreTrue, NEW c \in Call, Step(c)
  PROVE  AnswersAreTrue'
<1>0. /\ foreign' = foreign
      /\ \A t \in Table : table[t] # None => table'[t] = table[t]
      /\ \A t \in Table : record[t] # None => record'[t] = record[t]
  BY Creates
<1>1. ASSUME NEW d \in Call, answer'[d] = answer[d]
      PROVE  /\ answer'[d] = "succeeded" => record'[T(d)'] = E(d)'
             /\ answer'[d] \in {"mismatch", "protocol"} => table'[T(d)'] # None
             /\ answer'[d] \in NotStarted => creator'[T(d)'] # d
  <2>1. CASE answer[d] = None
    BY <1>1, <2>1, PortableAssumption DEF Answer
  <2>2. CASE answer[d] # None
    <3>1. phase[d] = "done" /\ T(d) \in Table /\ E(d) \in Entry
      BY <2>2, RequestTypes DEF Begun
    <3>2. request'[d] = request[d] /\ (creator'[T(d)] = d => creator[T(d)] = d)
      <4>1. CASE d = c
        BY <3>1, <4>1 DEF Step, Begin, Lock, Crash, Held, Replay, Inspect, InspectFails, Publish, PublishLate,
           PublishFails, PublishUnclean, Check, Record, ReadIndex, WriteIndex, StoreFails,
           IndexUnreadable, ReadBack
      <4>2. CASE d # c
        <5>1. request'[d] = request[d]
          BY <4>2, OthersKeep
        <5>2. CASE Publish(c) \/ PublishUnclean(c)
          BY <4>2, <5>1, <5>2, <3>1 DEF Publish, PublishUnclean, Puts, TypeOK
        <5>3. CASE ~ (Publish(c) \/ PublishUnclean(c))
          BY <5>1, <5>3, Steps DEF Begin, Quiet, Record, WriteIndex
        <5>4. QED BY <5>2, <5>3, <5>1
      <4>3. QED BY <4>1, <4>2
    <3>3. T(d)' = T(d) /\ E(d)' = E(d)
      BY <3>2 DEF T, E
    <3>4. QED
      BY <1>0, <1>1, <3>1, <3>2, <3>3, PortableAssumption DEF AnswersAreTrue
  <2>3. QED BY <2>1, <2>2
<1>2. ASSUME answer'[c] # answer[c]
      PROVE  /\ answer'[c] = "succeeded" => record'[T(c)'] = E(c)'
             /\ answer'[c] \in {"mismatch", "protocol"} => table'[T(c)'] # None
             /\ answer'[c] \in NotStarted => creator'[T(c)'] # c
  <2>1. /\ phase[c] # "idle" /\ request'[c] = request[c]
        /\ T(c)' = T(c) /\ E(c)' = E(c)
    <3>1. ~ Begin(c)
      BY <1>2 DEF Begin
    <3>2. phase[c] # "idle" /\ request'[c] = request[c]
      BY <3>1, Steps, QuietStep DEF Publish, PublishUnclean, Record, WriteIndex, local
    <3>3. QED BY <3>2 DEF T, E
  <2>2. T(c) \in Table /\ B(c) \in Body /\ E(c) \in Entry
    BY <2>1, RequestTypes
  <2>3. record[T(c)] # None => table[T(c)] # None
    BY <2>2 DEF RecordsAreTrue
  <2>4. phase[c] \in {"opened", "locked", "publishing"} => creator[T(c)] # c
    BY <2>2 DEF Owned
  <2>5. phase[c] = "reading" /\ T(c) \in Sheet => creator[T(c)] # c
    BY <2>2 DEF Owned
  <2>6. phase[c] \in {"indexing", "replacing", "reading"} => record[T(c)] = E(c) /\ record[T(c)] # None
    BY <2>2, PortableAssumption DEF OwnRecord
  <2>7. phase[c] \in {"checking", "recording"} => table[T(c)] # None
    BY DEF Present
  <2>8. CASE Replay(c) \/ Inspect(c) \/ InspectFails(c)
    BY <1>2, <2>1, <2>4, <2>8 DEF Replay, Inspect, InspectFails, Continues, Answers, Leaves, Goes,
       files, TypeOK, NotStarted
  <2>9. CASE PublishLate(c) \/ PublishFails(c) \/ Check(c)
    BY <1>2, <2>1, <2>4, <2>7, <2>9 DEF PublishLate, PublishFails, Check, Continues, Answers, Leaves,
       Goes, files, TypeOK, NotStarted
  <2>10. CASE PublishUnclean(c)
    <3>1. answer'[c] \in {"lost", "mismatch"} /\ table'[T(c)] = B(c)
      BY <2>2, <2>10 DEF PublishUnclean, Puts, Answers, Leaves, Goes, TypeOK
    <3>2. QED BY <2>1, <2>2, <3>1, PortableAssumption DEF NotStarted
  <2>11. CASE WriteIndex(c)
    BY <1>2, <2>1, <2>6, <2>11 DEF WriteIndex, Continues, Answers, Leaves, Goes, TypeOK, NotStarted
  <2>12. CASE StoreFails(c) \/ IndexUnreadable(c)
    BY <1>2, <2>1, <2>3, <2>6, <2>7, <2>12 DEF StoreFails, IndexUnreadable, Answers, Leaves, Goes,
       files, TypeOK, NotStarted
  <2>13. CASE ReadBack(c)
    BY <1>2, <2>1, <2>3, <2>5, <2>6, <2>13 DEF ReadBack, Answers, Leaves, Goes, files, TypeOK,
       NotStarted
  <2>14. CASE Begin(c) \/ Lock(c) \/ Crash(c) \/ Publish(c) \/ Record(c) \/ ReadIndex(c)
    BY <1>2, <2>14 DEF Begin, Lock, Crash, Publish, Record, ReadIndex, Leaves, local
  <2>15. QED BY <2>8, <2>9, <2>10, <2>11, <2>12, <2>13, <2>14 DEF Step
<1>3. ASSUME NEW d \in Call, record'[T(d)'] = E(d)', answer'[d] = "succeeded"
      PROVE  foreign'[T(d)'] = 0 => table'[T(d)'] = B(d)'
  <2>1. phase'[d] # "idle"
    BY <1>3, PortableAssumption DEF Begun, Answer
  <2>2. request'[d] \in Request /\ T(d)' = request'[d].table
    BY <2>1 DEF Begun, T
  <2>3. T(d)' \in Table /\ E(d)' \in Entry /\ E(d)'.body = B(d)'
    BY <2>2 DEF Request, Entry, E, B
  <2>4. QED BY <1>3, <2>3, PortableAssumption DEF RecordsAreTrue
<1>4. QED BY <1>1, <1>2, <1>3, OthersKeep DEF AnswersAreTrue

-----------------------------------------------------------------------------
(* The invariant.                                                          *)

\* An empty directory, with or without a workbook.
LEMMA InvInit == Init => Inv
<1> SUFFICES ASSUME Init PROVE Inv
  OBVIOUS
<1>1. TypeOK
  BY DEF Init, TypeOK
<1>2. Begun /\ Exclusive /\ Absent /\ Unrecorded /\ OwnRecord /\ Indexed /\ Present
  BY DEF Init, Begun, Exclusive, Inside, Held, Absent, Unrecorded, OwnRecord, Indexed, Present
<1>3. RecordsAreTrue /\ Owned
  BY PortableAssumption DEF Init, RecordsAreTrue, Owned
<1>4. AnswersAreTrue
  BY PortableAssumption DEF Init, AnswersAreTrue, NotStarted, Answer
<1>5. QED BY <1>1, <1>2, <1>3, <1>4 DEF Inv

\* A step of a call keeps it.
LEMMA InvStep ==
  ASSUME Inv, NEW c \in Call, Step(c)
  PROVE  Inv'
<1>1. TypeOK'
  BY TypeNext DEF Inv, Next
<1>2. Begun'
  BY BegunNext DEF Inv
<1>3. Exclusive'
  BY ExclusiveNext DEF Inv
<1>4. Absent'
  BY <1>1, AbsentNext DEF Inv
<1>5. Unrecorded'
  BY UnrecordedNext DEF Inv
<1>6. OwnRecord'
  BY <1>1, <1>2, OwnRecordNext DEF Inv
<1>7. Indexed'
  BY IndexedNext DEF Inv
<1>8. Present'
  BY PresentNext DEF Inv
<1>9. RecordsAreTrue'
  BY RecordsAreTrueNext DEF Inv
<1>10. Owned'
  BY OwnedNext DEF Inv
<1>11. AnswersAreTrue'
  BY <1>1, <1>2, <1>9, AnswersNext DEF Inv
<1>12. QED
  BY <1>1, <1>2, <1>3, <1>4, <1>5, <1>6, <1>7, <1>8, <1>9, <1>10, <1>11 DEF Inv

\* A write by another program makes a table of what may be none, marks it, and
\* moves the workbook's revision.
LEMMA InvWrite ==
  ASSUME Inv, NEW u \in Table, Write(u)
  PROVE  Inv'
<1>0. USE DEF Inv
<1>1. TypeOK'
  BY TypeNext DEF Next
<1>2. /\ UNCHANGED <<record, index, phase, request, seen, copy, answer, creator>>
      /\ \A c \in Call : T(c)' = T(c) /\ B(c)' = B(c) /\ E(c)' = E(c)
  BY DEF Write, local, T, B, E
<1>3. /\ foreign'[u] # 0
      /\ \A t \in Table : t # u => table'[t] = table[t] /\ foreign'[t] = foreign[t]
  BY DEF Write, TypeOK
<1>4. \A t \in Table : table[t] # None => table'[t] # None
  BY PortableAssumption DEF Write, TypeOK
<1>5. Begun' /\ Exclusive' /\ Unrecorded' /\ OwnRecord' /\ Indexed' /\ Owned'
  BY <1>2 DEF Begun, Exclusive, Unrecorded, OwnRecord, Indexed, Owned
<1>6. Absent'
  <2>1. ASSUME NEW c \in Call, phase[c] = "publishing", seen[c] <= revision,
               T(c) \in Sheet /\ revision = seen[c] => table[T(c)] = None
        PROVE  /\ seen[c] <= revision'
               /\ T(c) \in Sheet /\ revision' = seen[c] => table'[T(c)] = None
    <3>1. CASE u \in Sheet
      BY <2>1, <3>1 DEF Write, TypeOK
    <3>2. CASE u \notin Sheet
      BY <1>3, <2>1, <3>2, PortableAssumption DEF Write
    <3>3. QED BY <3>1, <3>2
  <2>2. QED BY <1>2, <2>1 DEF Absent
<1>7. Present'
  <2>1. ASSUME NEW c \in Call, phase[c] \in {"checking", "recording"}
        PROVE  /\ table'[T(c)] # None
               /\ phase[c] = "recording" /\ foreign'[T(c)] = 0 => table'[T(c)] = B(c)
    <3>1. T(c) \in Table
      BY <2>1, RequestTypes
    <3>2. QED BY <1>3, <1>4, <2>1, <3>1 DEF Present
  <2>2. QED BY <1>2, <2>1 DEF Present
<1>8. RecordsAreTrue'
  BY <1>2, <1>3, <1>4 DEF RecordsAreTrue
<1>9. AnswersAreTrue'
  <2>1. ASSUME NEW c \in Call, answer[c] # None
        PROVE  /\ answer[c] = "succeeded" /\ foreign'[T(c)] = 0 => table'[T(c)] = B(c)
               /\ answer[c] \in {"mismatch", "protocol"} => table'[T(c)] # None
    <3>1. T(c) \in Table
      BY <2>1, RequestTypes DEF Begun
    <3>2. QED BY <1>3, <1>4, <3>1 DEF AnswersAreTrue
  <2>2. QED BY <1>2, <2>1, PortableAssumption DEF AnswersAreTrue, Answer
<1>10. QED BY <1>1, <1>5, <1>6, <1>7, <1>8, <1>9

\* Every step keeps it.
LEMMA InvNext == Inv /\ [Next]_vars => Inv'
<1> SUFFICES ASSUME Inv, [Next]_vars PROVE Inv'
  OBVIOUS
<1>1. CASE UNCHANGED vars
  BY <1>1 DEF vars, files, local, Inv, TypeOK, Begun, Exclusive, Absent, Unrecorded, OwnRecord, Indexed,
     Present, RecordsAreTrue, Owned, AnswersAreTrue, T, B, E
<1>2. QED BY <1>1, InvStep, InvWrite DEF Next

-----------------------------------------------------------------------------
(* The theorems.                                                           *)

\* Inv holds in every reachable state.
THEOREM Invariance == Spec => []Inv
  BY InvInit, InvNext, PTL DEF Spec

\* The state stays well typed.
THEOREM TypeCorrect == Spec => []TypeOK
<1>1. Inv => TypeOK
  BY DEF Inv
<1>2. QED BY <1>1, Invariance, PTL

\* A success is what was asked for, a failure after the commit left a table
\* behind, and a refusal published nothing.
THEOREM AnswersHold == Spec => []AnswersAreTrue
<1>1. Inv => AnswersAreTrue
  BY DEF Inv
<1>2. QED BY <1>1, Invariance, PTL

\* No call changes a table or a record that is there or forgets an index entry.
THEOREM NothingOverwritten == Spec => OnlyCreates
<1>1. ASSUME Inv, [Next]_vars, foreign' = foreign
      PROVE  /\ \A t \in Table :
                  /\ table[t] # None => table'[t] = table[t]
                  /\ record[t] # None => record'[t] = record[t]
             /\ index \subseteq index'
  <2>1. CASE UNCHANGED vars
    BY <2>1 DEF vars, files
  <2>2. ASSUME NEW t \in Table, Write(t) PROVE FALSE
    BY <1>1, <2>2 DEF Write, Inv, TypeOK
  <2>3. ASSUME NEW c \in Call, Step(c)
        PROVE  /\ \A t \in Table :
                    /\ table[t] # None => table'[t] = table[t]
                    /\ record[t] # None => record'[t] = record[t]
               /\ index \subseteq index'
    BY <1>1, <2>3, Creates, IndexedNext DEF Inv
  <2>4. QED BY <1>1, <2>1, <2>2, <2>3 DEF Next
<1>2. QED BY <1>1, Invariance, PTL DEF Spec, OnlyCreates

-----------------------------------------------------------------------------
(* TableStore.                                                             *)

USE StoreAssumption

Connections == Contexts \cup Txs

TableCalls ==
  [kind : {"write", "batch"}, table : TableNames, mode : Modes, todo : Seq(Writes),
   step : {"drop", "create", "insert", "commit", "abort"}, on : Connections]
TableEntries ==
  [table : TableNames, on : Connections,
   answer : WriteAnswers \ {"none"}, over : SUBSET Writes]
Changes == [own : BOOLEAN, there : BOOLEAN, rows : SUBSET AllRows]
Conns == [open : BOOLEAN, begun : BOOLEAN, failed : BOOLEAN, closer : Contexts \cup {Nothing},
          kept : BOOLEAN, change : [TableNames -> Changes]]

TableTypes ==
  /\ connector \in {"sqlite", "postgres"}
  /\ db \in [TableNames -> [there : BOOLEAN, rows : SUBSET AllRows]]
  /\ conn \in [Connections -> Conns]
  /\ active \in [Contexts -> Txs \cup {Nothing}]
  /\ born \in SUBSET Contexts
  /\ writing \in [Contexts -> TableCalls \cup {Idle}]
  /\ history \in [Writes -> TableEntries \cup {NoWrite}]

\* The numbers given are the first ones.
NumbersInOrder ==
  \E k \in 0..MaxWrites : \A w \in Writes : history[w].answer # "none" <=> w <= k

Busy(c) == writing[c] # Idle
Pending(c) == {writing[c].todo[i] : i \in 1..Len(writing[c].todo)}
On(w) == history[w].on
Is(w, as) == history[w].answer \in as

\* Who shares a transaction's variable is of one thread; one call at a time runs
\* there; a context not started has nothing; a variable set is of an open
\* transaction or of one that another context closed.
Shared ==
  /\ \A c, d \in Contexts : active[c] = active[d] /\ active[c] # Nothing =>
        c = d \/ (c \in Loop /\ d \in Loop)
  /\ \A c, d \in Loop : Busy(c) /\ Busy(d) => c = d
  /\ \A c \in Contexts \ born : active[c] = Nothing /\ ~Busy(c)
  /\ \A k \in Connections : conn[k].closer \in born \cup {Nothing}
  /\ \A c \in Contexts : active[c] # Nothing =>
        conn[active[c]].open \/ conn[active[c]].closer \notin {Nothing, c}

\* A call's connection is its own or its context's transaction, and open.
CallRouted(c) == Busy(c) =>
  /\ conn[writing[c].on].open
  /\ writing[c].on = c \/ (writing[c].on \in Txs /\ active[c] = writing[c].on)

\* The frames of a call are different, on its connection, and running.
CallPends(c) == Busy(c) =>
  /\ \A i, j \in 1..Len(writing[c].todo) : writing[c].todo[i] = writing[c].todo[j] => i = j
  /\ \A w \in Pending(c) : On(w) = writing[c].on /\ history[w].table = writing[c].table
  /\ writing[c].step # "abort" => \A w \in Pending(c) : Is(w, {"running"})
  /\ writing[c].step \in {"drop", "create", "insert"} => writing[c].todo # <<>>
  /\ writing[c].step = "drop" => history[Head(writing[c].todo)].over = {}
  /\ writing[c].kind = "write" =>
        /\ Len(writing[c].todo) = 1 /\ writing[c].step # "abort"
        /\ writing[c].step = "commit" => writing[c].on = c

\* An SDK transaction's writes are those of its frames: staged, or still to do.
CallBatches(c) == Busy(c) /\ writing[c].kind = "batch" =>
  /\ connector = "sqlite" /\ writing[c].on \in Txs
  /\ writing[c].step = "commit" => writing[c].todo = <<>>
  /\ \A w \in Writes : On(w) = writing[c].on =>
        Is(w, {"running", "staged", "refused"})
        /\ (writing[c].step # "abort" => Is(w, {"staged"}) \/ w \in Pending(c))

\* A call about to commit on its own connection has its rows in.
CallWrote(c) == Busy(c) /\ writing[c].kind = "write" /\ writing[c].step = "commit" =>
  RowsOf(Head(writing[c].todo)) \subseteq conn[c].change[writing[c].table].rows

\* A write's connection is or was open, a staged one's is, and a running one has
\* its call.  A COMMIT that raised took effect for all its writes or for none.
WriteHolds(w) ==
  /\ On(w) \in Txs => conn[On(w)].open \/ conn[On(w)].closer # Nothing
  /\ Is(w, {"staged"}) => On(w) \in Txs /\ conn[On(w)].open
  /\ Is(w, {"running"}) => \E c \in Contexts : Busy(c) /\ w \in Pending(c)
  /\ Is(w, {"failed", "denied"}) /\ On(w) \in Txs =>
        ~conn[On(w)].open /\ (conn[On(w)].kept <=> Is(w, {"denied"}))

\* A row in the table was committed, or was half of a write refused whose
\* transaction committed.
RowsHold(t) ==
  /\ \A r \in db[t].rows :
       /\ history[r[1]].table = t
       /\ Is(r[1], {"committed", "denied"}) \/ (Is(r[1], {"refused"}) /\ On(r[1]) \in Txs /\ conn[On(r[1])].kept)
  /\ ~db[t].there => db[t].rows = {}

\* SQLite has one writer; only a PostgreSQL transaction is doomed, by a refusal.
ConnHolds(k) ==
  /\ conn[k].kept => k \in Txs /\ ~conn[k].open
  /\ connector = "sqlite" /\ conn[k].begun => \A j \in Connections : conn[j].begun => j = k
  /\ conn[k].failed => k \in Txs /\ connector = "postgres"
                       /\ \E v \in Writes : On(v) = k /\ Is(v, {"refused"})

\* The rows a connection has not committed are its own writes'; who dropped or
\* created a table has it alone.
ChangeHolds(k, t) ==
  LET mine == conn[k].change[t]
  IN /\ \A r \in mine.rows : On(r[1]) = k /\ history[r[1]].table = t
                              /\ Is(r[1], IF k \in Txs THEN {"staged", "refused"} ELSE {"running"})
     /\ mine.own /\ ~mine.there => mine.rows = {}
     /\ ~mine.own /\ mine.rows # {} => db[t].there
     /\ ~conn[k].open => mine = Same
     /\ connector = "sqlite" /\ ~conn[k].begun => mine = Same
     /\ mine.own => \A j \in Connections \ {k} : ~conn[j].change[t].own /\ conn[j].change[t].rows = {}

\* An overwriting write that stays in force with its connection.
Over(v, w) == w \in history[v].over
InForce(v) == connector = "sqlite" \/ Is(v, {"running", "staged"})

\* Who dropped a table noted every row that is in it.
Accounted(k, t) ==
  (conn[k].change[t].own /\ ~conn[k].failed) =>
     \A r \in db[t].rows : \E v \in Writes : On(v) = k /\ Over(v, r[1]) /\ InForce(v)

\* The rows of a staged write are in its connection, those of a committed one in
\* the table, or a write noted that it dropped them.
StagedKept(w) ==
  (Is(w, {"staged"}) /\ ~conn[On(w)].failed) =>
     \/ RowsOf(w) \subseteq conn[On(w)].change[history[w].table].rows
     \/ \E v \in Writes : On(v) = On(w) /\ Over(v, w) /\ InForce(v)
CommittedKept(w) ==
  (Is(w, {"committed", "denied"}) /\ ~Tainted(w)) =>
     \/ RowsOf(w) \subseteq db[history[w].table].rows
     \/ \E v \in Writes : Over(v, w) /\ (connector = "sqlite" \/ Is(v, {"committed", "denied"}))

\* PostgreSQL: a table dropped and not created again is one whose call is about
\* to create it, or whose transaction is doomed.
NoGapOpen ==
  \A k \in Connections, t \in TableNames :
    LET mine == conn[k].change[t]
    IN connector = "postgres" /\ ~conn[k].failed /\ mine.own /\ ~mine.there =>
       \E c \in Contexts : Busy(c) /\ writing[c].on = k /\ writing[c].table = t
                           /\ writing[c].step = "create"

StoreInv ==
  /\ TableTypes /\ NumbersInOrder /\ Shared
  /\ \A c \in Contexts : CallRouted(c)
  /\ \A c \in Contexts : CallPends(c) /\ CallBatches(c)
  /\ \A c \in Contexts : CallWrote(c)
  /\ \A w \in Writes : WriteHolds(w)
  /\ \A w \in Writes : StagedKept(w)
  /\ \A w \in Writes : CommittedKept(w)
  /\ \A t \in TableNames : RowsHold(t)
  /\ \A k \in Connections : ConnHolds(k)
  /\ \A k \in Connections, t \in TableNames : ChangeHolds(k, t)
  /\ \A k \in Connections, t \in TableNames : Accounted(k, t)
  /\ NoGapOpen

\* The invariant holds of tables that may exist, empty, and of nothing begun.
LEMMA InitHolds == TableInit => StoreInv
<1> SUFFICES ASSUME TableInit PROVE StoreInv
  OBVIOUS
<1>1. TableTypes
  BY DEF TableInit, TableTypes, Conns, Changes, Fresh, Same, Connections, Idle, NoWrite
<1>2. /\ \A c \in Contexts : ~Busy(c) /\ active[c] = Nothing
      /\ \A w \in Writes : history[w] = NoWrite
      /\ \A k \in Connections : /\ ~conn[k].open /\ ~conn[k].begun /\ ~conn[k].failed /\ ~conn[k].kept
                                /\ conn[k].closer = Nothing
      /\ \A k \in Connections, t \in TableNames : conn[k].change[t] = Same
      /\ \A t \in TableNames : db[t].rows = {}
  BY DEF TableInit, Busy, Fresh, Connections
<1>3. NumbersInOrder
  <2>1. \A w \in Writes : history[w].answer # "none" <=> w <= 0
    BY <1>2 DEF NoWrite, Writes
  <2> QED  BY <2>1 DEF NumbersInOrder
<1>4. Shared
  BY <1>2 DEF Shared, TableInit, Loop, Connections
<1>5. \A c \in Contexts : CallRouted(c) /\ CallPends(c) /\ CallBatches(c) /\ CallWrote(c)
  BY <1>2 DEF CallRouted, CallPends, CallBatches, CallWrote
<1>6. \A w \in Writes : WriteHolds(w) /\ StagedKept(w) /\ CommittedKept(w)
  BY <1>2 DEF WriteHolds, StagedKept, CommittedKept, On, Is, NoWrite, Connections
<1>7. \A t \in TableNames : RowsHold(t)
  BY <1>2 DEF RowsHold
<1>8. \A k \in Connections : ConnHolds(k)
  BY <1>2 DEF ConnHolds
<1>9. \A k \in Connections, t \in TableNames : ChangeHolds(k, t) /\ Accounted(k, t)
  BY <1>2 DEF ChangeHolds, Accounted, Same
<1>10. NoGapOpen
  BY <1>2 DEF NoGapOpen, Same
<1> QED  BY <1>1, <1>3, <1>4, <1>5, <1>6, <1>7, <1>8, <1>9, <1>10 DEF StoreInv

\* A transaction nobody used yet: no change, no write, no context.
LEMMA UnusedIsClean ==
  ASSUME StoreInv, NEW x \in UnusedTxs
  PROVE  /\ x \in Txs /\ x \in Connections /\ x \notin Contexts /\ x # Nothing
         /\ \A t \in TableNames : conn[x].change[t] = Same
         /\ ~conn[x].open /\ ~conn[x].failed
         /\ \A w \in Writes : On(w) # x
         /\ \A c \in Contexts : active[c] # x /\ (Busy(c) => writing[c].on # x)
<1>1. /\ x \in Txs /\ x \in Connections /\ x \notin Contexts /\ x # Nothing
      /\ ~conn[x].open /\ conn[x].closer = Nothing
  BY DEF UnusedTxs, Connections
<1>2. \A t \in TableNames : conn[x].change[t] = Same
  BY <1>1 DEF StoreInv, ChangeHolds
<1>3. \A w \in Writes : On(w) # x
  BY <1>1 DEF StoreInv, WriteHolds
<1>4. \A c \in Contexts : active[c] # x /\ (Busy(c) => writing[c].on # x)
  BY <1>1 DEF StoreInv, Shared, CallRouted
<1>5. ~conn[x].failed
  BY <1>1, <1>3 DEF StoreInv, ConnHolds
<1> QED  BY <1>1, <1>2, <1>3, <1>4, <1>5

\* A transaction begins on a connection nobody used.
LEMMA BeginHolds ==
  ASSUME StoreInv, NEW c \in Contexts, BeginTx(c)
  PROVE  StoreInv'
<1> DEFINE x == CHOOSE y \in UnusedTxs : TRUE
<1>x. x \in UnusedTxs
  BY DEF BeginTx
<1> HIDE DEF x
<1>0. /\ conn' = [conn EXCEPT ![x] = Fresh] /\ active' = [active EXCEPT ![c] = x]
      /\ active[c] = Nothing /\ ~Busy(c) /\ c \in born
      /\ UNCHANGED <<connector, db, born, writing, history>>
  BY DEF BeginTx, TakenBy, x, Free, Busy, Loop
<1>1. /\ x \in Txs /\ x \in Connections /\ x \notin Contexts /\ x # Nothing
      /\ \A t \in TableNames : conn[x].change[t] = Same
      /\ ~conn[x].open /\ ~conn[x].failed
      /\ \A w \in Writes : On(w) # x
      /\ \A d \in Contexts : active[d] # x /\ (Busy(d) => writing[d].on # x)
  BY <1>x, UnusedIsClean
<1>2. TableTypes'
  <2>1. Fresh \in Conns
    BY DEF Fresh, Same, Conns, Changes
  <2> QED  BY <1>0, <1>1, <2>1 DEF StoreInv, TableTypes
<1>3. /\ \A k \in Connections : k # x => conn'[k] = conn[k]
      /\ conn'[x].open /\ ~conn'[x].begun /\ ~conn'[x].failed /\ ~conn'[x].kept
      /\ conn'[x].closer = Nothing
      /\ \A t \in TableNames : conn'[x].change[t] = Same
      /\ \A d \in Contexts : d # c => active'[d] = active[d]
      /\ active'[c] = x
  BY <1>0, <1>1 DEF StoreInv, TableTypes, Fresh
<1>4. NumbersInOrder'
  BY <1>0 DEF StoreInv, NumbersInOrder
<1>5. Shared'
  BY <1>0, <1>1, <1>3 DEF StoreInv, Shared, TableTypes, Busy, Connections
<1>6. \A d \in Contexts : CallRouted(d)'
  BY <1>0, <1>1, <1>3 DEF StoreInv, CallRouted, Busy, Connections, TableTypes, TableCalls
<1>6a. \A d \in Contexts : CallPends(d)' /\ CallBatches(d)'
  <2> SUFFICES ASSUME NEW d \in Contexts PROVE CallPends(d)' /\ CallBatches(d)'
    OBVIOUS
  <2>0. CallPends(d) /\ CallBatches(d)
    BY DEF StoreInv
  <2>1. CallPends(d)'
    BY <1>0, <2>0 DEF CallPends, Busy, Pending, On, Is
  <2>2. CallBatches(d)'
    BY <1>0, <2>0 DEF CallBatches, Busy, Pending, On, Is
  <2> QED  BY <2>1, <2>2
<1>6b. \A d \in Contexts : CallWrote(d)'
  BY <1>0, <1>1, <1>3 DEF StoreInv, CallWrote, Busy, Connections
<1>7. \A w \in Writes : WriteHolds(w)'
  BY SMTT(30), <1>0, <1>1, <1>3 DEF StoreInv, WriteHolds, Busy, Pending, On, Is, Connections
<1>8. \A w \in Writes : StagedKept(w)'
  BY <1>0, <1>1, <1>3 DEF StoreInv, StagedKept, WriteHolds, On, Is, Over, InForce, Connections
<1>9. \A w \in Writes : CommittedKept(w)'
  BY <1>0 DEF StoreInv, CommittedKept, On, Is, Over, Tainted
<1>10. \A t \in TableNames : RowsHold(t)'
  BY <1>0, <1>1, <1>3 DEF StoreInv, RowsHold, On, Is, Connections, TableTypes, AllRows
<1>11. \A k \in Connections : ConnHolds(k)'
  BY <1>0, <1>1, <1>3 DEF StoreInv, ConnHolds, On, Is
<1>12. \A k \in Connections, t \in TableNames : ChangeHolds(k, t)'
  BY <1>0, <1>1, <1>3 DEF StoreInv, ChangeHolds, On, Is, Same
<1>13. \A k \in Connections, t \in TableNames : Accounted(k, t)'
  BY <1>0, <1>1, <1>3 DEF StoreInv, Accounted, On, Is, Over, InForce, Same
<1>14. NoGapOpen'
  BY <1>0, <1>1, <1>3 DEF StoreInv, NoGapOpen, Busy, Same
<1> QED  BY <1>2, <1>4, <1>5, <1>6, <1>6a, <1>6b, <1>7, <1>8, <1>9, <1>10, <1>11, <1>12, <1>13, <1>14 DEF StoreInv

\* A task starts with the variable of its parent, whose thread is idle.
LEMMA TaskHolds ==
  ASSUME StoreInv, NEW c \in Contexts, StartTask(c)
  PROVE  StoreInv'
<1>0. /\ c \in Tasks /\ c \notin born /\ Root \in born /\ ~Busy(Root)
      /\ born' = born \cup {c} /\ active' = [active EXCEPT ![c] = active[Root]]
      /\ UNCHANGED <<connector, db, conn, writing, history>>
  BY DEF StartTask, Free, Busy, Loop
<1>1. ~Busy(c) /\ active[c] = Nothing
  BY <1>0 DEF StoreInv, Shared
<1>2. /\ \A d \in Contexts : d # c => active'[d] = active[d]
      /\ active'[c] = active[Root]
  BY <1>0 DEF StoreInv, TableTypes
<1>3. TableTypes'
  BY <1>0 DEF StoreInv, TableTypes
<1>4. NumbersInOrder'
  BY <1>0 DEF StoreInv, NumbersInOrder
<1>5. Shared'
  <2>1. \A d, e \in Contexts : active'[d] = active'[e] /\ active'[d] # Nothing =>
           d = e \/ (d \in Loop /\ e \in Loop)
    BY <1>0, <1>2 DEF StoreInv, Shared, Loop
  <2>2. \A k \in Connections : conn[k].closer \in born' \cup {Nothing}
    BY <1>0 DEF StoreInv, Shared
  <2>3. \A d \in Contexts : active'[d] # Nothing =>
          conn[active'[d]].open \/ conn[active'[d]].closer \notin {Nothing, d}
    BY <1>0, <1>1, <1>2 DEF StoreInv, Shared, TableTypes, Connections
  <2> QED  BY <1>0, <1>1, <1>2, <2>1, <2>2, <2>3 DEF StoreInv, Shared, Busy
<1>6. \A d \in Contexts : CallRouted(d)'
  BY <1>0, <1>1, <1>2 DEF StoreInv, CallRouted, Busy
<1>6a. \A d \in Contexts : CallPends(d)' /\ CallBatches(d)'
  <2> SUFFICES ASSUME NEW d \in Contexts PROVE CallPends(d)' /\ CallBatches(d)'
    OBVIOUS
  <2>0. CallPends(d) /\ CallBatches(d)
    BY DEF StoreInv
  <2>1. CallPends(d)'
    BY <1>0, <2>0 DEF CallPends, Busy, Pending, On, Is
  <2>2. CallBatches(d)'
    BY <1>0, <2>0 DEF CallBatches, Busy, Pending, On, Is
  <2> QED  BY <2>1, <2>2
<1>6b. \A d \in Contexts : CallWrote(d)'
  BY <1>0 DEF StoreInv, CallWrote, Busy
<1>7. \A w \in Writes : WriteHolds(w)'
  BY <1>0 DEF StoreInv, WriteHolds, Busy, Pending, On, Is
<1>8. \A w \in Writes : StagedKept(w)'
  BY <1>0 DEF StoreInv, StagedKept, On, Is, Over, InForce
<1>9. \A w \in Writes : CommittedKept(w)'
  BY <1>0 DEF StoreInv, CommittedKept, On, Is, Over, Tainted
<1>10. \A t \in TableNames : RowsHold(t)'
  BY <1>0 DEF StoreInv, RowsHold, On, Is
<1>11. \A k \in Connections : ConnHolds(k)'
  BY <1>0 DEF StoreInv, ConnHolds, On, Is
<1>12. \A k \in Connections, t \in TableNames : ChangeHolds(k, t)'
  BY <1>0 DEF StoreInv, ChangeHolds, On, Is
<1>13. \A k \in Connections, t \in TableNames : Accounted(k, t)'
  BY <1>0 DEF StoreInv, Accounted, On, Is, Over, InForce
<1>14. NoGapOpen'
  BY <1>0 DEF StoreInv, NoGapOpen, Busy
<1> QED  BY <1>3, <1>4, <1>5, <1>6, <1>6a, <1>6b, <1>7, <1>8, <1>9, <1>10, <1>11, <1>12, <1>13, <1>14 DEF StoreInv

\* What stands at the head of a call's frames is pending.
LEMMA HeadIsPending ==
  ASSUME StoreInv, NEW c \in Contexts, Busy(c), writing[c].todo # <<>>
  PROVE  /\ Head(writing[c].todo) \in Writes
         /\ Head(writing[c].todo) \in Pending(c)
         /\ Pending(c) \subseteq Writes
<1>1. writing[c].todo \in Seq(Writes)
  BY DEF StoreInv, TableTypes, TableCalls, Busy
<1> QED  BY <1>1 DEF Pending

\* The frames a call has still to write have their numbers.
LEMMA PendingAreWrites ==
  ASSUME StoreInv, NEW c \in Contexts, Busy(c)
  PROVE  Pending(c) \subseteq Writes
<1>1. writing[c].todo \in Seq(Writes)
  BY DEF StoreInv, TableTypes, TableCalls, Busy
<1> QED  BY <1>1 DEF Pending

\* One call at a time uses a connection.
LEMMA OneCall ==
  ASSUME StoreInv, NEW c \in Contexts, NEW d \in Contexts, Busy(c), Busy(d),
         writing[c].on = writing[d].on
  PROVE  c = d
BY DEF StoreInv, Shared, CallRouted

\* What is answered when a connection ends.
LEMMA AnswersGiven ==
  ASSUME StoreInv, NEW ws \in SUBSET Writes, NEW a \in WriteAnswers \ {"none"},
         \A w \in ws : history[w] # NoWrite,
         history' = Answered(ws, a), connector' = connector
  PROVE  /\ history' \in [Writes -> TableEntries \cup {NoWrite}]
         /\ \A w \in Writes : /\ On(w)' = On(w)
                              /\ history'[w].table = history[w].table
                              /\ history'[w].answer = IF w \in ws THEN a ELSE history[w].answer
                              /\ w \notin ws => history'[w] = history[w]
                              /\ (connector = "sqlite" \/ a \notin {"refused", "undone", "failed"})
                                    => history'[w].over = history[w].over
         /\ NumbersInOrder'
<1>1. history \in [Writes -> TableEntries \cup {NoWrite}]
  BY DEF StoreInv, TableTypes
<1>2. \A w \in Writes : history'[w] =
         IF w \in ws
         THEN [history[w] EXCEPT !.answer = a,
                 !.over = IF a \in {"refused", "undone", "failed"} /\ connector = "postgres" THEN {} ELSE @]
         ELSE history[w]
  BY DEF Answered
<1>3. \A w \in ws : history[w] \in TableEntries
  BY <1>1
<1>4. \A w \in ws : history'[w] \in TableEntries
  BY <1>2, <1>3 DEF TableEntries
<1>5. history' \in [Writes -> TableEntries \cup {NoWrite}]
  BY <1>1, <1>2, <1>4 DEF Answered
<1>6. \A w \in Writes : /\ On(w)' = On(w)
                        /\ history'[w].table = history[w].table
                        /\ history'[w].answer = IF w \in ws THEN a ELSE history[w].answer
                        /\ w \notin ws => history'[w] = history[w]
                        /\ (connector = "sqlite" \/ a \notin {"refused", "undone", "failed"})
                              => history'[w].over = history[w].over
  <2> SUFFICES ASSUME NEW w \in Writes
               PROVE  /\ On(w)' = On(w)
                      /\ history'[w].table = history[w].table
                      /\ history'[w].answer = IF w \in ws THEN a ELSE history[w].answer
                      /\ w \notin ws => history'[w] = history[w]
                      /\ (connector = "sqlite" \/ a \notin {"refused", "undone", "failed"})
                            => history'[w].over = history[w].over
    OBVIOUS
  <2>1. CASE w \in ws
    BY <1>2, <1>3, <2>1 DEF On, TableEntries
  <2>2. CASE w \notin ws
    BY <1>2, <2>2 DEF On
  <2> QED  BY <2>1, <2>2
<1>7. NumbersInOrder'
  <2>1. \A w \in ws : history[w].answer # "none"
    BY <1>3 DEF TableEntries
  <2>2. a # "none"
    BY DEF WriteAnswers
  <2>3. \A w \in Writes : history'[w].answer # "none" <=> history[w].answer # "none"
    BY <1>6, <2>1, <2>2
  <2> QED  BY <2>3 DEF StoreInv, NumbersInOrder
<1> QED  BY <1>5, <1>6, <1>7

\* The end of a connection k: its changes are committed or dropped, and the
\* writes on it that had no final answer get one.
LEMMA ClosingHolds ==
  ASSUME StoreInv, NEW k \in Connections, NEW c \in born, NEW commit \in BOOLEAN,
         NEW ws \in SUBSET Writes, NEW a \in Commits \cup {"undone", "refused"},
         conn[k].open,
         conn' = [conn EXCEPT ![k] = Closed(c, commit /\ k \in Txs)],
         db' = IF commit THEN Settled(k) ELSE db,
         history' = Answered(ws, a),
         active' = Cleared(c, k),
         UNCHANGED <<connector, born>>,
         writing' \in [Contexts -> TableCalls \cup {Idle}],
         \A d \in Contexts : Busy(d)' => /\ Busy(d) /\ writing'[d] = writing[d]
                                         /\ writing[d].on # k,
         \A d \in Contexts : Busy(d) /\ writing[d].on # k => writing'[d] = writing[d],
         \A w \in ws : On(w) = k /\ Is(w, {"running", "staged", "refused"}),
         \A w \in Writes : On(w) = k /\ Is(w, {"running", "staged"}) => w \in ws,
         commit <=> TookEffect(a),
         \A w \in ws : Is(w, {"refused"}) => a = "refused",
         commit /\ ~conn[k].failed => \A w \in ws :
            \/ RowsOf(w) \subseteq conn[k].change[history[w].table].rows
            \/ \E v \in Writes : On(v) = k /\ Over(v, w) /\ InForce(v),
         commit => \A d \in Contexts : Busy(d) /\ writing[d].on = k => writing[d].step # "create"
  PROVE  /\ StoreInv'
         /\ connector = "postgres" => \A t \in TableNames : db[t].there => db'[t].there
<1> DEFINE keeps == commit /\ ~conn[k].failed
           Mine(t) == conn[k].change[t]
<1>a. \A w \in ws : history[w] # NoWrite
  BY DEF Is, NoWrite
<1>b. a \in WriteAnswers \ {"none"}
  BY DEF WriteAnswers, Commits
<1>c. /\ a \in {"committed", "failed", "denied", "undone", "refused"}
      /\ commit <=> a \in {"committed", "denied"}
  BY DEF Commits, TookEffect
<1>1. /\ history' \in [Writes -> TableEntries \cup {NoWrite}]
      /\ NumbersInOrder'
      /\ \A w \in Writes : /\ On(w)' = On(w)
                           /\ history'[w].table = history[w].table
                           /\ history'[w].answer = IF w \in ws THEN a ELSE history[w].answer
                           /\ w \notin ws => history'[w] = history[w]
                           /\ (connector = "sqlite" \/ a \notin {"refused", "undone", "failed"})
                                 => history'[w].over = history[w].over
  BY <1>a, <1>b, AnswersGiven
<1>2. /\ \A j \in Connections : j # k => conn'[j] = conn[j]
      /\ ~conn'[k].open /\ ~conn'[k].begun /\ ~conn'[k].failed
      /\ conn'[k].kept = (commit /\ k \in Txs) /\ conn'[k].closer = c
      /\ \A t \in TableNames : conn'[k].change[t] = Same
  BY DEF StoreInv, TableTypes, Closed, Fresh
<1>3. \A d \in Contexts : /\ active[d] # k \/ d # c => active'[d] = active[d]
                          /\ active'[d] # active[d] => active'[d] = Nothing
                          /\ active'[d] = k => d # c
  BY SMTT(30) DEF StoreInv, TableTypes, Cleared, Connections
<1>4. \A t \in TableNames :
         /\ keeps /\ Mine(t).own =>
               db'[t].there = Mine(t).there /\ db'[t].rows = Mine(t).rows
         /\ keeps /\ ~Mine(t).own =>
               db'[t].there = db[t].there /\ db'[t].rows = db[t].rows \cup Mine(t).rows
         /\ ~keeps \/ (~Mine(t).own /\ Mine(t).rows = {}) => db'[t] = db[t]
         /\ db'[t] \in [there : BOOLEAN, rows : SUBSET AllRows]
  <2> SUFFICES ASSUME NEW t \in TableNames
               PROVE  /\ keeps /\ Mine(t).own =>
                            db'[t].there = Mine(t).there /\ db'[t].rows = Mine(t).rows
                      /\ keeps /\ ~Mine(t).own =>
                            db'[t].there = db[t].there /\ db'[t].rows = db[t].rows \cup Mine(t).rows
                      /\ ~keeps \/ (~Mine(t).own /\ Mine(t).rows = {}) => db'[t] = db[t]
                      /\ db'[t] \in [there : BOOLEAN, rows : SUBSET AllRows]
    OBVIOUS
  <2>1. Mine(t) \in Changes /\ db[t] \in [there : BOOLEAN, rows : SUBSET AllRows]
    BY DEF StoreInv, TableTypes, Conns
  <2>2. db[t] = [there |-> db[t].there, rows |-> db[t].rows \cup {}]
    BY <2>1
  <2>3. CASE keeps /\ Mine(t).own
    <3>1. db'[t] = [there |-> Mine(t).there, rows |-> Mine(t).rows]
      BY <2>3 DEF Settled, View
    <3> QED  BY <2>1, <2>3, <3>1 DEF Changes
  <2>4. CASE keeps /\ ~Mine(t).own
    <3>1. db'[t] = [there |-> db[t].there, rows |-> db[t].rows \cup Mine(t).rows]
      BY <2>4 DEF Settled, View
    <3>2. Mine(t).rows = {} => db'[t] = db[t]
      BY <2>2, <3>1
    <3> QED  BY <2>1, <2>4, <3>1, <3>2 DEF Changes
  <2>5. CASE ~keeps
    BY <2>1, <2>5 DEF Settled
  <2> QED  BY <2>3, <2>4, <2>5
<1>5. \A t \in TableNames : ChangeHolds(k, t)
  BY DEF StoreInv
<1> HIDE DEF keeps, Mine
<1>7. TableTypes'
  <2>1. conn' \in [Connections -> Conns]
    <3>1. Closed(c, commit /\ k \in Txs) \in Conns
      BY DEF Closed, Fresh, Same, Conns, Changes, StoreInv, TableTypes
    <3> QED  BY <3>1 DEF StoreInv, TableTypes
  <2>2. db' \in [TableNames -> [there : BOOLEAN, rows : SUBSET AllRows]]
    <3>1. \A t \in TableNames : db'[t] \in [there : BOOLEAN, rows : SUBSET AllRows]
      BY <1>4
    <3>2. \E f : db' = [t \in TableNames |-> f[t]]
      <4>1. db = [t \in TableNames |-> db[t]]
        BY DEF StoreInv, TableTypes
      <4>2. CASE commit /\ ~conn[k].failed
        BY <4>2 DEF Settled
      <4>3. CASE ~(commit /\ ~conn[k].failed)
        BY <4>1, <4>3 DEF Settled
      <4> QED  BY <4>2, <4>3
    <3> QED  BY <3>1, <3>2
  <2>3. active' \in [Contexts -> Txs \cup {Nothing}]
    BY DEF StoreInv, TableTypes, Cleared
  <2> QED  BY <1>1, <2>1, <2>2, <2>3 DEF StoreInv, TableTypes
<1>8. Shared'
  <2>1. \A d, e \in Contexts : active'[d] = active'[e] /\ active'[d] # Nothing =>
           d = e \/ (d \in Loop /\ e \in Loop)
    BY <1>3 DEF StoreInv, Shared
  <2>2. \A d, e \in Loop : Busy(d)' /\ Busy(e)' => d = e
    BY DEF StoreInv, Shared, Loop
  <2>3. \A d \in Contexts \ born : active'[d] = Nothing /\ ~Busy(d)'
    BY <1>3 DEF StoreInv, Shared
  <2>4. \A j \in Connections : conn'[j].closer \in born \cup {Nothing}
    BY <1>2 DEF StoreInv, Shared
  <2>5. \A d \in Contexts : active'[d] # Nothing =>
          conn'[active'[d]].open \/ conn'[active'[d]].closer \notin {Nothing, d}
    BY <1>2, <1>3 DEF StoreInv, Shared, TableTypes, Connections
  <2> QED  BY <2>1, <2>2, <2>3, <2>4, <2>5 DEF Shared
<1>9. \A d \in Contexts : CallRouted(d)'
  BY <1>2, <1>3 DEF StoreInv, CallRouted, TableTypes, TableCalls, Connections, Busy
<1>10. \A d \in Contexts : CallPends(d)' /\ CallBatches(d)' /\ CallWrote(d)'
  <2> SUFFICES ASSUME NEW d \in Contexts, Busy(d)'
               PROVE  CallPends(d)' /\ CallBatches(d)' /\ CallWrote(d)'
    BY DEF CallPends, CallBatches, CallWrote
  <2>1. /\ Busy(d) /\ writing'[d] = writing[d] /\ writing[d].on # k
        /\ CallPends(d) /\ CallBatches(d) /\ CallWrote(d)
        /\ Pending(d)' = Pending(d) /\ Pending(d) \subseteq Writes
    BY PendingAreWrites DEF StoreInv, Pending
  <2>2. \A w \in Writes : On(w) = writing[d].on => history'[w] = history[w]
    BY <1>1, <2>1
  <2>3. \A w \in Pending(d) : On(w) = writing[d].on
    BY <2>1 DEF CallPends
  <2>4. writing[d].todo # <<>> => history'[Head(writing[d].todo)] = history[Head(writing[d].todo)]
    BY <2>1, <2>2, <2>3, HeadIsPending
  <2>5. CallPends(d)'
    <3>1. /\ \A w \in Pending(d) : On(w)' = writing[d].on /\ history'[w].table = writing[d].table
          /\ writing[d].step # "abort" => \A w \in Pending(d) : Is(w, {"running"})'
      BY <2>1, <2>2, <2>3 DEF CallPends, On, Is
    <3>2. writing[d].step = "drop" => history'[Head(writing[d].todo)].over = {}
      BY <2>1, <2>4 DEF CallPends
    <3> QED  BY <2>1, <3>1, <3>2 DEF CallPends
  <2>6. CallBatches(d)'
    BY <1>1, <2>1, <2>2 DEF CallBatches, On, Is
  <2>7. CallWrote(d)'
    <3>1. writing[d].kind = "write" /\ writing[d].step = "commit" => writing[d].on = d
      BY <2>1 DEF CallPends
    <3>2. d \in Connections
      BY DEF Connections
    <3> QED  BY <1>2, <2>1, <3>1, <3>2 DEF CallWrote
  <2> QED  BY SMTT(30), <2>5, <2>6, <2>7
<1>11. \A w \in Writes : WriteHolds(w)'
  <2> SUFFICES ASSUME NEW w \in Writes PROVE WriteHolds(w)'
    OBVIOUS
  <2>1. WriteHolds(w)
    BY DEF StoreInv
  <2>2. Is(w, {"running"})' => \E d \in Contexts : Busy(d)' /\ w \in Pending(d)'
    <3> SUFFICES ASSUME Is(w, {"running"})' PROVE \E d \in Contexts : Busy(d)' /\ w \in Pending(d)'
      OBVIOUS
    <3>1. w \notin ws /\ Is(w, {"running"})
      BY <1>1, <1>c DEF Is
    <3>2. PICK d \in Contexts : Busy(d) /\ w \in Pending(d)
      BY <2>1, <3>1 DEF WriteHolds
    <3>3. On(w) = writing[d].on
      BY <3>2 DEF StoreInv, CallPends
    <3>4. writing[d].on # k
      BY <3>1, <3>3 DEF Is
    <3>5. writing'[d] = writing[d]
      BY <3>2, <3>4
    <3> QED  BY <3>2, <3>5 DEF Busy, Pending
  <2>3. Is(w, {"staged"})' => On(w)' \in Txs /\ conn'[On(w)'].open
    BY <1>1, <1>2, <1>c, <2>1 DEF WriteHolds, Is, Connections
  <2>4. On(w)' \in Txs => conn'[On(w)'].open \/ conn'[On(w)'].closer # Nothing
    BY <1>1, <1>2, <2>1 DEF WriteHolds, Connections, StoreInv, TableTypes
  <2>5. Is(w, {"failed", "denied"})' /\ On(w)' \in Txs =>
           ~conn'[On(w)'].open /\ (conn'[On(w)'].kept <=> Is(w, {"denied"})')
    <3>1. CASE w \in ws
      BY <1>1, <1>2, <1>c, <3>1 DEF Is
    <3>2. CASE w \notin ws
      <4>1. On(w) \in Txs /\ Is(w, {"failed", "denied"}) => On(w) # k /\ On(w) \in Connections
        BY <2>1 DEF WriteHolds, Connections
      <4> QED  BY <1>1, <1>2, <2>1, <3>2, <4>1 DEF WriteHolds, Is
    <3> QED  BY <3>1, <3>2
  <2> QED  BY <2>2, <2>3, <2>4, <2>5 DEF WriteHolds
\* An overwriting write that was in force stays so.
<1>12. \A v \in Writes : On(v) # k /\ InForce(v) =>
          InForce(v)' /\ (\A w \in Writes : Over(v, w) => Over(v, w)')
  BY <1>1 DEF InForce, Over, Is
<1>13. \A v \in Writes : On(v) = k /\ InForce(v) /\ commit =>
          /\ connector = "sqlite" \/ Is(v, {"committed", "denied"})'
          /\ \A w \in Writes : Over(v, w) => Over(v, w)'
  BY SMTT(30), <1>1, <1>c DEF InForce, Over, Is
<1>14. \A w \in Writes : StagedKept(w)'
  <2> SUFFICES ASSUME NEW w \in Writes, Is(w, {"staged"})', ~conn'[On(w)'].failed
               PROVE  \/ RowsOf(w) \subseteq conn'[On(w)'].change[history'[w].table].rows
                      \/ \E v \in Writes : On(v)' = On(w)' /\ Over(v, w)' /\ InForce(v)'
    BY DEF StagedKept
  <2>1. w \notin ws /\ Is(w, {"staged"}) /\ On(w) # k /\ history'[w] = history[w]
    BY <1>1, <1>c DEF Is
  <2>2. On(w) \in Connections
    BY <2>1 DEF StoreInv, WriteHolds, Connections
  <2>3. \/ RowsOf(w) \subseteq conn[On(w)].change[history[w].table].rows
        \/ \E v \in Writes : On(v) = On(w) /\ Over(v, w) /\ InForce(v)
    BY <1>1, <1>2, <2>1, <2>2 DEF StoreInv, StagedKept
  <2> QED  BY <1>1, <1>2, <1>12, <2>1, <2>2, <2>3
<1>15. \A w \in Writes : CommittedKept(w)'
  <2> SUFFICES ASSUME NEW w \in Writes, Is(w, {"committed", "denied"})', ~Tainted(w)'
               PROVE  \/ RowsOf(w) \subseteq db'[history'[w].table].rows
                      \/ \E v \in Writes : Over(v, w)' /\ (connector' = "sqlite" \/ Is(v, {"committed", "denied"})')
    BY DEF CommittedKept
  <2>1. CASE w \in ws
    <3>1. commit /\ On(w) = k
      BY <1>1, <1>c, <2>1 DEF Is
    <3>2. ~conn[k].failed
      <4> SUFFICES ASSUME conn[k].failed PROVE FALSE
        OBVIOUS
      <4>1. k \in Txs /\ \E v \in Writes : On(v) = k /\ Is(v, {"refused"})
        BY DEF StoreInv, ConnHolds
      <4>2. PICK v \in Writes : On(v) = k /\ Is(v, {"refused"})
        BY <4>1
      <4>3. v \notin ws
        BY <1>c, <3>1, <4>2 DEF Is
      <4>4. Is(v, {"refused"})' /\ On(v)' = k /\ On(w)' = k
        BY <1>1, <3>1, <4>2, <4>3 DEF Is
      <4> QED  BY <4>1, <4>4 DEF Tainted, Is, On
    <3>3. history[w].table \in TableNames
      BY <1>a, <2>1 DEF StoreInv, TableTypes, TableEntries
    <3>4. CASE RowsOf(w) \subseteq Mine(history[w].table).rows
      BY <1>1, <1>4, <3>1, <3>2, <3>3, <3>4 DEF keeps
    <3>5. CASE \E v \in Writes : On(v) = k /\ Over(v, w) /\ InForce(v)
      BY <1>13, <3>1, <3>5
    <3> QED  BY <2>1, <3>1, <3>2, <3>4, <3>5 DEF Mine
  <2>2. CASE w \notin ws
    <3>1. Is(w, {"committed", "denied"}) /\ history'[w] = history[w]
      BY <1>1, <2>2 DEF Is
    <3>2. ~Tainted(w)
      <4> SUFFICES ASSUME Tainted(w) PROVE FALSE
        OBVIOUS
      <4>1. PICK v \in Writes : /\ history[v].on = history[w].on /\ history[w].on \in Txs
                                /\ history[v].answer = "refused"
        BY DEF Tainted
      <4>2. history'[v].answer = "refused"
        <5>1. v \in ws => a = "refused"
          BY <4>1 DEF Is
        <5> QED  BY <1>1, <4>1, <5>1
      <4>3. history'[v].on = history'[w].on /\ history'[w].on \in Txs
        BY <1>1, <3>1, <4>1 DEF On
      <4> QED  BY <4>2, <4>3 DEF Tainted
    <3>3. CASE RowsOf(w) \subseteq db[history[w].table].rows
      <4>1. history[w].table \in TableNames
        BY <3>1 DEF StoreInv, TableTypes, TableEntries, NoWrite, Is
      <4>2. CASE keeps /\ Mine(history[w].table).own
        <5>1. <<w, 1>> \in db[history[w].table].rows
          BY <3>3 DEF RowsOf
        <5>2. PICK v \in Writes : On(v) = k /\ Over(v, <<w, 1>>[1]) /\ InForce(v)
          BY <4>1, <4>2, <5>1 DEF StoreInv, Accounted, keeps, Mine
        <5>3. Over(v, w)
          BY <5>2
        <5> QED  BY <1>13, <4>2, <5>2, <5>3 DEF keeps
      <4>3. CASE ~(keeps /\ Mine(history[w].table).own)
        <5>1. db[history[w].table].rows \subseteq db'[history[w].table].rows
          BY <1>4, <4>1, <4>3
        <5> QED  BY <3>1, <3>3, <5>1
      <4> QED  BY <4>2, <4>3
    <3>4. CASE \E v \in Writes : Over(v, w) /\ (connector = "sqlite" \/ Is(v, {"committed", "denied"}))
      <4>1. PICK v \in Writes : Over(v, w) /\ (connector = "sqlite" \/ Is(v, {"committed", "denied"}))
        BY <3>4
      <4>2. connector = "sqlite" => Over(v, w)'
        BY <1>1, <4>1 DEF Over
      <4>3. connector # "sqlite" => v \notin ws /\ Over(v, w)' /\ Is(v, {"committed", "denied"})'
        BY <1>1, <4>1 DEF Over, Is
      <4> QED  BY <4>2, <4>3
    <3> QED  BY <3>1, <3>2, <3>3, <3>4 DEF StoreInv, CommittedKept
  <2> QED  BY <2>1, <2>2
<1>16. \A t \in TableNames : RowsHold(t)'
  <2> SUFFICES ASSUME NEW t \in TableNames PROVE RowsHold(t)'
    OBVIOUS
  <2>1. RowsHold(t) /\ ChangeHolds(k, t)
    BY DEF StoreInv
  <2>2. ~db'[t].there => db'[t].rows = {}
    BY <1>4, <2>1 DEF RowsHold, ChangeHolds, Mine
  <2>3. ASSUME NEW r \in db'[t].rows
        PROVE  /\ history'[r[1]].table = t
               /\ \/ Is(r[1], {"committed", "denied"})'
                  \/ Is(r[1], {"refused"})' /\ On(r[1])' \in Txs /\ conn'[On(r[1])'].kept
    <3>0. r[1] \in Writes
      BY <1>7 DEF TableTypes, AllRows
    <3>1. CASE r \in db[t].rows
      <4>1. /\ history[r[1]].table = t
            /\ \/ Is(r[1], {"committed", "denied"})
               \/ Is(r[1], {"refused"}) /\ On(r[1]) \in Txs /\ conn[On(r[1])].kept
        BY <2>1, <3>1 DEF RowsHold
      <4>2. CASE Is(r[1], {"committed", "denied"})
        <5>1. r[1] \notin ws
          BY <4>2 DEF Is
        <5> QED  BY <1>1, <3>0, <4>1, <4>2, <5>1 DEF Is
      <4>3. CASE Is(r[1], {"refused"}) /\ On(r[1]) \in Txs /\ conn[On(r[1])].kept
        <5>1. On(r[1]) # k /\ On(r[1]) \in Connections
          BY <4>3 DEF StoreInv, ConnHolds, Connections
        <5>2. r[1] \notin ws
          BY <5>1
        <5> QED  BY <1>1, <1>2, <3>0, <4>1, <4>3, <5>1, <5>2 DEF Is
      <4> QED  BY <4>1, <4>2, <4>3
    <3>2. CASE r \in Mine(t).rows /\ keeps
      <4>1. /\ On(r[1]) = k /\ history[r[1]].table = t
            /\ Is(r[1], IF k \in Txs THEN {"staged", "refused"} ELSE {"running"})
        BY <2>1, <3>2 DEF ChangeHolds, Mine
      <4>2. CASE r[1] \in ws
        BY <1>1, <1>c, <3>0, <3>2, <4>1, <4>2 DEF Is, keeps
      <4>3. CASE r[1] \notin ws
        <5>1. k \in Txs /\ Is(r[1], {"refused"})
          BY <3>0, <4>1, <4>3 DEF Is
        <5>2. Is(r[1], {"refused"})' /\ On(r[1])' = k
          BY <1>1, <3>0, <4>1, <4>3, <5>1 DEF Is
        <5>3. conn'[k].kept
          BY <1>2, <3>2, <5>1 DEF keeps
        <5> QED  BY <1>1, <3>0, <4>1, <5>1, <5>2, <5>3
      <4> QED  BY <4>2, <4>3
    <3> QED  BY <1>4, <3>1, <3>2
  <2> QED  BY <2>2, <2>3 DEF RowsHold
<1>17. \A j \in Connections : ConnHolds(j)'
  <2> SUFFICES ASSUME NEW j \in Connections PROVE ConnHolds(j)'
    OBVIOUS
  <2>1. ConnHolds(j)
    BY DEF StoreInv
  <2>2. CASE j = k
    BY <1>2, <2>2 DEF ConnHolds
  <2>3. CASE j # k
    <3>1. conn'[j] = conn[j]
      BY <1>2, <2>3
    <3>2. \A v \in Writes : On(v) = j => history'[v] = history[v]
      BY <1>1, <2>3
    <3>3. \A i \in Connections : conn'[i].begun => conn[i].begun
      BY <1>2
    <3> QED  BY <2>1, <3>1, <3>2, <3>3 DEF ConnHolds, On, Is
  <2> QED  BY <2>2, <2>3
<1>18. \A j \in Connections, t \in TableNames : ChangeHolds(j, t)' /\ Accounted(j, t)'
  <2> SUFFICES ASSUME NEW j \in Connections, NEW t \in TableNames
               PROVE  ChangeHolds(j, t)' /\ Accounted(j, t)'
    OBVIOUS
  <2>1. ChangeHolds(j, t) /\ Accounted(j, t) /\ ChangeHolds(k, t)
    BY DEF StoreInv
  <2>2. CASE j = k
    BY <1>2, <2>2 DEF ChangeHolds, Accounted, Same
  <2>3. CASE j # k
    <3>1. conn'[j] = conn[j] /\ conn[j].change[t] \in Changes
      BY <1>2, <2>3 DEF StoreInv, TableTypes, Conns
    <3>2. \A v \in Writes : On(v) = j => history'[v] = history[v]
      BY <1>1, <2>3
    <3>3. \A r \in conn[j].change[t].rows : r[1] \in Writes
      BY <3>1 DEF Changes, AllRows
    <3>4. conn[j].change[t].own => db'[t] = db[t]
      <4> SUFFICES ASSUME conn[j].change[t].own PROVE db'[t] = db[t]
        OBVIOUS
      <4>1. ~Mine(t).own /\ Mine(t).rows = {}
        BY <2>1, <2>3 DEF ChangeHolds, Mine
      <4>2. db[t] = [there |-> db[t].there, rows |-> db[t].rows \cup {}]
        BY DEF StoreInv, TableTypes
      <4> QED  BY <1>4, <4>1, <4>2
    <3>5. conn[j].change[t].rows # {} => ~Mine(t).own
      BY <2>1, <2>3 DEF ChangeHolds, Mine
    <3>6. ChangeHolds(j, t)'
      <4>1. \A r \in conn[j].change[t].rows :
               /\ On(r[1])' = j /\ history'[r[1]].table = t
               /\ Is(r[1], IF j \in Txs THEN {"staged", "refused"} ELSE {"running"})'
        BY <2>1, <3>2, <3>3 DEF ChangeHolds, On, Is
      <4>2. conn[j].change[t].own => \A i \in Connections \ {j} :
               ~conn'[i].change[t].own /\ conn'[i].change[t].rows = {}
        BY <1>2, <2>1 DEF ChangeHolds, Same
      <4>3. ~conn[j].change[t].own /\ conn[j].change[t].rows # {} => db'[t].there
        BY <1>4, <2>1, <3>5 DEF ChangeHolds
      <4> QED  BY <2>1, <3>1, <4>1, <4>2, <4>3 DEF ChangeHolds
    <3>7. Accounted(j, t)'
      <4> SUFFICES ASSUME conn[j].change[t].own, ~conn[j].failed, NEW r \in db[t].rows
                   PROVE  \E v \in Writes : On(v)' = j /\ Over(v, r[1])' /\ InForce(v)'
        BY <3>1, <3>4 DEF Accounted
      <4>1. PICK v \in Writes : On(v) = j /\ Over(v, r[1]) /\ InForce(v)
        BY <2>1 DEF Accounted
      <4>2. r[1] \in Writes
        BY DEF StoreInv, TableTypes, AllRows
      <4> QED  BY <1>1, <1>12, <2>3, <4>1, <4>2
    <3> QED  BY <3>6, <3>7
  <2> QED  BY <2>2, <2>3
<1>19. NoGapOpen'
  <2> SUFFICES ASSUME NEW j \in Connections, NEW t \in TableNames,
                      connector = "postgres", ~conn'[j].failed,
                      conn'[j].change[t].own, ~conn'[j].change[t].there
               PROVE  \E d \in Contexts : Busy(d)' /\ writing'[d].on = j /\ writing'[d].table = t
                                          /\ writing'[d].step = "create"
    BY DEF NoGapOpen
  <2>1. j # k /\ conn'[j] = conn[j]
    BY <1>2 DEF Same
  <2>2. PICK d \in Contexts : Busy(d) /\ writing[d].on = j /\ writing[d].table = t
                              /\ writing[d].step = "create"
    BY <2>1 DEF StoreInv, NoGapOpen
  <2>3. writing'[d] = writing[d]
    BY <2>1, <2>2
  <2> QED  BY <2>2, <2>3 DEF Busy
<1>20. ASSUME connector = "postgres", NEW t \in TableNames, db[t].there
       PROVE  db'[t].there
  <2>1. CASE keeps /\ Mine(t).own
    <3>1. Mine(t).there
      BY <1>20, <2>1 DEF StoreInv, NoGapOpen, keeps, Mine
    <3> QED  BY <1>4, <2>1, <3>1
  <2>2. CASE ~(keeps /\ Mine(t).own)
    BY SMTT(30), <1>4, <1>20, <2>2
  <2> QED  BY <2>1, <2>2
<1> QED  BY <1>1, <1>7, <1>8, <1>9, <1>10, <1>11, <1>14, <1>15, <1>16, <1>17, <1>18, <1>19, <1>20 DEF StoreInv

\* commit() or abort() by a context that holds the transaction.
LEMMA FinishHolds ==
  ASSUME StoreInv, NEW c \in Contexts, NEW a \in Commits \cup {"undone"}, FinishTx(c, a)
  PROVE  /\ StoreInv'
         /\ connector = "postgres" => \A t \in TableNames : db[t].there => db'[t].there
<1> DEFINE k == active[c]
           done == TookEffect(a)
           ws == StagedIn(k)
<1>1. k \in Txs /\ k \in Connections /\ c \in born /\ conn[k].open /\ ~Busy(c)
  BY DEF FinishTx, Free, Busy, Loop, StoreInv, TableTypes, Connections
<1>2. /\ conn' = [conn EXCEPT ![k] = Closed(c, done /\ k \in Txs)]
      /\ db' = IF done THEN Settled(k) ELSE db
      /\ history' = Answered(ws, a)
      /\ active' = Cleared(c, k)
      /\ UNCHANGED <<connector, born, writing>>
  <2>1. (done /\ k \in Txs) = TookEffect(a)
    BY <1>1 DEF TookEffect
  <2> QED  BY <2>1 DEF FinishTx, Close
<1>3. \A d \in Contexts : Busy(d) => writing[d].on # k
  <2> SUFFICES ASSUME NEW d \in Contexts, Busy(d), writing[d].on = k PROVE FALSE
    OBVIOUS
  <2>1. active[d] = k
    BY <1>1 DEF StoreInv, CallRouted, Connections
  <2>2. d = c \/ (d \in Loop /\ c \in Loop)
    BY <1>1, <2>1 DEF StoreInv, Shared
  <2> QED  BY <2>2 DEF FinishTx, Free, Busy
<1>4. /\ ws \in SUBSET Writes
      /\ \A w \in ws : On(w) = k /\ Is(w, {"staged"})
      /\ \A w \in Writes : On(w) = k /\ Is(w, {"staged"}) => w \in ws
  BY DEF StagedIn, On, Is
<1>5. \A w \in Writes : On(w) = k => ~Is(w, {"running"})
  BY <1>3 DEF StoreInv, WriteHolds, CallPends
<1>6. done /\ ~conn[k].failed => \A w \in ws :
         \/ RowsOf(w) \subseteq conn[k].change[history[w].table].rows
         \/ \E v \in Writes : On(v) = k /\ Over(v, w) /\ InForce(v)
  BY <1>4 DEF StoreInv, StagedKept
<1>7. a \in Commits \cup {"undone", "refused"} /\ done \in BOOLEAN /\ (done <=> TookEffect(a))
  BY DEF TookEffect
<1>8. writing' \in [Contexts -> TableCalls \cup {Idle}]
  BY <1>2 DEF StoreInv, TableTypes
<1>9. \A d \in Contexts : Busy(d)' => Busy(d) /\ writing'[d] = writing[d]
  BY <1>2 DEF Busy
<1>10. \A w \in ws : /\ On(w) = k /\ Is(w, {"running", "staged", "refused"})
                     /\ Is(w, {"refused"}) => a = "refused"
  BY <1>4 DEF Is
<1>11. \A w \in Writes : On(w) = k /\ Is(w, {"running", "staged"}) => w \in ws
  BY <1>4, <1>5 DEF Is
<1> HIDE DEF k, done, ws
<1> QED  BY <1>1, <1>2, <1>3, <1>4, <1>6, <1>7, <1>8, <1>9, <1>10, <1>11, ClosingHolds

\* The writes pending in a call on a connection of its own, and its head.
LEMMA OwnCall ==
  ASSUME StoreInv, NEW c \in Contexts, Busy(c), writing[c].on = c
  PROVE  /\ writing[c].kind = "write"
         /\ Head(writing[c].todo) \in Writes
         /\ Pending(c) = {Head(writing[c].todo)}
         /\ On(Head(writing[c].todo)) = c /\ Is(Head(writing[c].todo), {"running"})
         /\ c \in Connections /\ c \notin Txs /\ conn[c].open /\ c \in born
         /\ \A w \in Writes : On(w) = c /\ Is(w, {"running", "staged"}) => w = Head(writing[c].todo)
         /\ \A d \in Contexts : Busy(d) /\ writing[d].on = c => d = c
<1>1. c \in Connections /\ c \notin Txs /\ conn[c].open /\ c \in born
  BY DEF StoreInv, CallRouted, Connections, Shared
<1>2. writing[c].kind = "write" /\ Len(writing[c].todo) = 1 /\ writing[c].step # "abort"
  BY <1>1 DEF StoreInv, CallPends, CallBatches, TableTypes, TableCalls, Busy
<1>3. writing[c].todo \in Seq(Writes)
  BY DEF StoreInv, TableTypes, TableCalls, Busy
<1>4. Head(writing[c].todo) \in Writes /\ Pending(c) = {Head(writing[c].todo)}
  BY <1>2, <1>3 DEF Pending
<1>5. On(Head(writing[c].todo)) = c /\ Is(Head(writing[c].todo), {"running"})
  BY <1>2, <1>4 DEF StoreInv, CallPends
<1>6. \A d \in Contexts : Busy(d) /\ writing[d].on = c => d = c
  BY OneCall
<1>7. \A w \in Writes : On(w) = c /\ Is(w, {"running", "staged"}) => w = Head(writing[c].todo)
  <2> SUFFICES ASSUME NEW w \in Writes, On(w) = c, Is(w, {"running", "staged"})
               PROVE  w = Head(writing[c].todo)
    OBVIOUS
  <2>1. Is(w, {"running"})
    BY <1>1 DEF StoreInv, WriteHolds, Is
  <2>2. PICK d \in Contexts : Busy(d) /\ w \in Pending(d)
    BY <2>1 DEF StoreInv, WriteHolds
  <2>3. On(w) = writing[d].on
    BY <2>2 DEF StoreInv, CallPends
  <2> QED  BY <1>4, <1>6, <2>2, <2>3
<1> QED  BY <1>1, <1>2, <1>4, <1>5, <1>6, <1>7

\* What ends a call on its own connection: its commit, or a failure before.
LEMMA OwnEndHolds ==
  ASSUME StoreInv, NEW c \in Contexts, Busy(c), writing[c].on = c,
         NEW a \in Commits \cup {"refused"}, NEW ok \in BOOLEAN, ok <=> TookEffect(a),
         ok => writing[c].step = "commit",
         conn' = [conn EXCEPT ![c] = Closed(c, FALSE)],
         db' = IF ok THEN Settled(c) ELSE db,
         writing' = [writing EXCEPT ![c] = Idle],
         history' = Answered({Head(writing[c].todo)}, a),
         UNCHANGED <<connector, active, born>>
  PROVE  /\ StoreInv'
         /\ connector = "postgres" => \A t \in TableNames : db[t].there => db'[t].there
<1> DEFINE h == Head(writing[c].todo)
           ws == {h}
<1>1. /\ writing[c].kind = "write" /\ h \in Writes
      /\ On(h) = c /\ Is(h, {"running"})
      /\ c \in Connections /\ c \notin Txs /\ conn[c].open /\ c \in born
      /\ \A w \in Writes : On(w) = c /\ Is(w, {"running", "staged"}) => w = h
      /\ \A d \in Contexts : Busy(d) /\ writing[d].on = c => d = c
      /\ Pending(c) = {h}
  BY OwnCall
<1>k. PICK k \in Connections : k = c
  BY <1>1
<1>2. /\ conn' = [conn EXCEPT ![k] = Closed(c, ok /\ k \in Txs)]
      /\ db' = IF ok THEN Settled(k) ELSE db
      /\ history' = Answered(ws, a)
      /\ active' = Cleared(c, k)
      /\ UNCHANGED <<connector, born>>
  <2>1. active[c] # c
    BY <1>1 DEF StoreInv, TableTypes
  <2> QED  BY <1>1, <1>k, <2>1 DEF Cleared
<1>3. /\ writing' \in [Contexts -> TableCalls \cup {Idle}]
      /\ \A d \in Contexts : Busy(d)' => Busy(d) /\ writing'[d] = writing[d] /\ writing[d].on # k
      /\ \A d \in Contexts : Busy(d) /\ writing[d].on # k => writing'[d] = writing[d]
  BY <1>1, <1>k DEF StoreInv, TableTypes, Busy
<1>4. ok /\ ~conn[k].failed => \A w \in ws :
         \/ RowsOf(w) \subseteq conn[k].change[history[w].table].rows
         \/ \E v \in Writes : On(v) = k /\ Over(v, w) /\ InForce(v)
  <2>1. CallWrote(c) /\ CallPends(c)
    BY DEF StoreInv
  <2>2. ok => RowsOf(h) \subseteq conn[c].change[writing[c].table].rows /\ history[h].table = writing[c].table
    BY <1>1, <2>1 DEF CallWrote, CallPends
  <2> QED  BY SMTT(30), <1>k, <2>2
<1>5. ok => \A d \in Contexts : Busy(d) /\ writing[d].on = k => writing[d].step # "create"
  BY <1>1, <1>k
<1>6. ws \in SUBSET Writes /\ a \in Commits \cup {"undone", "refused"} /\ (ok <=> TookEffect(a))
  BY <1>1
<1>7. /\ \A w \in ws : /\ On(w) = k /\ Is(w, {"running", "staged", "refused"})
                       /\ Is(w, {"refused"}) => a = "refused"
      /\ \A w \in Writes : On(w) = k /\ Is(w, {"running", "staged"}) => w \in ws
  BY <1>1, <1>k DEF Is
<1>8. c \in born /\ conn[k].open
  BY <1>1, <1>k
<1> HIDE DEF ws, h
<1>9. StoreInv
  OBVIOUS
<1> QED  BY ONLY <1>9, <1>2, <1>3, <1>4, <1>5, <1>6, <1>7, <1>8, ClosingHolds

\* The commit of a call's own connection.
LEMMA CommitOwnHolds ==
  ASSUME StoreInv, NEW c \in Contexts, NEW a \in Commits, CommitOwn(c, a)
  PROVE  /\ StoreInv'
         /\ connector = "postgres" => \A t \in TableNames : db[t].there => db'[t].there
<1>1. Busy(c) /\ writing[c].on = c /\ writing[c].step = "commit"
  BY DEF CommitOwn, At, Busy, Idle
<1>2. PICK ok \in BOOLEAN : ok <=> TookEffect(a)
  BY DEF TookEffect
<1>3. db' = IF ok THEN Settled(c) ELSE db
  BY <1>2 DEF CommitOwn
<1> QED  BY <1>1, <1>2, <1>3, OwnEndHolds DEF CommitOwn

\* The commit or the abort of an SDK transaction.
LEMMA FinishBatchHolds ==
  ASSUME StoreInv, NEW c \in Contexts, NEW a \in Commits \cup {"refused"}, FinishBatch(c, a)
  PROVE  /\ StoreInv'
         /\ connector = "postgres" => \A t \in TableNames : db[t].there => db'[t].there
<1> DEFINE k == writing[c].on
           done == TookEffect(a)
           ws == BatchWrites(c)
<1>1. /\ Busy(c) /\ writing[c].kind = "batch" /\ writing[c].step \in {"commit", "abort"}
      /\ done => writing[c].step = "commit"
      /\ a # "refused" => writing[c].step = "commit"
  BY DEF FinishBatch, Busy, Idle, TookEffect, Commits
<1>2. k \in Txs /\ k \in Connections /\ c \in born /\ conn[k].open
  BY <1>1 DEF StoreInv, CallBatches, CallRouted, Shared, Connections
<1>3. /\ conn' = [conn EXCEPT ![k] = Closed(c, done /\ k \in Txs)]
      /\ db' = IF done THEN Settled(k) ELSE db
      /\ history' = Answered(ws, a)
      /\ active' = Cleared(c, k)
      /\ writing' = [writing EXCEPT ![c] = Idle]
      /\ UNCHANGED <<connector, born>>
  <2>1. (done /\ k \in Txs) = TookEffect(a)
    BY <1>2 DEF TookEffect
  <2> QED  BY <2>1 DEF FinishBatch, Close
<1>4. \A d \in Contexts : Busy(d) /\ writing[d].on = k => d = c
  BY <1>1, OneCall
<1>5. /\ writing' \in [Contexts -> TableCalls \cup {Idle}]
      /\ \A d \in Contexts : Busy(d)' => Busy(d) /\ writing'[d] = writing[d] /\ writing[d].on # k
      /\ \A d \in Contexts : Busy(d) /\ writing[d].on # k => writing'[d] = writing[d]
  BY <1>3, <1>4 DEF StoreInv, TableTypes, Busy
<1>6. /\ ws \in SUBSET Writes
      /\ \A w \in Writes : On(w) = k <=> w \in ws
  BY DEF BatchWrites, On
<1>7. \A w \in ws : /\ Is(w, {"running", "staged", "refused"})
                    /\ done \/ a # "refused" => Is(w, {"staged"})
  <2>1. writing[c].step = "commit" => Pending(c) = {}
    BY <1>1 DEF StoreInv, CallBatches, Pending
  <2> QED  BY <1>1, <1>6, <2>1 DEF StoreInv, CallBatches
<1>8. done /\ ~conn[k].failed => \A w \in ws :
         \/ RowsOf(w) \subseteq conn[k].change[history[w].table].rows
         \/ \E v \in Writes : On(v) = k /\ Over(v, w) /\ InForce(v)
  BY <1>6, <1>7 DEF StoreInv, StagedKept
<1>9. done => \A d \in Contexts : Busy(d) /\ writing[d].on = k => writing[d].step # "create"
  BY <1>1, <1>4
<1>10. a \in Commits \cup {"undone", "refused"} /\ done \in BOOLEAN /\ (done <=> TookEffect(a))
  BY DEF TookEffect
<1>11. /\ \A w \in ws : /\ On(w) = k /\ Is(w, {"running", "staged", "refused"})
                        /\ Is(w, {"refused"}) => a = "refused"
       /\ \A w \in Writes : On(w) = k /\ Is(w, {"running", "staged"}) => w \in ws
  BY <1>6, <1>7 DEF Is
<1> HIDE DEF k, done, ws
<1>12. StoreInv
  OBVIOUS
<1> QED  BY ONLY <1>2, <1>3, <1>5, <1>6, <1>8, <1>9, <1>10, <1>11, <1>12, ClosingHolds

\* The number of the next write is above all that were given.
LEMMA NextIsUnused ==
  ASSUME StoreInv
  PROVE  /\ NextWrite \in Nat \ {0}
         /\ \A w \in Writes : history[w].answer # "none" <=> w < NextWrite
         /\ \A w \in Writes : w >= NextWrite => history[w] = NoWrite
<1>1. PICK n \in 0..MaxWrites : \A w \in Writes : history[w].answer # "none" <=> w <= n
  BY DEF StoreInv, NumbersInOrder
<1>2. Written = 1..n
  BY <1>1 DEF Written, Writes
<1>3. Cardinality(Written) = n
  BY <1>1, <1>2, FS_Interval
<1>4. \A w \in Writes : history[w].answer = "none" => history[w] = NoWrite
  BY DEF StoreInv, TableTypes, TableEntries
<1>5. NextWrite = n + 1
  BY <1>3 DEF NextWrite
<1> QED  BY <1>1, <1>4, <1>5 DEF Writes

\* A call begins: its frames get the next numbers, its connection is new or
\* its context's transaction, and nobody else's call uses it.
BeginsCall(c, k, mine, last) ==
  /\ c \in born /\ k \in Connections /\ mine \in TableCalls /\ last \in Writes
  /\ ~Busy(c) /\ (c \in Loop => \A d \in Loop : ~Busy(d))
  /\ k = c \/ k \in Txs
  /\ \A d \in Contexts : Busy(d) => writing[d].on # k
  /\ active' \in [Contexts -> Txs \cup {Nothing}]
  /\ \A d \in Contexts : d # c => active'[d] = active[d]
  /\ active'[c] = IF k = c THEN active[c] ELSE k
  /\ active'[c] = active[c] \/ \A d \in Contexts : active[d] # k
  /\ \/ conn' = conn /\ k # c /\ conn[k].open
     \/ conn' = [conn EXCEPT ![k] = Fresh] /\ (k \in Txs => \A w \in Writes : On(w) # k)
  /\ writing' = [writing EXCEPT ![c] = mine]
  /\ mine.on = k /\ mine.step \in {"drop", "create", "insert"}
  /\ mine.kind = "write" => Len(mine.todo) = 1
  /\ mine.kind = "batch" => connector = "sqlite" /\ k \in Txs /\ \A w \in Writes : On(w) # k
  /\ mine.todo # <<>>
  /\ \A i, j \in 1..Len(mine.todo) : mine.todo[i] = mine.todo[j] => i = j
  /\ \A i \in 1..Len(mine.todo) : mine.todo[i] \in NextWrite..last
  /\ \A w \in NextWrite..last : \E i \in 1..Len(mine.todo) : w = mine.todo[i]
  /\ NextWrite <= last
  /\ history' \in [Writes -> TableEntries \cup {NoWrite}]
  /\ \A w \in NextWrite..last :
        history'[w] = [table |-> mine.table, on |-> k, answer |-> "running", over |-> {}]
  /\ \A w \in Writes : w \notin NextWrite..last => history'[w] = history[w]
  /\ UNCHANGED <<connector, db, born>>

\* Whatever call begins so leaves the invariant true.
LEMMA CallBegins ==
  ASSUME StoreInv, NEW c, NEW k, NEW mine, NEW last, BeginsCall(c, k, mine, last)
  PROVE  StoreInv'
<1> USE DEF BeginsCall
<1> DEFINE ns == NextWrite..last
           entry == [table |-> mine.table, on |-> k, answer |-> "running", over |-> {}]
<1>1. /\ c \in Contexts /\ c \in Connections /\ c \notin Txs
      /\ active[c] # Nothing => active[c] \in Txs
      /\ \A d \in Contexts : d \in Connections /\ d \notin Txs
      /\ Nothing \notin Connections
  BY DEF StoreInv, TableTypes, Connections
<1>2. /\ NextWrite \in Nat \ {0}
      /\ \A w \in Writes : history[w].answer # "none" <=> w < NextWrite
      /\ \A w \in Writes : w >= NextWrite => history[w] = NoWrite
  BY NextIsUnused
<1>3. /\ ns \subseteq Writes
      /\ \A w \in ns : history[w] = NoWrite
  BY <1>2 DEF Writes
<1>5. /\ \A j \in Connections : j # k => conn'[j] = conn[j]
      /\ \/ conn' = conn /\ k # c /\ conn[k].open
         \/ /\ conn'[k].open /\ ~conn'[k].begun /\ ~conn'[k].failed /\ ~conn'[k].kept
            /\ conn'[k].closer = Nothing
            /\ \A u \in TableNames : conn'[k].change[u] = Same
            /\ k \in Txs => \A w \in Writes : On(w) # k
      /\ conn'[k].open
  BY DEF StoreInv, TableTypes, Fresh
<1>6. /\ writing'[c] = mine
      /\ \A d \in Contexts : d # c => writing'[d] = writing[d]
      /\ \A d \in Contexts : Busy(d)' <=> Busy(d) \/ d = c
  BY <1>1 DEF StoreInv, TableTypes, Busy, Idle, TableCalls
<1>7. /\ \A w \in ns : history'[w] = entry
      /\ \A w \in Writes : w \notin ns => history'[w] = history[w]
  BY <1>3
<1>8. Pending(c)' = ns /\ Head(mine.todo) \in ns
  <2>1. mine.todo \in Seq(Writes) /\ Head(mine.todo) = mine.todo[1] /\ 1 \in 1..Len(mine.todo)
    BY DEF TableCalls
  <2> QED  BY <1>6, <2>1 DEF Pending
<1>9. \A d \in Contexts : d # c => Pending(d)' = Pending(d)
  BY <1>6 DEF Pending
<1>10. /\ entry.on = k /\ entry.table = mine.table /\ entry.answer = "running" /\ entry.over = {}
  OBVIOUS
<1> HIDE DEF ns, entry
\* No answer that was given says anything of the new writes.
<1>12. /\ \A w \in Writes \ ns : On(w)' = On(w) /\ history'[w].answer = history[w].answer
       /\ \A w \in ns : /\ On(w)' = k /\ history'[w].answer = "running"
                        /\ history[w].answer = "none" /\ On(w) = Nothing
  BY <1>3, <1>7, <1>10 DEF On, NoWrite
<1>11. \A w \in Writes : On(w) # Nothing => w \notin ns
  BY <1>12
<1>13. \A v, w \in Writes : Over(v, w) => v \notin ns
  BY <1>3 DEF Over, NoWrite
<1>14. \A v, w \in Writes : Over(v, w) => Over(v, w)' /\ v \notin ns
  BY <1>7, <1>13 DEF Over
<1>15. \A v \in Writes : InForce(v) /\ v \notin ns => InForce(v)'
  BY <1>12 DEF InForce, Is
<1>20. TableTypes'
  <2>1. Fresh \in Conns
    BY DEF Fresh, Same, Conns, Changes
  <2>2. conn' \in [Connections -> Conns]
    BY <2>1 DEF StoreInv, TableTypes
  <2> QED  BY <1>1, <2>2 DEF StoreInv, TableTypes
<1>21. NumbersInOrder'
  <2>1. \A w \in Writes : history'[w].answer # "none" <=> w <= last
    BY <1>2, <1>12 DEF Writes, ns
  <2>2. last \in 0..MaxWrites
    BY DEF Writes
  <2> QED  BY <2>1, <2>2 DEF NumbersInOrder
<1>22. Shared'
  <2>1. \A d, e \in Contexts : active'[d] = active'[e] /\ active'[d] # Nothing =>
           d = e \/ (d \in Loop /\ e \in Loop)
    BY <1>1 DEF StoreInv, Shared
  <2>2. \A d, e \in Loop : Busy(d)' /\ Busy(e)' => d = e
    BY <1>6 DEF StoreInv, Shared, Loop
  <2>3. \A d \in Contexts \ born : active'[d] = Nothing /\ ~Busy(d)'
    BY <1>6 DEF StoreInv, Shared
  <2>4. \A j \in Connections : conn'[j].closer \in born \cup {Nothing}
    BY <1>5 DEF StoreInv, Shared
  <2>5. \A d \in Contexts : active'[d] # Nothing =>
          conn'[active'[d]].open \/ conn'[active'[d]].closer \notin {Nothing, d}
    BY <1>1, <1>5 DEF StoreInv, Shared, TableTypes, Connections
  <2> QED  BY <2>1, <2>2, <2>3, <2>4, <2>5 DEF Shared
<1>23. \A d \in Contexts : CallRouted(d)'
  <2> SUFFICES ASSUME NEW d \in Contexts, Busy(d)' PROVE CallRouted(d)'
    BY DEF CallRouted
  <2>1. CASE d = c
    BY <1>5, <1>6, <2>1 DEF CallRouted
  <2>2. CASE d # c
    <3>1. Busy(d) /\ writing'[d] = writing[d] /\ writing[d].on # k /\ CallRouted(d)
      BY <1>6, <2>2 DEF StoreInv
    <3>2. writing[d].on \in Connections
      BY <3>1 DEF StoreInv, TableTypes, TableCalls, Busy
    <3> QED  BY <1>5, <2>2, <3>1, <3>2 DEF CallRouted
  <2> QED  BY <2>1, <2>2
<1>24. \A d \in Contexts : CallPends(d)' /\ CallBatches(d)' /\ CallWrote(d)'
  <2> SUFFICES ASSUME NEW d \in Contexts, Busy(d)'
               PROVE  CallPends(d)' /\ CallBatches(d)' /\ CallWrote(d)'
    BY DEF CallPends, CallBatches, CallWrote
  <2>1. CASE d = c
    <3>1. \A w \in Pending(d)' : On(w)' = k /\ history'[w] = entry
      BY <1>7, <1>8, <1>12, <2>1
    <3>2. writing'[d].step = "drop" => history'[Head(writing'[d].todo)].over = {}
      BY <1>6, <1>7, <1>8, <1>10, <2>1
    <3>3. CallPends(d)'
      <4>1. \A w \in Pending(d)' : /\ On(w)' = writing'[d].on /\ history'[w].table = writing'[d].table
                                   /\ Is(w, {"running"})'
        BY <1>6, <1>10, <2>1, <3>1 DEF Is
      <4>2. \A i, j \in 1..Len(writing'[d].todo) : writing'[d].todo[i] = writing'[d].todo[j] => i = j
        BY <1>6, <2>1
      <4>3. /\ writing'[d].step \in {"drop", "create", "insert"} => writing'[d].todo # <<>>
            /\ writing'[d].kind = "write" => /\ Len(writing'[d].todo) = 1
                                             /\ writing'[d].step \notin {"abort", "commit"}
        BY <1>6, <2>1
      <4> QED  BY <3>2, <4>1, <4>2, <4>3 DEF CallPends
    <3>4. CallBatches(d)'
      <4>1. /\ writing'[d].kind = "batch" => connector = "sqlite" /\ k \in Txs /\ \A w \in Writes : On(w) # k
            /\ writing'[d].on = k /\ writing'[d].step # "commit"
        BY <1>6, <2>1
      <4>2. \A w \in ns : w \in Pending(d)' /\ Is(w, {"running", "staged", "refused"})'
        BY <1>8, <1>12, <2>1 DEF Is
      <4>3. \A w \in Writes \ ns : On(w)' = On(w)
        BY <1>12
      <4> QED  BY <4>1, <4>2, <4>3 DEF CallBatches
    <3>5. CallWrote(d)'
      BY <1>6, <2>1 DEF CallWrote
    <3> QED  BY <3>3, <3>4, <3>5
  <2>2. CASE d # c
    <3>1. /\ Busy(d) /\ writing'[d] = writing[d] /\ writing[d].on # k
          /\ CallPends(d) /\ CallBatches(d) /\ CallWrote(d)
          /\ Pending(d)' = Pending(d) /\ Pending(d) \subseteq Writes
      BY <1>6, <1>9, <2>2, PendingAreWrites DEF StoreInv
    <3>2. writing[d].on # Nothing
      BY <1>1, <3>1 DEF StoreInv, TableTypes, TableCalls, Busy
    <3>a. /\ \A w \in Pending(d) : On(w) = writing[d].on /\ history[w].table = writing[d].table
          /\ writing[d].step # "abort" => \A w \in Pending(d) : Is(w, {"running"})
      BY <3>1 DEF CallPends
    <3>3. \A w \in Pending(d) : w \notin ns
      BY <1>11, <3>1, <3>2, <3>a
    <3>4. writing[d].todo # <<>> => history'[Head(writing[d].todo)] = history[Head(writing[d].todo)]
      BY <1>7, <3>1, <3>3, HeadIsPending
    <3>5. CallPends(d)'
      <4>1. /\ \A w \in Pending(d)' : On(w)' = writing'[d].on /\ history'[w].table = writing'[d].table
            /\ writing'[d].step # "abort" => \A w \in Pending(d)' : Is(w, {"running"})'
        BY <1>7, <1>12, <3>1, <3>3, <3>a DEF Is
      <4>2. writing'[d].step = "drop" => history'[Head(writing'[d].todo)].over = {}
        <5>1. writing[d].step = "drop" => /\ writing[d].todo # <<>>
                                          /\ history[Head(writing[d].todo)].over = {}
          BY <3>1 DEF CallPends
        <5> QED  BY <3>1, <3>4, <5>1
      <4>3. /\ \A i, j \in 1..Len(writing[d].todo) : writing[d].todo[i] = writing[d].todo[j] => i = j
            /\ writing[d].step \in {"drop", "create", "insert"} => writing[d].todo # <<>>
            /\ writing[d].kind = "write" =>
                  /\ Len(writing[d].todo) = 1 /\ writing[d].step # "abort"
                  /\ writing[d].step = "commit" => writing[d].on = d
        BY <3>1 DEF CallPends
      <4>4. /\ \A i, j \in 1..Len(writing'[d].todo) : writing'[d].todo[i] = writing'[d].todo[j] => i = j
            /\ writing'[d].step \in {"drop", "create", "insert"} => writing'[d].todo # <<>>
            /\ writing'[d].kind = "write" =>
                  /\ Len(writing'[d].todo) = 1 /\ writing'[d].step # "abort"
                  /\ writing'[d].step = "commit" => writing'[d].on = d
        BY <3>1, <4>3
      <4> QED  BY <4>1, <4>2, <4>4 DEF CallPends
    <3>6. CallBatches(d)'
      <4>1. \A w \in Writes : On(w)' = writing[d].on =>
               On(w) = writing[d].on /\ history'[w].answer = history[w].answer
        BY <1>12, <3>1
      <4> QED  BY <3>1, <4>1 DEF CallBatches, Is
    <3>7. CallWrote(d)'
      <4>1. writing[d].kind = "write" /\ writing[d].step = "commit" => writing[d].on = d
        BY <3>1 DEF CallPends
      <4> QED  BY <1>1, <1>5, <3>1, <4>1 DEF CallWrote
    <3> QED  BY <3>5, <3>6, <3>7
  <2> QED  BY SMTT(30), <2>1, <2>2
<1>25. \A w \in Writes : WriteHolds(w)'
  <2>1. ASSUME NEW w \in ns PROVE WriteHolds(w)'
    <3>1. Is(w, {"running"})' /\ On(w)' = k /\ ~Is(w, {"staged"})'
      BY <1>12 DEF Is
    <3>2. Busy(c)' /\ w \in Pending(c)'
      BY <1>1, <1>6, <1>8
    <3>3. ~Is(w, {"failed", "denied"})'
      BY <1>12 DEF Is
    <3> QED  BY <1>1, <1>5, <3>1, <3>2, <3>3 DEF WriteHolds
  <2>2. ASSUME NEW w \in Writes \ ns PROVE WriteHolds(w)'
    <3>1. WriteHolds(w) /\ On(w)' = On(w) /\ history'[w].answer = history[w].answer
      BY <1>12 DEF StoreInv
    <3>2. On(w) \in Txs => On(w) \in Connections /\ (On(w) = k => conn' = conn)
      BY <1>5 DEF Connections
    <3>3. \A d \in Contexts : Busy(d) /\ w \in Pending(d) => Busy(d)' /\ w \in Pending(d)'
      BY SMTT(30), <1>6, <1>9
    <3>4. Is(w, {"failed", "denied"})' /\ On(w)' \in Txs =>
             ~conn'[On(w)'].open /\ (conn'[On(w)'].kept <=> Is(w, {"denied"})')
      <4>1. Is(w, {"failed", "denied"})' => Is(w, {"failed", "denied"})
        BY <3>1 DEF Is
      <4>2. Is(w, {"denied"})' <=> Is(w, {"denied"})
        BY <3>1 DEF Is
      <4>3. On(w) \in Txs /\ Is(w, {"failed", "denied"}) => conn'[On(w)] = conn[On(w)]
        BY <1>5, <3>1, <3>2 DEF WriteHolds
      <4> QED  BY <3>1, <4>1, <4>2, <4>3 DEF WriteHolds
    <3>5. /\ On(w)' \in Txs => conn'[On(w)'].open \/ conn'[On(w)'].closer # Nothing
          /\ Is(w, {"staged"})' => On(w)' \in Txs /\ conn'[On(w)'].open
          /\ Is(w, {"running"})' => \E d \in Contexts : Busy(d)' /\ w \in Pending(d)'
      BY <1>5, <3>1, <3>2, <3>3 DEF WriteHolds, Is
    <3> QED  BY <3>4, <3>5 DEF WriteHolds
  <2> QED  BY <2>1, <2>2
<1>26. \A w \in Writes : StagedKept(w)'
  <2> SUFFICES ASSUME NEW w \in Writes, Is(w, {"staged"})', ~conn'[On(w)'].failed
               PROVE  \/ RowsOf(w) \subseteq conn'[On(w)'].change[history'[w].table].rows
                      \/ \E v \in Writes : On(v)' = On(w)' /\ Over(v, w)' /\ InForce(v)'
    BY DEF StagedKept
  <2>0. w \notin ns
    BY <1>12 DEF Is
  <2>1. Is(w, {"staged"}) /\ history'[w] = history[w] /\ On(w)' = On(w)
    BY <1>7, <1>12, <2>0 DEF Is
  <2>2. On(w) \in Txs /\ conn'[On(w)] = conn[On(w)]
    BY <1>5, <2>1 DEF StoreInv, WriteHolds, Connections
  <2>3. \/ RowsOf(w) \subseteq conn[On(w)].change[history[w].table].rows
        \/ \E v \in Writes : On(v) = On(w) /\ Over(v, w) /\ InForce(v)
    BY <2>1, <2>2 DEF StoreInv, StagedKept
  <2>4. \A v \in Writes : On(v) = On(w) /\ Over(v, w) /\ InForce(v) =>
           On(v)' = On(w)' /\ Over(v, w)' /\ InForce(v)'
    BY <1>12, <1>14, <1>15, <2>1
  <2> QED  BY <2>1, <2>2, <2>3, <2>4
<1>27. \A w \in Writes : CommittedKept(w)'
  <2> SUFFICES ASSUME NEW w \in Writes, Is(w, {"committed", "denied"})', ~Tainted(w)'
               PROVE  \/ RowsOf(w) \subseteq db'[history'[w].table].rows
                      \/ \E v \in Writes : Over(v, w)' /\ (connector' = "sqlite" \/ Is(v, {"committed", "denied"})')
    BY DEF CommittedKept
  <2>0. w \notin ns
    BY <1>12 DEF Is
  <2>1. Is(w, {"committed", "denied"}) /\ history'[w] = history[w]
    BY <1>7, <2>0 DEF Is
  <2>2. ~Tainted(w)
    <3> SUFFICES ASSUME Tainted(w) PROVE FALSE
      OBVIOUS
    <3>1. PICK v \in Writes : /\ history[v].on = history[w].on /\ history[w].on \in Txs
                              /\ history[v].answer = "refused"
      BY DEF Tainted
    <3>2. v \notin ns
      BY <1>12, <3>1
    <3> QED  BY <1>7, <2>1, <3>1, <3>2 DEF Tainted
  <2>3. \/ RowsOf(w) \subseteq db[history[w].table].rows
        \/ \E v \in Writes : Over(v, w) /\ (connector = "sqlite" \/ Is(v, {"committed", "denied"}))
    BY <2>1, <2>2 DEF StoreInv, CommittedKept
  <2>4. \A v \in Writes : Over(v, w) =>
           Over(v, w)' /\ (Is(v, {"committed", "denied"}) => Is(v, {"committed", "denied"})')
    BY <1>12, <1>14 DEF Is
  <2> QED  BY <2>1, <2>3, <2>4
<1>28. \A u \in TableNames : RowsHold(u)'
  <2> SUFFICES ASSUME NEW u \in TableNames PROVE RowsHold(u)'
    OBVIOUS
  <2>1. \A r \in db[u].rows : r[1] \in Writes
    BY DEF StoreInv, TableTypes, AllRows
  <2>2. ASSUME NEW r \in db[u].rows
        PROVE  /\ r[1] \notin ns
               /\ On(r[1]) \in Txs => conn'[On(r[1])] = conn[On(r[1])]
    <3>1. r[1] \notin ns
      BY <1>12, <2>1 DEF StoreInv, RowsHold, Is
    <3> QED  BY <1>5, <2>1, <3>1 DEF Connections
  <2> QED  BY <1>7, <1>12, <2>1, <2>2 DEF StoreInv, RowsHold, Is
<1>29. \A j \in Connections : ConnHolds(j)'
  <2> SUFFICES ASSUME NEW j \in Connections PROVE ConnHolds(j)'
    OBVIOUS
  <2>1. ConnHolds(j)
    BY DEF StoreInv
  <2>2. \A i \in Connections : conn'[i].begun => conn[i].begun
    BY <1>5
  <2>3. CASE conn'[j] # conn[j]
    BY <1>5, <2>3 DEF ConnHolds
  <2>4. CASE conn'[j] = conn[j]
    <3>1. \A v \in Writes : Is(v, {"refused"}) => Is(v, {"refused"})' /\ On(v)' = On(v)
      BY <1>12 DEF Is
    <3> QED  BY <2>1, <2>2, <2>4, <3>1 DEF ConnHolds
  <2> QED  BY <2>3, <2>4
<1>30. \A j \in Connections, u \in TableNames : ChangeHolds(j, u)' /\ Accounted(j, u)'
  <2> SUFFICES ASSUME NEW j \in Connections, NEW u \in TableNames
               PROVE  ChangeHolds(j, u)' /\ Accounted(j, u)'
    OBVIOUS
  <2>1. ChangeHolds(j, u) /\ Accounted(j, u)
    BY DEF StoreInv
  <2>2. CASE conn'[j] # conn[j]
    BY <1>5, <2>2 DEF ChangeHolds, Accounted, Same
  <2>3. CASE conn'[j] = conn[j]
    <3>1. conn'[j] = conn[j] /\ conn[j].change[u] \in Changes
      BY <1>5, <2>3 DEF StoreInv, TableTypes, Conns
    <3>2. \A r \in conn[j].change[u].rows : r[1] \in Writes /\ r[1] \notin ns
      <4>1. \A r \in conn[j].change[u].rows : r[1] \in Writes
        BY <3>1 DEF Changes, AllRows
      <4>2. \A r \in conn[j].change[u].rows : On(r[1]) = j
        BY <2>1 DEF ChangeHolds
      <4>3. j # Nothing
        BY DEF Connections
      <4> QED  BY <1>11, <4>1, <4>2, <4>3
    <3>3. conn[j].change[u].own => \A i \in Connections \ {j} :
             ~conn'[i].change[u].own /\ conn'[i].change[u].rows = {}
      BY <1>5, <2>1 DEF ChangeHolds, Same
    <3>4. ChangeHolds(j, u)'
      <4>1. \A r \in conn[j].change[u].rows :
               /\ On(r[1])' = j /\ history'[r[1]].table = u
               /\ Is(r[1], IF j \in Txs THEN {"staged", "refused"} ELSE {"running"})'
        BY <1>7, <1>12, <2>1, <3>2 DEF ChangeHolds, Is
      <4> QED  BY <1>1, <2>1, <3>1, <3>3, <4>1 DEF ChangeHolds
    <3>5. Accounted(j, u)'
      <4> SUFFICES ASSUME conn[j].change[u].own, ~conn[j].failed, NEW r \in db[u].rows
                   PROVE  \E v \in Writes : On(v)' = j /\ Over(v, r[1])' /\ InForce(v)'
        BY <3>1 DEF Accounted
      <4>1. PICK v \in Writes : On(v) = j /\ Over(v, r[1]) /\ InForce(v)
        BY <2>1 DEF Accounted
      <4>2. r[1] \in Writes
        BY DEF StoreInv, TableTypes, AllRows
      <4>3. v \notin ns /\ Over(v, r[1])'
        BY <1>14, <4>1, <4>2
      <4> QED  BY <1>12, <1>15, <4>1, <4>3
    <3> QED  BY <3>4, <3>5
  <2> QED  BY <2>2, <2>3
<1>31. NoGapOpen'
  <2> SUFFICES ASSUME NEW j \in Connections, NEW u \in TableNames,
                      connector = "postgres", ~conn'[j].failed,
                      conn'[j].change[u].own, ~conn'[j].change[u].there
               PROVE  \E d \in Contexts : Busy(d)' /\ writing'[d].on = j /\ writing'[d].table = u
                                          /\ writing'[d].step = "create"
    BY DEF NoGapOpen
  <2>1. conn'[j] = conn[j]
    BY <1>5 DEF Same
  <2>2. PICK d \in Contexts : Busy(d) /\ writing[d].on = j /\ writing[d].table = u
                              /\ writing[d].step = "create"
    BY <2>1 DEF StoreInv, NoGapOpen
  <2>3. d # c
    BY <2>2
  <2> QED  BY <1>6, <2>2, <2>3
<1> QED  BY <1>20, <1>21, <1>22, <1>23, <1>24, <1>25, <1>26, <1>27, <1>28, <1>29, <1>30, <1>31 DEF StoreInv

\* A write begins, on a connection of its own or in the transaction.
LEMMA StartWriteHolds ==
  ASSUME StoreInv, NEW c \in Contexts, NEW t \in TableNames, NEW mode \in Modes,
         StartWrite(c, t, mode)
  PROVE  StoreInv'
<1> DEFINE n == NextWrite
           k == Route(c)
           mine == [kind |-> "write", table |-> t, mode |-> mode, todo |-> <<n>>,
                    step |-> FirstStep(mode), on |-> k]
<1>1. /\ c \in born /\ ~Busy(c) /\ n \in Writes
      /\ active[c] # Nothing => conn[active[c]].open
      /\ c \in Loop => \A d \in Loop : ~Busy(d)
      /\ writing' = [writing EXCEPT ![c] = mine]
      /\ conn' = IF k = c THEN [conn EXCEPT ![c] = Fresh] ELSE conn
      /\ UNCHANGED <<connector, db, active, born>>
  BY DEF StartWrite, Free, Busy, Loop
<1>2. /\ k \in Connections
      /\ k = c \/ (k \in Txs /\ k = active[c] /\ conn[k].open /\ active[c] # Nothing)
      /\ c \in Connections /\ c \notin Txs
  BY <1>1 DEF Route, StoreInv, TableTypes, Connections
\* Nobody uses the connection.
<1>3. \A d \in Contexts : Busy(d) => writing[d].on # k
  <2> SUFFICES ASSUME NEW d \in Contexts, Busy(d), writing[d].on = k PROVE FALSE
    OBVIOUS
  <2>1. d # c
    BY <1>1
  <2>2. k # c /\ k # d
    BY <1>2, <2>1 DEF StoreInv, CallRouted, Connections
  <2>3. active[d] = k
    BY <2>2 DEF StoreInv, CallRouted
  <2>4. d \in Loop /\ c \in Loop
    BY <1>2, <2>1, <2>2, <2>3 DEF StoreInv, Shared
  <2> QED  BY <1>1, <2>4
<1>4. FirstStep(mode) \in {"drop", "create", "insert"}
  BY DEF FirstStep
<1>5. /\ mine \in TableCalls
      /\ mine.on = k /\ mine.kind = "write" /\ mine.table = t /\ mine.step \in {"drop", "create", "insert"}
      /\ mine.todo # <<>> /\ Len(mine.todo) = 1
      /\ \A i, j \in 1..Len(mine.todo) : mine.todo[i] = mine.todo[j] => i = j
  <2>1. <<n>> \in Seq(Writes) /\ Len(<<n>>) = 1 /\ <<n>> # <<>>
    BY <1>1
  <2>2. \A i, j \in 1..Len(<<n>>) : i = j
    BY <2>1
  <2> QED  BY <1>2, <1>4, <2>1, <2>2 DEF TableCalls
<1>6. n \in Nat /\ n..n = {n}
  BY NextIsUnused
<1>7. /\ \A i \in 1..Len(mine.todo) : mine.todo[i] \in n..n
      /\ \A w \in n..n : \E i \in 1..Len(mine.todo) : w = mine.todo[i]
  <2>1. 1..Len(mine.todo) = {1} /\ mine.todo[1] = n
    BY <1>5
  <2> QED  BY <1>6, <2>1
<1>8. /\ history' \in [Writes -> TableEntries \cup {NoWrite}]
      /\ \A w \in n..n :
            history'[w] = [table |-> mine.table, on |-> k, answer |-> "running", over |-> {}]
      /\ \A w \in Writes : w \notin n..n => history'[w] = history[w]
  <2> DEFINE e == [table |-> t, on |-> k, answer |-> "running", over |-> {}]
  <2>1. history' = [history EXCEPT ![n] = e]
    BY DEF StartWrite
  <2>2. history \in [Writes -> TableEntries \cup {NoWrite}]
    BY DEF StoreInv, TableTypes
  <2>3. e \in TableEntries
    BY <1>2 DEF TableEntries, WriteAnswers
  <2> QED  BY <1>1, <1>5, <1>6, <2>1, <2>2, <2>3
<1>9. /\ active' \in [Contexts -> Txs \cup {Nothing}]
      /\ \A d \in Contexts : d # c => active'[d] = active[d]
      /\ active'[c] = IF k = c THEN active[c] ELSE k
      /\ active'[c] = active[c]
  BY <1>1, <1>2 DEF StoreInv, TableTypes
<1>10. \/ conn' = conn /\ k # c /\ conn[k].open
       \/ conn' = [conn EXCEPT ![k] = Fresh] /\ (k \in Txs => \A w \in Writes : On(w) # k)
  BY <1>1, <1>2
<1>11. n <= n
  BY <1>6
<1>12. StoreInv
  OBVIOUS
<1>13. BeginsCall(c, k, mine, n)
  <2> HIDE DEF k, mine, n
  <2> QED  BY <1>1, <1>2, <1>3, <1>5, <1>7, <1>8, <1>9, <1>10, <1>11 DEF BeginsCall, n
<1> HIDE DEF k, mine
<1> QED  BY ONLY <1>12, <1>13, CallBegins

\* An SDK transaction begins to write its frames.
LEMMA StartBatchHolds ==
  ASSUME StoreInv, NEW c \in Contexts, NEW t \in TableNames, NEW m \in {1, 2},
         StartBatch(c, t, m)
  PROVE  StoreInv'
<1> DEFINE n == NextWrite
           k == CHOOSE y \in UnusedTxs : TRUE
           last == n + m - 1
           mine == [kind |-> "batch", table |-> t, mode |-> "append",
                    todo |-> [i \in 1..m |-> n + i - 1], step |-> "create", on |-> k]
<1>0. n \in Nat \ {0} /\ last \in Nat /\ last \in n..last /\ n <= last
  BY NextIsUnused
<1>1. /\ c \in born /\ ~Busy(c) /\ n..last \subseteq Writes /\ last \in Writes
      /\ k \in UnusedTxs /\ connector = "sqlite" /\ active[c] = Nothing
      /\ c \in Loop => \A d \in Loop : ~Busy(d)
      /\ writing' = [writing EXCEPT ![c] = mine]
      /\ conn' = [conn EXCEPT ![k] = Fresh] /\ active' = [active EXCEPT ![c] = k]
      /\ UNCHANGED <<connector, db, born>>
  BY <1>0 DEF StartBatch, Free, Busy, Loop, TakenBy
<1>2. /\ k \in Txs /\ k \in Connections /\ k \notin Contexts /\ k # Nothing
      /\ ~conn[k].open
      /\ \A w \in Writes : On(w) # k
      /\ \A d \in Contexts : active[d] # k /\ (Busy(d) => writing[d].on # k)
  BY <1>1, UnusedIsClean
<1>5. /\ mine \in TableCalls
      /\ mine.on = k /\ mine.kind = "batch" /\ mine.table = t /\ mine.step \in {"drop", "create", "insert"}
      /\ mine.todo # <<>>
      /\ \A i, j \in 1..Len(mine.todo) : mine.todo[i] = mine.todo[j] => i = j
  <2> DEFINE s == [i \in 1..m |-> n + i - 1]
  <2>1. \A i \in 1..m : n + i - 1 \in Writes
    BY <1>0, <1>1
  <2>2. s \in Seq(Writes) /\ Len(s) = m
    BY <2>1
  <2>3. s # <<>>
    BY <2>2
  <2>4. \A i, j \in 1..Len(s) : s[i] = s[j] => i = j
    BY <1>0, <2>2
  <2> HIDE DEF s
  <2> QED  BY <1>2, <2>2, <2>3, <2>4 DEF TableCalls, Modes, s
<1>7. /\ \A i \in 1..Len(mine.todo) : mine.todo[i] \in n..last
      /\ \A w \in n..last : \E i \in 1..Len(mine.todo) : w = mine.todo[i]
  <2>1. 1..Len(mine.todo) = 1..m /\ mine.todo = [i \in 1..m |-> n + i - 1]
    BY <1>5
  <2>2. \A w \in n..last : w - n + 1 \in 1..m /\ w = n + (w - n + 1) - 1
    BY <1>0
  <2>3. \A i \in 1..m : n + i - 1 \in n..last
    BY <1>0
  <2>4. \A w \in n..last : \E i \in 1..m : w = mine.todo[i]
    BY <2>1, <2>2
  <2> QED  BY <2>1, <2>3, <2>4
<1>8. /\ history' \in [Writes -> TableEntries \cup {NoWrite}]
      /\ \A w \in n..last :
            history'[w] = [table |-> mine.table, on |-> k, answer |-> "running", over |-> {}]
      /\ \A w \in Writes : w \notin n..last => history'[w] = history[w]
  <2> DEFINE e == [table |-> t, on |-> k, answer |-> "running", over |-> {}]
  <2>1. history' = [w \in Writes |-> IF w \in n..last THEN e ELSE history[w]]
    BY DEF StartBatch
  <2>2. history \in [Writes -> TableEntries \cup {NoWrite}]
    BY DEF StoreInv, TableTypes
  <2>3. e \in TableEntries
    BY <1>2 DEF TableEntries, WriteAnswers
  <2>4. mine.table = t
    BY <1>5
  <2> HIDE DEF e
  <2>5. history' \in [Writes -> TableEntries \cup {NoWrite}]
    BY <2>1, <2>2, <2>3
  <2>6. /\ \A w \in n..last : history'[w] = e
        /\ \A w \in Writes : w \notin n..last => history'[w] = history[w]
    BY <1>1, <2>1
  <2> QED  BY <2>4, <2>5, <2>6 DEF e
<1>9. /\ active' \in [Contexts -> Txs \cup {Nothing}]
      /\ \A d \in Contexts : d # c => active'[d] = active[d]
      /\ active'[c] = IF k = c THEN active[c] ELSE k
      /\ \A d \in Contexts : active[d] # k
  BY <1>1, <1>2 DEF StoreInv, TableTypes
<1>10. conn' = [conn EXCEPT ![k] = Fresh] /\ (k \in Txs => \A w \in Writes : On(w) # k)
  BY <1>1, <1>2
<1>12. StoreInv
  OBVIOUS
<1>13. BeginsCall(c, k, mine, last)
  <2> HIDE DEF k, mine, last, n
  <2> QED  BY <1>0, <1>1, <1>2, <1>5, <1>7, <1>8, <1>9, <1>10 DEF BeginsCall, n
<1> HIDE DEF k, mine, last
<1> QED  BY ONLY <1>12, <1>13, CallBegins

\* A statement of one call leaves the other calls as they are.
StatementOf(c) ==
  /\ Busy(c) /\ writing' \in [Contexts -> TableCalls \cup {Idle}]
  /\ \A d \in Contexts : d # c => writing'[d] = writing[d]
  /\ \A j \in Connections : j # writing[c].on => conn'[j] = conn[j]
  /\ \A w \in Writes : /\ On(w)' = On(w) /\ history'[w].table = history[w].table
                       /\ On(w) # writing[c].on => history'[w] = history[w]
  /\ UNCHANGED <<connector, active, born>>

\* What the invariant says of the other calls stays true.
LEMMA OthersHold ==
  ASSUME StoreInv, NEW c \in Contexts, StatementOf(c), NEW d \in Contexts, d # c
  PROVE  CallRouted(d)' /\ CallPends(d)' /\ CallBatches(d)' /\ CallWrote(d)'
<1> SUFFICES ASSUME Busy(d)'
             PROVE  CallRouted(d)' /\ CallPends(d)' /\ CallBatches(d)' /\ CallWrote(d)'
  BY DEF CallRouted, CallPends, CallBatches, CallWrote
<1>1. writing'[d] = writing[d] /\ Busy(d) /\ Busy(c)
  BY DEF StatementOf, Busy
<1>2. writing[d].on # writing[c].on
  BY <1>1, OneCall
<1>3. /\ CallRouted(d) /\ CallPends(d) /\ CallBatches(d) /\ CallWrote(d)
      /\ Pending(d)' = Pending(d) /\ Pending(d) \subseteq Writes
      /\ writing[d].on \in Connections /\ d \in Connections
  BY <1>1, PendingAreWrites DEF StoreInv, Pending, TableTypes, TableCalls, Busy, Connections
<1>4. \A w \in Writes : On(w)' = writing[d].on \/ On(w) = writing[d].on =>
         On(w)' = On(w) /\ history'[w] = history[w]
  BY <1>2 DEF StatementOf
<1>5. /\ \A w \in Pending(d) : On(w) = writing[d].on /\ history[w].table = writing[d].table
      /\ writing[d].step # "abort" => \A w \in Pending(d) : Is(w, {"running"})
  BY <1>1, <1>3 DEF CallPends
<1>6. conn'[writing[d].on] = conn[writing[d].on]
  BY <1>2, <1>3 DEF StatementOf
<1>7. CallRouted(d)'
  BY <1>1, <1>3, <1>6 DEF CallRouted, StatementOf
<1>8. CallPends(d)'
  <2>1. /\ \A w \in Pending(d)' : On(w)' = writing'[d].on /\ history'[w].table = writing'[d].table
        /\ writing'[d].step # "abort" => \A w \in Pending(d)' : Is(w, {"running"})'
    BY <1>1, <1>3, <1>4, <1>5 DEF Is
  <2>2. writing'[d].step = "drop" => history'[Head(writing'[d].todo)].over = {}
    <3>1. writing[d].step = "drop" => /\ writing[d].todo # <<>>
                                      /\ history[Head(writing[d].todo)].over = {}
      BY <1>1, <1>3 DEF CallPends
    <3> QED  BY <1>1, <1>3, <1>4, <1>5, <3>1, HeadIsPending
  <2>3. /\ \A i, j \in 1..Len(writing[d].todo) : writing[d].todo[i] = writing[d].todo[j] => i = j
        /\ writing[d].step \in {"drop", "create", "insert"} => writing[d].todo # <<>>
        /\ writing[d].kind = "write" =>
              /\ Len(writing[d].todo) = 1 /\ writing[d].step # "abort"
              /\ writing[d].step = "commit" => writing[d].on = d
    BY <1>1, <1>3 DEF CallPends
  <2>4. /\ \A i, j \in 1..Len(writing'[d].todo) : writing'[d].todo[i] = writing'[d].todo[j] => i = j
        /\ writing'[d].step \in {"drop", "create", "insert"} => writing'[d].todo # <<>>
        /\ writing'[d].kind = "write" =>
              /\ Len(writing'[d].todo) = 1 /\ writing'[d].step # "abort"
              /\ writing'[d].step = "commit" => writing'[d].on = d
    BY <1>1, <2>3
  <2> QED  BY <2>1, <2>2, <2>4 DEF CallPends
<1>9. CallBatches(d)'
  <2>1. \A w \in Writes : On(w)' = writing[d].on => On(w) = writing[d].on /\ history'[w].answer = history[w].answer
    BY <1>4
  <2>2. connector' = connector
    BY DEF StatementOf
  <2> QED  BY <1>1, <1>3, <2>1, <2>2 DEF CallBatches, Is
<1>10. CallWrote(d)'
  <2>1. writing[d].kind = "write" /\ writing[d].step = "commit" => writing[d].on = d
    BY <1>1, <1>3 DEF CallPends
  <2> QED  BY <1>1, <1>3, <1>6, <2>1 DEF CallWrote
<1> QED  BY <1>7, <1>8, <1>9, <1>10

\* What a statement of a call may rely on.
LEMMA AtStatement ==
  ASSUME StoreInv, NEW c \in Contexts, Busy(c), writing[c].step \in {"drop", "create", "insert"}
  PROVE  LET k == writing[c].on   t == writing[c].table   w == Head(writing[c].todo)
         IN /\ k \in Connections /\ t \in TableNames /\ w \in Writes /\ c \in born
            /\ w \in Pending(c) /\ On(w) = k /\ history[w].table = t
            /\ history[w].answer = "running" /\ history[w] \in TableEntries
            /\ conn[k].open
            /\ k = c \/ k \in Txs
            /\ c \in Connections /\ c \notin Txs
            /\ writing[c] \in TableCalls /\ writing[c].todo \in Seq(Writes) /\ writing[c].todo # <<>>
            /\ writing[c].kind = "write" => Pending(c) = {w}
            /\ writing[c].kind = "batch" => connector = "sqlite" /\ k \in Txs
<1>1. writing[c] \in TableCalls /\ writing[c].todo \in Seq(Writes)
  BY DEF StoreInv, TableTypes, TableCalls, Busy
<1>2. writing[c].todo # <<>> /\ (writing[c].kind = "write" => Len(writing[c].todo) = 1)
  BY DEF StoreInv, CallPends
<1>3. /\ Head(writing[c].todo) \in Writes
      /\ Head(writing[c].todo) \in Pending(c)
  BY <1>2, HeadIsPending
<1>4. writing[c].kind = "write" => Pending(c) = {Head(writing[c].todo)}
  BY <1>1, <1>2 DEF Pending
<1>5. LET w == Head(writing[c].todo)
      IN /\ On(w) = writing[c].on /\ history[w].table = writing[c].table /\ history[w].answer = "running"
  BY <1>3 DEF StoreInv, CallPends, Is
<1>6. history[Head(writing[c].todo)] \in TableEntries
  BY <1>3, <1>5 DEF StoreInv, TableTypes, NoWrite
<1>7. writing[c].on \in Connections /\ writing[c].table \in TableNames
  BY <1>1 DEF TableCalls
<1>8. c \in born /\ conn[writing[c].on].open /\ (writing[c].on = c \/ writing[c].on \in Txs)
      /\ c \in Connections /\ c \notin Txs
  BY DEF StoreInv, CallRouted, Shared, Connections
<1>9. writing[c].kind = "batch" => connector = "sqlite" /\ writing[c].on \in Txs
  BY DEF StoreInv, CallBatches
<1> QED  BY <1>1, <1>2, <1>3, <1>4, <1>5, <1>6, <1>7, <1>8, <1>9

\* Going on to the next statement, with the call otherwise the same.
LEMMA NextStatement ==
  ASSUME StoreInv, NEW c \in Contexts, Busy(c), NEW step \in {"create", "insert", "commit", "abort"},
         writing' = [writing EXCEPT ![c].step = step]
  PROVE  /\ writing' \in [Contexts -> TableCalls \cup {Idle}]
         /\ \A d \in Contexts : d # c => writing'[d] = writing[d]
         /\ \A d \in Contexts : Busy(d)' <=> Busy(d)
         /\ \A d \in Contexts : Pending(d)' = Pending(d)
         /\ writing'[c].step = step /\ writing'[c].kind = writing[c].kind
         /\ writing'[c].on = writing[c].on /\ writing'[c].table = writing[c].table
         /\ writing'[c].todo = writing[c].todo
<1>1. writing \in [Contexts -> TableCalls \cup {Idle}] /\ writing[c] \in TableCalls
  BY DEF StoreInv, TableTypes, Busy
<1>2. /\ writing'[c] = [writing[c] EXCEPT !.step = step]
      /\ \A d \in Contexts : d # c => writing'[d] = writing[d]
  BY <1>1
<1>3. /\ writing'[c] \in TableCalls
      /\ writing'[c].step = step /\ writing'[c].kind = writing[c].kind
      /\ writing'[c].on = writing[c].on /\ writing'[c].table = writing[c].table
      /\ writing'[c].todo = writing[c].todo
  BY <1>1, <1>2 DEF TableCalls
<1>4. writing' \in [Contexts -> TableCalls \cup {Idle}]
  BY <1>1, <1>3
<1>5. \A d \in Contexts : Busy(d)' <=> Busy(d)
  BY <1>2, <1>3 DEF Busy, Idle, TableCalls
<1>6. \A d \in Contexts : Pending(d)' = Pending(d)
  BY <1>2, <1>3 DEF Pending
<1> QED  BY <1>2, <1>3, <1>4, <1>5, <1>6

\* Calls come and go from other contexts only as they did.
LEMMA StillShared ==
  ASSUME StoreInv, UNCHANGED <<active, born>>,
         \A d \in Contexts : Busy(d)' => Busy(d),
         \A k \in Connections : conn'[k].closer = conn[k].closer /\ conn'[k].open = conn[k].open
  PROVE  Shared'
<1>1. \A d \in Contexts : active[d] # Nothing => active[d] \in Connections
  BY DEF StoreInv, TableTypes, Connections
<1> QED  BY <1>1 DEF StoreInv, Shared, Loop

\* The call goes on without a DROP or a CREATE: the table is as it must be.
LEMMA SkipHolds ==
  ASSUME StoreInv, NEW c \in Contexts, Busy(c), NEW step \in {"create", "insert"},
         writing[c].step \in {"drop", "create"},
         writing[c].step = "create" => View(writing[c].on, writing[c].table).there,
         writing' = [writing EXCEPT ![c].step = step],
         UNCHANGED <<connector, db, conn, active, born, history>>
  PROVE  StoreInv'
<1> DEFINE k == writing[c].on
           t == writing[c].table
<1>1. /\ k \in Connections /\ t \in TableNames
      /\ \A w \in Writes : w \in Pending(c) => On(w) = k /\ history[w].table = t /\ history[w].answer = "running"
      /\ writing[c].todo # <<>> /\ CallPends(c) /\ CallBatches(c) /\ CallRouted(c)
      /\ writing[c].step \notin {"abort", "commit"}
  <2>1. CallPends(c) /\ CallBatches(c) /\ CallRouted(c)
    BY DEF StoreInv
  <2>2. /\ k \in Connections /\ t \in TableNames /\ writing[c].todo # <<>>
        /\ writing[c].step \notin {"abort", "commit"}
    BY AtStatement
  <2>3. \A w \in Pending(c) : On(w) = k /\ history[w].table = t /\ history[w].answer = "running"
    BY <2>1, <2>2 DEF CallPends, Is
  <2>4. Pending(c) \subseteq Writes
    BY PendingAreWrites
  <2> QED  BY <2>1, <2>2, <2>3, <2>4
<1>2. /\ writing' \in [Contexts -> TableCalls \cup {Idle}]
      /\ \A d \in Contexts : d # c => writing'[d] = writing[d]
      /\ \A d \in Contexts : Busy(d)' <=> Busy(d)
      /\ \A d \in Contexts : Pending(d)' = Pending(d)
      /\ writing'[c].step = step /\ writing'[c].kind = writing[c].kind
      /\ writing'[c].on = writing[c].on /\ writing'[c].table = writing[c].table
      /\ writing'[c].todo = writing[c].todo
  BY NextStatement
<1>3. TableTypes'
  BY <1>2 DEF StoreInv, TableTypes
<1>4. NumbersInOrder'
  BY DEF StoreInv, NumbersInOrder
<1>5. Shared'
  BY <1>2, StillShared
<1>6. \A d \in Contexts : CallRouted(d)' /\ CallPends(d)' /\ CallBatches(d)' /\ CallWrote(d)'
  <2>1. StatementOf(c)
    BY <1>2 DEF StatementOf, On
  <2>2. CallRouted(c)' /\ CallWrote(c)'
    BY <1>1, <1>2 DEF CallRouted, CallWrote
  <2>3. CallPends(c)'
    <3>1. /\ \A i, j \in 1..Len(writing[c].todo) : writing[c].todo[i] = writing[c].todo[j] => i = j
          /\ \A w \in Pending(c) : On(w) = writing[c].on /\ history[w].table = writing[c].table
          /\ \A w \in Pending(c) : Is(w, {"running"})
          /\ writing[c].kind = "write" => Len(writing[c].todo) = 1
      BY <1>1 DEF CallPends
    <3>2. /\ \A w \in Pending(c)' : On(w)' = writing'[c].on /\ history'[w].table = writing'[c].table
          /\ \A w \in Pending(c)' : Is(w, {"running"})'
      BY <1>2, <3>1 DEF On, Is
    <3> QED  BY <1>1, <1>2, <3>1, <3>2 DEF CallPends
  <2>4. CallBatches(c)'
    BY <1>1, <1>2 DEF CallBatches, On, Is
  <2> QED  BY <2>1, <2>2, <2>3, <2>4, OthersHold
<1>7. \A w \in Writes : WriteHolds(w)'
  BY <1>2 DEF StoreInv, WriteHolds, On, Is
<1>8. \A w \in Writes : StagedKept(w)'
  BY DEF StoreInv, StagedKept, On, Is, Over, InForce
<1>9. \A w \in Writes : CommittedKept(w)'
  BY DEF StoreInv, CommittedKept, On, Is, Over, Tainted
<1>10. \A u \in TableNames : RowsHold(u)'
  BY DEF StoreInv, RowsHold, On, Is
<1>11. \A j \in Connections : ConnHolds(j)'
  BY DEF StoreInv, ConnHolds, On, Is
<1>12. \A j \in Connections, u \in TableNames : ChangeHolds(j, u)'
  BY DEF StoreInv, ChangeHolds, On, Is
<1>13. \A j \in Connections, u \in TableNames : Accounted(j, u)'
  BY DEF StoreInv, Accounted, On, Is, Over, InForce
<1>14. NoGapOpen'
  <2> SUFFICES ASSUME NEW j \in Connections, NEW u \in TableNames,
                      connector = "postgres", ~conn[j].failed,
                      conn[j].change[u].own, ~conn[j].change[u].there
               PROVE  \E d \in Contexts : Busy(d)' /\ writing'[d].on = j /\ writing'[d].table = u
                                          /\ writing'[d].step = "create"
    BY DEF NoGapOpen
  <2>1. PICK d \in Contexts : Busy(d) /\ writing[d].on = j /\ writing[d].table = u
                              /\ writing[d].step = "create"
    BY DEF StoreInv, NoGapOpen
  <2>2. d # c
    BY <2>1 DEF View
  <2> QED  BY <1>2, <2>1, <2>2
<1> QED  BY <1>3, <1>4, <1>5, <1>6, <1>7, <1>8, <1>9, <1>10, <1>11, <1>12, <1>13, <1>14 DEF StoreInv

\* A DROP or a CREATE is in force at once, or is the connection's: whose rows it
\* takes away, if any, is noted with the write that it belongs to.
LEMMA DdlHolds ==
  ASSUME StoreInv, NEW c \in Contexts, Busy(c), NEW there \in BOOLEAN,
         writing[c].step = IF there THEN "create" ELSE "drop",
         writing' = [writing EXCEPT ![c].step = IF there THEN "insert" ELSE "create"],
         ~conn[writing[c].on].failed,
         Ddl(writing[c].on, writing[c].table, there),
         \/ there /\ ~View(writing[c].on, writing[c].table).there /\ history' = history
         \/ ~there /\ history' = [history EXCEPT ![Head(writing[c].todo)].over =
                                    {r[1] : r \in View(writing[c].on, writing[c].table).rows}],
         UNCHANGED <<connector, active, born>>
  PROVE  StoreInv' /\ (connector = "postgres" => db' = db)
<1> DEFINE step == IF there THEN "insert" ELSE "create"
<1>a. PICK k, t, w : k = writing[c].on /\ t = writing[c].table /\ w = Head(writing[c].todo)
  OBVIOUS
<1>b. PICK viewed : viewed = View(k, t).rows
  OBVIOUS
<1>c. Ddl(k, t, there)
  BY <1>a
<1>d. /\ there => history' = history
      /\ ~there => history' = [history EXCEPT ![w].over = {r[1] : r \in viewed}]
  BY <1>a, <1>b
<1>e. PICK o : o = {r[1] : r \in viewed}
  OBVIOUS
<1>1. /\ k \in Connections /\ t \in TableNames /\ w \in Writes /\ c \in born
      /\ w \in Pending(c) /\ On(w) = k /\ history[w].table = t
      /\ history[w].answer = "running" /\ history[w] \in TableEntries
      /\ conn[k].open
      /\ writing[c].todo # <<>>
      /\ CallPends(c) /\ CallBatches(c) /\ CallRouted(c)
      /\ ~there => history[w].over = {}
  BY <1>a, AtStatement DEF StoreInv, CallPends
<1>2. /\ writing' \in [Contexts -> TableCalls \cup {Idle}]
      /\ \A d \in Contexts : d # c => writing'[d] = writing[d]
      /\ \A d \in Contexts : Busy(d)' <=> Busy(d)
      /\ \A d \in Contexts : Pending(d)' = Pending(d)
      /\ writing'[c].step = step /\ writing'[c].kind = writing[c].kind
      /\ writing'[c].on = k /\ writing'[c].table = t
      /\ writing'[c].todo = writing[c].todo
  <2>1. step \in {"create", "insert", "commit", "abort"}
    OBVIOUS
  <2> QED  BY <1>a, <2>1, NextStatement
<1>3. /\ conn[k].change[t] \in Changes /\ db[t] \in [there : BOOLEAN, rows : SUBSET AllRows]
      /\ ChangeHolds(k, t) /\ RowsHold(t)
  BY <1>1 DEF StoreInv, TableTypes, Conns
<1>4. /\ conn[k].change[t].own => viewed = conn[k].change[t].rows
      /\ ~conn[k].change[t].own => viewed = db[t].rows \cup conn[k].change[t].rows
      /\ conn[k].change[t].rows \subseteq viewed
      /\ \A r \in viewed : r[1] \in Writes
      /\ there => viewed = {}
  <2>1. /\ conn[k].change[t].own => viewed = conn[k].change[t].rows
        /\ ~conn[k].change[t].own => viewed = db[t].rows \cup conn[k].change[t].rows
    BY ONLY <1>b DEF View
  <2>2. there => viewed = {}
    <3>1. there => ~View(k, t).there
      BY SMTT(30), <1>a
    <3>2. CASE conn[k].change[t].own
      BY SMTT(30), <1>3, <2>1, <3>1, <3>2 DEF ChangeHolds, View
    <3>3. CASE ~conn[k].change[t].own
      BY <1>3, <2>1, <3>1, <3>3 DEF ChangeHolds, RowsHold, View
    <3> QED  BY <3>2, <3>3
  <2>3. /\ conn[k].change[t].rows \subseteq AllRows /\ db[t].rows \subseteq AllRows
    BY <1>3 DEF Changes
  <2>4. viewed \subseteq AllRows
    BY <2>1, <2>3
  <2> QED  BY <2>1, <2>2, <2>4 DEF AllRows
\* The write takes note of every row it drops.
<1>5. /\ history' \in [Writes -> TableEntries \cup {NoWrite}]
      /\ \A v \in Writes : /\ On(v)' = On(v) /\ history'[v].table = history[v].table
                           /\ history'[v].answer = history[v].answer
                           /\ v # w => history'[v] = history[v]
      /\ \A v, x \in Writes : Over(v, x) => Over(v, x)'
      /\ \A r \in viewed : Over(w, r[1])'
  <2>0. history \in [Writes -> TableEntries \cup {NoWrite}]
    BY DEF StoreInv, TableTypes
  <2>1. /\ \A v \in Writes : v # w => history'[v] = history[v]
        /\ history'[w] \in TableEntries
        /\ history'[w].on = history[w].on /\ history'[w].table = history[w].table
        /\ history'[w].answer = history[w].answer
    <3>1. CASE there
      BY <1>1, <1>d, <3>1
    <3>2. CASE ~there
      <4>1. history' = [history EXCEPT ![w].over = o] /\ o \in SUBSET Writes
        BY <1>4, <1>d, <1>e, <3>2
      <4>2. history'[w] = [history[w] EXCEPT !.over = o]
        BY <1>1, <2>0, <4>1
      <4> QED  BY <1>1, <2>0, <4>1, <4>2 DEF TableEntries
    <3> QED  BY <3>1, <3>2
  <2>2. /\ \A r \in viewed : r[1] \in history'[w].over
        /\ \A x \in Writes : x \in history[w].over => x \in history'[w].over
    <3>1. CASE there
      BY <1>4, <1>d, <3>1
    <3>2. CASE ~there
      <4>1. history' = [history EXCEPT ![w].over = o]
        BY <1>d, <1>e, <3>2
      <4>2. history'[w] = [history[w] EXCEPT !.over = o]
        BY <1>1, <2>0, <4>1
      <4>3. history'[w].over = o
        BY <1>1, <4>2 DEF TableEntries
      <4> QED  BY <1>1, <1>e, <3>2, <4>3
    <3> QED  BY <3>1, <3>2
  <2>3. history' \in [Writes -> TableEntries \cup {NoWrite}]
    <3>1. \A v \in Writes : history'[v] \in TableEntries \cup {NoWrite}
      BY <2>0, <2>1
    <3>2. history' = history \/ history' = [history EXCEPT ![w].over = o]
      BY <1>d, <1>e
    <3> QED  BY <2>0, <3>1, <3>2
  <2>4. \A v \in Writes : /\ On(v)' = On(v) /\ history'[v].table = history[v].table
                          /\ history'[v].answer = history[v].answer
    BY <1>1, <2>1 DEF On
  <2>5. \A v, x \in Writes : Over(v, x) => Over(v, x)'
    BY <1>1, <2>1, <2>2 DEF Over
  <2>6. \A r \in viewed : Over(w, r[1])'
    BY <2>2 DEF Over
  <2> QED  BY <2>1, <2>3, <2>4, <2>5, <2>6
<1>6. /\ \A v \in Writes : \A as \in {{"running"}, {"staged"}, {"refused"}, {"denied"},
                                      {"committed", "denied"}, {"failed", "denied"},
                                      {"staged", "refused"}, {"running", "staged"},
                                      {"running", "staged", "refused"}} : Is(v, as)' <=> Is(v, as)
      /\ \A v \in Writes : InForce(v) => InForce(v)'
      /\ InForce(w)'
      /\ \A v \in Writes : Tainted(v) => Tainted(v)'
  BY SMTT(30), <1>1, <1>5 DEF Is, InForce, Tainted, On
\* In force at once, when nobody has written.
<1> DEFINE once == /\ connector = "sqlite" /\ conn' = conn
                   /\ \A j \in Connections : \A u \in TableNames : conn[j].change[u] = Same
                   /\ \A u \in TableNames : u # t => db'[u] = db[u]
                   /\ db'[t] = [there |-> there, rows |-> {}]
                   /\ db' \in [TableNames -> [there : BOOLEAN, rows : SUBSET AllRows]]
           later == /\ db' = db
                    /\ connector = "sqlite" => conn[k].begun
                    /\ conn' \in [Connections -> Conns]
                    /\ \A j \in Connections : j # k => conn'[j] = conn[j]
                    /\ conn'[k].open = conn[k].open /\ conn'[k].begun = conn[k].begun
                    /\ conn'[k].failed = conn[k].failed /\ conn'[k].kept = conn[k].kept
                    /\ conn'[k].closer = conn[k].closer
                    /\ \A u \in TableNames : u # t => conn'[k].change[u] = conn[k].change[u]
                    /\ conn'[k].change[t] = [own |-> TRUE, there |-> there, rows |-> {}]
                    /\ \A j \in Connections : j # k =>
                          ~conn[j].change[t].own /\ conn[j].change[t].rows = {}
<1>7. once \/ later
  <2>0. \A j \in Connections \ {k} :
           /\ connector = "sqlite" => ~conn[j].begun
           /\ connector = "postgres" => ~conn[j].change[t].own /\ conn[j].change[t].rows = {}
    BY <1>c DEF Ddl, Blocked, StoreInv, TableTypes
  <2>1. CASE connector = "sqlite" /\ ~conn[k].begun
    <3>1. conn' = conn /\ db' = [db EXCEPT ![t] = [there |-> there, rows |-> {}]]
      BY <1>c, <2>1 DEF Ddl, SQLiteDdl
    <3>2. \A j \in Connections : ~conn[j].begun
      BY <2>0, <2>1
    <3>3. \A j \in Connections : \A u \in TableNames : conn[j].change[u] = Same
      BY SMTT(30), <2>1, <3>2 DEF StoreInv, ChangeHolds
    <3> QED  BY <1>1, <2>1, <3>1, <3>3 DEF StoreInv, TableTypes
  <2>2. CASE ~(connector = "sqlite" /\ ~conn[k].begun)
    <3>1. conn' = Place(k, t, there) /\ db' = db
      BY <1>c, <2>2 DEF Ddl, SQLiteDdl, PostgresDdl
    <3>2. \A j \in Connections : j # k => ~conn[j].change[t].own /\ conn[j].change[t].rows = {}
      BY <1>1, <2>0, <2>2 DEF StoreInv, ChangeHolds, Same, TableTypes
    <3> DEFINE p == [own |-> TRUE, there |-> there, rows |-> {}]
               ch == [conn[k].change EXCEPT ![t] = p]
    <3>3. conn \in [Connections -> Conns] /\ conn[k] \in Conns /\ conn[k].change \in [TableNames -> Changes]
      BY <1>1 DEF StoreInv, TableTypes, Conns
    <3>4. ch \in [TableNames -> Changes] /\ ch[t] = p /\ \A u \in TableNames : u # t => ch[u] = conn[k].change[u]
      BY <1>1, <3>3 DEF Changes
    <3>5. conn' = [conn EXCEPT ![k] = [conn[k] EXCEPT !.change = ch]]
      BY <1>1, <3>1, <3>3 DEF Place
    <3> HIDE DEF ch, p
    <3>6. /\ conn'[k] = [conn[k] EXCEPT !.change = ch]
          /\ \A j \in Connections : j # k => conn'[j] = conn[j]
      BY <1>1, <3>3, <3>5
    <3>7. /\ conn'[k] \in Conns /\ conn'[k].change = ch
          /\ conn'[k].open = conn[k].open /\ conn'[k].begun = conn[k].begun
          /\ conn'[k].failed = conn[k].failed /\ conn'[k].kept = conn[k].kept
          /\ conn'[k].closer = conn[k].closer
      BY <3>3, <3>4, <3>6 DEF Conns
    <3>8. conn' \in [Connections -> Conns]
      BY <1>1, <3>3, <3>5, <3>6, <3>7
    <3> QED  BY <2>2, <3>1, <3>2, <3>4, <3>6, <3>7, <3>8 DEF p
  <2> QED  BY SMTT(30), <2>1, <2>2
<1> HIDE DEF step, once, later
<1>8. \A j \in Connections : /\ conn'[j].open = conn[j].open /\ conn'[j].closer = conn[j].closer
                             /\ conn'[j].begun = conn[j].begun /\ conn'[j].failed = conn[j].failed
                             /\ conn'[j].kept = conn[j].kept
                             /\ j # k => conn'[j] = conn[j]
  BY <1>7 DEF once, later
<1>9. StatementOf(c)
  BY <1>1, <1>a, <1>2, <1>5, <1>8 DEF StatementOf
<1>10. TableTypes'
  BY <1>2, <1>5, <1>7 DEF StoreInv, TableTypes, once, later
<1>11. NumbersInOrder'
  BY <1>5 DEF StoreInv, NumbersInOrder
<1>12. Shared'
  BY <1>2, <1>8, StillShared
<1>13. CallRouted(c)' /\ CallWrote(c)'
  BY SMTT(30), <1>1, <1>2, <1>8 DEF CallRouted, CallWrote, step
<1>14. CallPends(c)'
  <2>1. /\ \A i, j \in 1..Len(writing[c].todo) : writing[c].todo[i] = writing[c].todo[j] => i = j
        /\ \A v \in Pending(c) : On(v) = writing[c].on /\ history[v].table = writing[c].table
        /\ \A v \in Pending(c) : Is(v, {"running"})
        /\ writing[c].kind = "write" => Len(writing[c].todo) = 1
    BY <1>1 DEF CallPends
  <2>2. Pending(c) \subseteq Writes
    BY PendingAreWrites
  <2>3. /\ \A v \in Pending(c)' : On(v)' = writing'[c].on /\ history'[v].table = writing'[c].table
        /\ \A v \in Pending(c)' : Is(v, {"running"})'
    BY <1>2, <1>5, <1>6, <2>1, <2>2 
  <2> QED  BY <1>1, <1>2, <2>1, <2>3 DEF CallPends, step
<1>15. CallBatches(c)'
  BY <1>1, <1>2, <1>5 DEF CallBatches, Is, step
<1>16. \A v \in Writes : WriteHolds(v)'
  BY SMTT(30), <1>2, <1>5, <1>8 DEF StoreInv, WriteHolds, Is, Connections
<1>17. \A v \in Writes : StagedKept(v)'
  <2> SUFFICES ASSUME NEW v \in Writes, Is(v, {"staged"})', ~conn'[On(v)'].failed
               PROVE  \/ RowsOf(v) \subseteq conn'[On(v)'].change[history'[v].table].rows
                      \/ \E x \in Writes : On(x)' = On(v)' /\ Over(x, v)' /\ InForce(x)'
    BY DEF StagedKept
  <2>1. Is(v, {"staged"}) /\ On(v)' = On(v) /\ history'[v].table = history[v].table
    BY <1>5 DEF Is
  <2>2. On(v) \in Connections /\ history[v].table \in TableNames
    BY SMTT(30), <2>1 DEF StoreInv, WriteHolds, TableTypes, TableEntries, NoWrite, Is, Connections
  <2>3. CASE RowsOf(v) \subseteq conn[On(v)].change[history[v].table].rows
    <3>1. CASE On(v) = k /\ history[v].table = t
      <4>1. <<v, 1>> \in viewed
        BY <1>4, <2>3, <3>1 DEF RowsOf
      <4>2. Over(w, <<v, 1>>[1])'
        BY <1>5, <4>1
      <4>3. Over(w, v)'
        BY <4>2
      <4>4. On(w)' = On(v)' /\ w \in Writes
        BY SMTT(30), <1>1, <1>5, <2>1, <3>1
      <4> QED  BY <1>6, <4>3, <4>4
    <3>2. CASE On(v) # k \/ history[v].table # t
      BY <1>7, <1>8, <2>1, <2>2, <2>3, <3>2 DEF once, later
    <3> QED  BY <3>1, <3>2
  <2>4. CASE \E x \in Writes : On(x) = On(v) /\ Over(x, v) /\ InForce(x)
    BY <1>5, <1>6, <2>1, <2>4
  <2> QED  BY SMTT(30), <1>8, <2>1, <2>2, <2>3, <2>4 DEF StoreInv, StagedKept
<1>18. \A v \in Writes : CommittedKept(v)'
  <2> SUFFICES ASSUME NEW v \in Writes, Is(v, {"committed", "denied"})', ~Tainted(v)'
               PROVE  \/ RowsOf(v) \subseteq db'[history'[v].table].rows
                      \/ \E x \in Writes : Over(x, v)' /\ (connector' = "sqlite" \/ Is(x, {"committed", "denied"})')
    BY DEF CommittedKept
  <2>1. Is(v, {"committed", "denied"}) /\ ~Tainted(v) /\ history'[v].table = history[v].table
    BY <1>5, <1>6 DEF Is
  <2>2. history[v].table \in TableNames
    BY <2>1 DEF StoreInv, TableTypes, TableEntries, NoWrite, Is
  <2>3. CASE RowsOf(v) \subseteq db[history[v].table].rows
    <3>1. CASE once /\ history[v].table = t
      <4>0. ~conn[k].change[t].own
        BY <1>1, <3>1 DEF once, Same
      <4>1. <<v, 1>> \in viewed
        BY <1>4, <2>3, <3>1, <4>0 DEF RowsOf
      <4>2. Over(w, <<v, 1>>[1])'
        BY <1>5, <4>1
      <4>3. Over(w, v)'
        BY <4>2
      <4>4. connector' = "sqlite" /\ w \in Writes
        BY SMTT(30), <1>1, <3>1 DEF once
      <4> QED  BY <4>3, <4>4
    <3>2. CASE ~(once /\ history[v].table = t)
      BY <1>7, <2>1, <2>2, <2>3, <3>2 DEF once, later
    <3> QED  BY <3>1, <3>2
  <2>4. CASE \E x \in Writes : Over(x, v) /\ (connector = "sqlite" \/ Is(x, {"committed", "denied"}))
    BY <1>5, <1>6, <2>4
  <2> QED  BY <2>1, <2>3, <2>4 DEF StoreInv, CommittedKept
<1>19. \A u \in TableNames : RowsHold(u)'
  <2> SUFFICES ASSUME NEW u \in TableNames PROVE RowsHold(u)'
    OBVIOUS
  <2>1. RowsHold(u) /\ \A r \in db[u].rows : r[1] \in Writes
    BY DEF StoreInv, TableTypes, AllRows
  <2>2. CASE once /\ u = t
    BY <2>2 DEF once, RowsHold
  <2>3. CASE db'[u] = db[u]
    <3>1. \A r \in db[u].rows : On(r[1]) \in Txs => conn'[On(r[1])].kept = conn[On(r[1])].kept
      BY <1>8 DEF Connections
    <3> QED  BY <1>5, <1>6, <2>1, <2>3, <3>1 DEF RowsHold
  <2> QED  BY <1>7, <2>2, <2>3 DEF once, later
<1>20. \A j \in Connections : ConnHolds(j)'
  BY <1>5, <1>6, <1>8 DEF StoreInv, ConnHolds
<1>21. \A j \in Connections, u \in TableNames : ChangeHolds(j, u)' /\ Accounted(j, u)'
  <2> SUFFICES ASSUME NEW j \in Connections, NEW u \in TableNames
               PROVE  ChangeHolds(j, u)' /\ Accounted(j, u)'
    OBVIOUS
  <2>1. CASE once
    BY <2>1 DEF once, ChangeHolds, Accounted, Same
  <2>2. CASE later
    <3>0. conn[j].change[u] \in Changes
      BY DEF StoreInv, TableTypes, Conns
    <3>1. /\ ChangeHolds(j, u) /\ Accounted(j, u) /\ ChangeHolds(k, t)
          /\ \A r \in conn[j].change[u].rows : r[1] \in Writes
          /\ \A r \in db[u].rows : r[1] \in Writes
      BY <1>3, <3>0 DEF StoreInv, TableTypes, Changes, AllRows
    <3>2. CASE j = k /\ u = t
      <4>0. /\ conn'[k].change[t].own /\ conn'[k].change[t].rows = {} /\ conn'[k].open
            /\ connector = "sqlite" => conn'[k].begun
            /\ db' = db /\ conn'[k].failed = conn[k].failed
            /\ \A i \in Connections \ {k} : ~conn'[i].change[t].own /\ conn'[i].change[t].rows = {}
        BY <1>1, <1>8, <2>2 DEF later
      <4>1. ChangeHolds(k, t)'
        BY <4>0 DEF ChangeHolds
      <4>2. Accounted(k, t)'
        <5> SUFFICES ASSUME NEW r \in db[t].rows
                     PROVE  \E v \in Writes : On(v)' = k /\ Over(v, r[1])' /\ InForce(v)'
          BY <4>0 DEF Accounted
        <5>1. CASE conn[k].change[t].own
          <6>1. ~conn[k].failed
            BY <1>a
          <6>2. PICK v \in Writes : On(v) = k /\ Over(v, r[1]) /\ InForce(v)
            BY <3>1, <3>2, <5>1, <6>1 DEF Accounted
          <6>3. r[1] \in Writes
            BY <3>1, <3>2
          <6> QED  BY <1>5, <1>6, <6>2, <6>3
        <5>2. CASE ~conn[k].change[t].own
          <6>1. r \in viewed
            BY <1>4, <5>2
          <6>2. On(w)' = k /\ w \in Writes
            BY <1>1, <1>5
          <6>3. Over(w, r[1])'
            BY <1>5, <6>1
          <6> QED  BY <1>6, <6>2, <6>3
        <5> QED  BY <5>1, <5>2
      <4> QED  BY <3>2, <4>1, <4>2
    <3>3. CASE j # k \/ u # t
      <4>1. conn'[j].change[u] = conn[j].change[u] /\ db' = db
        BY SMTT(30), <1>8, <2>2, <3>3 DEF later
      <4>2. \A r \in conn[j].change[u].rows :
               /\ On(r[1])' = j /\ history'[r[1]].table = u
               /\ Is(r[1], IF j \in Txs THEN {"staged", "refused"} ELSE {"running"})'
        BY <1>5, <3>1 DEF ChangeHolds, Is
      <4>3. conn[j].change[u].own => \A i \in Connections \ {j} :
               ~conn'[i].change[u].own /\ conn'[i].change[u].rows = {}
        <5> SUFFICES ASSUME conn[j].change[u].own, NEW i \in Connections \ {j}
                     PROVE  ~conn'[i].change[u].own /\ conn'[i].change[u].rows = {}
          OBVIOUS
        <5>1. ~conn[i].change[u].own /\ conn[i].change[u].rows = {}
          BY <3>1 DEF ChangeHolds
        <5>2. i # k \/ u # t
          BY <2>2, <3>3 DEF later
        <5>3. conn'[i].change[u] = conn[i].change[u]
          BY SMTT(30), <1>8, <2>2, <5>2 DEF later
        <5> QED  BY <5>1, <5>3
      <4>4. ChangeHolds(j, u)'
        BY <1>8, <3>1, <4>1, <4>2, <4>3 DEF ChangeHolds
      <4>5. Accounted(j, u)'
        <5> SUFFICES ASSUME conn[j].change[u].own, ~conn[j].failed, NEW r \in db[u].rows
                     PROVE  \E v \in Writes : On(v)' = j /\ Over(v, r[1])' /\ InForce(v)'
          BY <1>8, <4>1 DEF Accounted
        <5>1. PICK v \in Writes : On(v) = j /\ Over(v, r[1]) /\ InForce(v)
          BY <3>1 DEF Accounted
        <5> QED  BY <1>5, <1>6, <3>1, <5>1
      <4> QED  BY <4>4, <4>5
    <3> QED  BY <3>2, <3>3
  <2> QED  BY <1>7, <2>1, <2>2
<1>22. NoGapOpen'
  <2> SUFFICES ASSUME NEW j \in Connections, NEW u \in TableNames,
                      connector = "postgres", ~conn'[j].failed,
                      conn'[j].change[u].own, ~conn'[j].change[u].there
               PROVE  \E d \in Contexts : Busy(d)' /\ writing'[d].on = j /\ writing'[d].table = u
                                          /\ writing'[d].step = "create"
    BY DEF NoGapOpen
  <2>1. later
    BY <1>7 DEF once
  <2>2. CASE j = k /\ u = t
    <3>1. ~there
      BY <2>1, <2>2 DEF later
    <3> QED  BY <1>2, <2>2, <3>1 DEF step
  <2>3. CASE ~(j = k /\ u = t)
    <3>1. conn'[j].change[u] = conn[j].change[u]
      BY <1>8, <2>1, <2>3 DEF later
    <3>2. PICK d \in Contexts : Busy(d) /\ writing[d].on = j /\ writing[d].table = u
                                /\ writing[d].step = "create"
      BY <1>8, <3>1 DEF StoreInv, NoGapOpen
    <3>3. d # c
      BY <1>a, <2>3, <3>2
    <3> QED  BY <1>2, <3>2, <3>3
  <2> QED  BY <2>2, <2>3
<1>23. connector = "postgres" => db' = db
  BY <1>7 DEF once, later
<1>24. \A d \in Contexts : CallRouted(d)' /\ CallPends(d)' /\ CallBatches(d)' /\ CallWrote(d)'
  BY <1>9, <1>13, <1>14, <1>15, OthersHold
<1> QED  BY <1>10, <1>11, <1>12, <1>16, <1>17, <1>18, <1>19, <1>20, <1>21, <1>22, <1>23, <1>24 DEF StoreInv

\* A statement of a call ends, with some of its rows added or with an error:
\* what the others have is theirs, and what the call's connection noted stays.
EndsFor(c, k, t, w, rows, a) ==
  /\ Busy(c) /\ k = writing[c].on /\ k \in Connections /\ t \in TableNames /\ w \in Writes
  /\ On(w) = k /\ history[w].table = t /\ history[w].answer = "running" /\ conn[k].open
  /\ a \in {"running", "staged", "refused"} /\ (a = "running" <=> k \notin Txs)
  /\ a # "refused" => writing[c].step = "insert"
  /\ rows \subseteq RowsOf(w) /\ (a = "staged" => rows = RowsOf(w))
  /\ UNCHANGED <<connector, db, active, born>>

EndsAnswered(k, t, w, a) ==
  /\ history' \in [Writes -> TableEntries \cup {NoWrite}]
  /\ \A v \in Writes : v # w => history'[v] = history[v]
  /\ history'[w].on = k /\ history'[w].table = t /\ history'[w].answer = a
  /\ connector = "sqlite" \/ a # "refused" => history'[w].over = history[w].over

EndsOn(k, t, rows, a) ==
  /\ conn' \in [Connections -> Conns]
  /\ \A j \in Connections : j # k => conn'[j] = conn[j]
  /\ conn'[k].open = conn[k].open /\ conn'[k].closer = conn[k].closer /\ conn'[k].kept = conn[k].kept
  /\ conn[k].begun => conn'[k].begun
  /\ conn'[k].failed <=> conn[k].failed \/ (connector = "postgres" /\ a = "refused")
  /\ \A u \in TableNames : u # t => conn'[k].change[u] = conn[k].change[u]
  /\ conn'[k].change[t].own = conn[k].change[t].own /\ conn'[k].change[t].there = conn[k].change[t].there
  /\ conn'[k].change[t].rows = conn[k].change[t].rows \cup rows
  /\ \/ rows = {} /\ conn'[k].begun = conn[k].begun
     \/ conn'[k].begun /\ View(k, t).there /\ ~Blocked(k, t, FALSE)

EndsCall(c, w, a) ==
  /\ writing' \in [Contexts -> TableCalls \cup {Idle}]
  /\ \A d \in Contexts : d # c => writing'[d] = writing[d]
  /\ \A v \in Pending(c) : v # w \/ a = "running" => Busy(c)' /\ v \in Pending(c)'
  /\ CallRouted(c)' /\ CallPends(c)' /\ CallBatches(c)' /\ CallWrote(c)'

\* Whatever statement ends so leaves the invariant true.
LEMMA EndsHold ==
  ASSUME StoreInv, NEW c \in Contexts, NEW k, NEW t, NEW w, NEW rows, NEW a,
         EndsFor(c, k, t, w, rows, a), EndsAnswered(k, t, w, a), EndsOn(k, t, rows, a), EndsCall(c, w, a)
  PROVE  StoreInv'
<1>0. /\ Busy(c) /\ k = writing[c].on /\ k \in Connections /\ t \in TableNames /\ w \in Writes
      /\ On(w) = k /\ history[w].table = t /\ history[w].answer = "running" /\ conn[k].open
      /\ a \in {"running", "staged", "refused"} /\ (a = "running" <=> k \notin Txs)
      /\ a # "refused" => writing[c].step = "insert"
      /\ rows \subseteq RowsOf(w) /\ (a = "staged" => rows = RowsOf(w))
      /\ UNCHANGED <<connector, db, active, born>>
  BY DEF EndsFor
<1>1. /\ \A v \in Writes : On(v)' = On(v) /\ history'[v].table = history[v].table
      /\ history'[w].answer = a
      /\ \A v \in Writes : v # w => history'[v].answer = history[v].answer
      /\ \A v, x \in Writes : v # w => (Over(v, x)' <=> Over(v, x))
      /\ \A x \in Writes : (connector = "sqlite" \/ a # "refused") => (Over(w, x)' <=> Over(w, x))
  BY <1>0 DEF EndsAnswered, On, Over
<1>2. /\ \A v \in Writes : v # w => (InForce(v)' <=> InForce(v))
      /\ (connector = "sqlite" \/ a # "refused") => InForce(w)'
  BY <1>0, <1>1 DEF InForce, Is
<1>4. /\ \A j \in Connections : /\ conn'[j].open = conn[j].open /\ conn'[j].closer = conn[j].closer
                                /\ conn'[j].kept = conn[j].kept
                                /\ conn[j].failed => conn'[j].failed
                                /\ conn[j].begun => conn'[j].begun
                                /\ j # k => conn'[j] = conn[j]
      /\ conn'[k].failed <=> conn[k].failed \/ (connector = "postgres" /\ a = "refused")
  BY DEF EndsOn
\* The overwriting writes of a connection that may commit stay in force.
<1>3. \A v, x \in Writes, j \in Connections :
         On(v) = j /\ ~conn'[j].failed /\ Over(v, x) /\ InForce(v)
           => On(v)' = j /\ Over(v, x)' /\ InForce(v)'
  <2> SUFFICES ASSUME NEW v \in Writes, NEW x \in Writes, NEW j \in Connections,
                      On(v) = j, ~conn'[j].failed, Over(v, x), InForce(v)
               PROVE  On(v)' = j /\ Over(v, x)' /\ InForce(v)'
    OBVIOUS
  <2>1. CASE v # w
    BY <1>1, <1>2, <2>1
  <2>2. CASE v = w
    <3>1. connector = "sqlite" \/ a # "refused"
      BY <1>0, <1>4, <2>2 DEF StoreInv, TableTypes
    <3> QED  BY <1>1, <1>2, <2>2, <3>1
  <2> QED  BY <2>1, <2>2
<1>6. /\ \A j \in Connections, u \in TableNames :
            /\ conn'[j].change[u].own = conn[j].change[u].own
            /\ conn'[j].change[u].there = conn[j].change[u].there
            /\ conn[j].change[u].rows \subseteq conn'[j].change[u].rows
            /\ j # k \/ u # t => conn'[j].change[u] = conn[j].change[u]
      /\ conn'[k].change[t].rows = conn[k].change[t].rows \cup rows
  BY DEF EndsOn
<1>5. rows = {} => conn'[k].change[t] = conn[k].change[t]
  <2>1. conn \in [Connections -> Conns] /\ conn' \in [Connections -> Conns]
    BY DEF EndsOn, StoreInv, TableTypes
  <2>2. PICK old, next : old = conn[k].change[t] /\ next = conn'[k].change[t]
    OBVIOUS
  <2>3. old \in Changes /\ next \in Changes
    BY ONLY <2>1, <2>2, <1>0 DEF Conns
  <2>4. rows = {} => old.own = next.own /\ old.there = next.there /\ old.rows = next.rows
    BY ONLY <1>0, <1>6, <2>2
  <2>5. rows = {} => old = next
    BY ONLY <2>3, <2>4 DEF Changes
  <2> QED  BY ONLY <2>2, <2>5
<1>7. /\ \A r \in rows : r[1] = w
      /\ \A j \in Connections, u \in TableNames : \A r \in conn[j].change[u].rows : r[1] \in Writes
      /\ \A u \in TableNames : \A r \in db[u].rows : r[1] \in Writes
  BY <1>0 DEF StoreInv, TableTypes, Conns, Changes, AllRows, RowsOf
<1>8. (conn'[k].begun /\ ~conn[k].begun) \/ rows # {} =>
        /\ conn'[k].begun /\ View(k, t).there
        /\ \A j \in Connections : j # k => /\ ~(connector = "sqlite" /\ conn[j].begun)
                                           /\ ~(connector = "postgres" /\ conn[j].change[t].own)
  <2>1. DOMAIN conn = Connections
    BY DEF StoreInv, TableTypes
  <2>2. (conn'[k].begun /\ ~conn[k].begun) \/ rows # {} =>
          conn'[k].begun /\ View(k, t).there /\ ~Blocked(k, t, FALSE)
    BY DEF EndsOn
  <2> QED  BY <1>0, <2>1, <2>2 DEF Blocked
<1>10. TableTypes'
  <2>1. /\ conn' \in [Connections -> Conns]
        /\ history' \in [Writes -> TableEntries \cup {NoWrite}]
        /\ writing' \in [Contexts -> TableCalls \cup {Idle}]
    BY DEF EndsOn, EndsAnswered, EndsCall
  <2> QED  BY <1>0, <2>1 DEF StoreInv, TableTypes
<1>11. NumbersInOrder'
  <2>1. \A v \in Writes : history'[v].answer # "none" <=> history[v].answer # "none"
    BY <1>0, <1>1
  <2> QED  BY <2>1 DEF StoreInv, NumbersInOrder
<1>12. Shared'
  <2>1. \A d \in Contexts : Busy(d)' => Busy(d)
    BY <1>0 DEF Busy, EndsCall
  <2> QED  BY <1>0, <1>4, <2>1, StillShared
<1>13. \A d \in Contexts : CallRouted(d)' /\ CallPends(d)' /\ CallBatches(d)' /\ CallWrote(d)'
  <2>1. StatementOf(c)
    <3>1. /\ writing' \in [Contexts -> TableCalls \cup {Idle}]
          /\ \A d \in Contexts : d # c => writing'[d] = writing[d]
      BY DEF EndsCall
    <3>2. \A v \in Writes : On(v) # k => history'[v] = history[v]
      BY <1>0 DEF EndsAnswered
    <3> QED  BY <1>0, <1>1, <1>4, <3>1, <3>2 DEF StatementOf
  <2> QED  BY <2>1, OthersHold DEF EndsCall
<1>14. \A v \in Writes : WriteHolds(v)'
  <2> SUFFICES ASSUME NEW v \in Writes PROVE WriteHolds(v)'
    OBVIOUS
  <2>1. WriteHolds(v) /\ (On(v) \in Txs => On(v) \in Connections)
    BY DEF StoreInv, Connections
  <2>2. On(v)' \in Txs => conn'[On(v)'].open \/ conn'[On(v)'].closer # Nothing
    BY <1>1, <1>4, <2>1 DEF WriteHolds
  <2>3. Is(v, {"staged"})' => On(v)' \in Txs /\ conn'[On(v)'].open
    BY <1>0, <1>1, <1>4, <2>1 DEF WriteHolds, Is, Connections
  <2>4. Is(v, {"running"})' => \E d \in Contexts : Busy(d)' /\ v \in Pending(d)'
    <3> SUFFICES ASSUME Is(v, {"running"})' PROVE \E d \in Contexts : Busy(d)' /\ v \in Pending(d)'
      OBVIOUS
    <3>1. PICK d \in Contexts : Busy(d) /\ v \in Pending(d)
      <4>1. Is(v, {"running"})
        BY <1>0, <1>1 DEF Is
      <4> QED  BY <2>1, <4>1 DEF WriteHolds
    <3>2. CASE d # c
      BY <3>1, <3>2 DEF Busy, Pending, EndsCall
    <3>3. CASE d = c
      BY <1>1, <3>1, <3>3 DEF Is, EndsCall
    <3> QED  BY <3>2, <3>3
  <2>5. Is(v, {"failed", "denied"})' /\ On(v)' \in Txs =>
           ~conn'[On(v)'].open /\ (conn'[On(v)'].kept <=> Is(v, {"denied"})')
    BY <1>0, <1>1, <1>4, <2>1 DEF WriteHolds, Is
  <2> QED  BY <2>2, <2>3, <2>4, <2>5 DEF WriteHolds
<1>15. \A v \in Writes : StagedKept(v)'
  <2> SUFFICES ASSUME NEW v \in Writes, Is(v, {"staged"})', ~conn'[On(v)'].failed
               PROVE  \/ RowsOf(v) \subseteq conn'[On(v)'].change[history'[v].table].rows
                      \/ \E x \in Writes : On(x)' = On(v)' /\ Over(x, v)' /\ InForce(x)'
    BY DEF StagedKept
  <2>1. CASE v = w
    BY <1>0, <1>1, <1>6, <2>1 DEF Is
  <2>2. CASE v # w
    <3>1. Is(v, {"staged"}) /\ On(v)' = On(v) /\ history'[v].table = history[v].table
      BY <1>1, <2>2 DEF Is
    <3>2. On(v) \in Connections /\ history[v].table \in TableNames
      BY <3>1 DEF StoreInv, WriteHolds, TableTypes, TableEntries, NoWrite, Is, Connections
    <3>3. CASE RowsOf(v) \subseteq conn[On(v)].change[history[v].table].rows
      BY <1>6, <3>1, <3>2, <3>3
    <3>4. CASE \E x \in Writes : On(x) = On(v) /\ Over(x, v) /\ InForce(x)
      BY <1>3, <3>1, <3>2, <3>4
    <3>5. ~conn[On(v)].failed
      BY <1>4, <3>1, <3>2
    <3> QED  BY <3>1, <3>3, <3>4, <3>5 DEF StoreInv, StagedKept
  <2> QED  BY <2>1, <2>2
<1>16. \A v \in Writes : CommittedKept(v)'
  <2> SUFFICES ASSUME NEW v \in Writes, Is(v, {"committed", "denied"})', ~Tainted(v)'
               PROVE  \/ RowsOf(v) \subseteq db'[history'[v].table].rows
                      \/ \E x \in Writes : Over(x, v)' /\ (connector' = "sqlite" \/ Is(x, {"committed", "denied"})')
    BY DEF CommittedKept
  <2>1. v # w /\ Is(v, {"committed", "denied"}) /\ history'[v].table = history[v].table
    BY <1>0, <1>1 DEF Is
  <2>2. ~Tainted(v)
    <3> SUFFICES ASSUME Tainted(v) PROVE FALSE
      OBVIOUS
    <3>1. PICK x \in Writes : /\ history[x].on = history[v].on /\ history[v].on \in Txs
                              /\ history[x].answer = "refused"
      BY DEF Tainted
    <3>2. x # w
      BY <1>0, <3>1
    <3>3. history'[x].on = history'[v].on /\ history'[v].on \in Txs /\ history'[x].answer = "refused"
      BY <1>1, <3>1, <3>2 DEF On
    <3> QED  BY <3>3 DEF Tainted
  <2>3. CASE RowsOf(v) \subseteq db[history[v].table].rows
    BY <1>0, <2>1, <2>3
  <2>4. CASE \E x \in Writes : Over(x, v) /\ (connector = "sqlite" \/ Is(x, {"committed", "denied"}))
    <3>1. PICK x \in Writes : Over(x, v) /\ (connector = "sqlite" \/ Is(x, {"committed", "denied"}))
      BY <2>4
    <3>2. Over(x, v)'
      <4>1. x = w => connector = "sqlite"
        BY <1>0, <3>1 DEF Is
      <4> QED  BY <1>1, <3>1, <4>1
    <3>3. Is(x, {"committed", "denied"}) => Is(x, {"committed", "denied"})'
      BY <1>0, <1>1 DEF Is
    <3> QED  BY <1>0, <3>1, <3>2, <3>3
  <2> QED  BY <2>1, <2>2, <2>3, <2>4 DEF StoreInv, CommittedKept
<1>17. \A u \in TableNames : RowsHold(u)'
  <2> SUFFICES ASSUME NEW u \in TableNames PROVE RowsHold(u)'
    OBVIOUS
  <2>1. RowsHold(u)
    BY DEF StoreInv
  <2>2. \A r \in db[u].rows : /\ r[1] \in Writes /\ r[1] # w
                              /\ On(r[1]) \in Txs => conn'[On(r[1])].kept = conn[On(r[1])].kept
    BY <1>0, <1>4, <1>7, <2>1 DEF RowsHold, Is, Connections
  <2> QED  BY <1>0, <1>1, <2>1, <2>2 DEF RowsHold, Is
<1>18. \A j \in Connections : ConnHolds(j)'
  <2> SUFFICES ASSUME NEW j \in Connections PROVE ConnHolds(j)'
    OBVIOUS
  <2>1. \A i \in Connections : ConnHolds(i)
    BY DEF StoreInv
  <2>2. conn'[j].kept => j \in Txs /\ ~conn'[j].open
    BY <1>4, <2>1 DEF ConnHolds
  <2>3. connector = "sqlite" /\ conn'[j].begun => \A i \in Connections : conn'[i].begun => i = j
    BY <1>0, <1>4, <1>8, <2>1 DEF ConnHolds
  <2>4. conn'[j].failed => j \in Txs /\ connector = "postgres" /\ \E v \in Writes : On(v)' = j /\ Is(v, {"refused"})'
    <3>1. CASE conn[j].failed
      <4>1. PICK v \in Writes : On(v) = j /\ Is(v, {"refused"})
        BY <2>1, <3>1 DEF ConnHolds
      <4>2. On(v)' = j /\ Is(v, {"refused"})'
        BY <1>0, <1>1, <4>1 DEF Is
      <4> QED  BY <1>0, <2>1, <3>1, <4>2 DEF ConnHolds
    <3>2. CASE ~conn[j].failed /\ conn'[j].failed
      <4>1. j = k /\ connector = "postgres" /\ a = "refused"
        BY <1>4, <3>2
      <4>2. On(w)' = k /\ Is(w, {"refused"})'
        BY <1>0, <1>1, <4>1 DEF Is
      <4> QED  BY <1>0, <4>1, <4>2
    <3> QED  BY <3>1, <3>2
  <2> QED  BY <1>0, <2>2, <2>3, <2>4 DEF ConnHolds
<1>19. \A j \in Connections, u \in TableNames : ChangeHolds(j, u)'
  <2> SUFFICES ASSUME NEW j \in Connections, NEW u \in TableNames PROVE ChangeHolds(j, u)'
    OBVIOUS
  <2>1. \A i \in Connections : ChangeHolds(i, u)
    BY DEF StoreInv
  <2>2. \A r \in conn'[j].change[u].rows :
           /\ On(r[1])' = j /\ history'[r[1]].table = u
           /\ Is(r[1], IF j \in Txs THEN {"staged", "refused"} ELSE {"running"})'
    <3>1. ASSUME NEW r \in conn[j].change[u].rows
          PROVE  /\ On(r[1])' = j /\ history'[r[1]].table = u
                 /\ Is(r[1], IF j \in Txs THEN {"staged", "refused"} ELSE {"running"})'
      <4>1. /\ r[1] \in Writes /\ On(r[1]) = j /\ history[r[1]].table = u
            /\ Is(r[1], IF j \in Txs THEN {"staged", "refused"} ELSE {"running"})
        BY <1>7, <2>1 DEF ChangeHolds
      <4>2. CASE r[1] # w
        BY <1>1, <4>1, <4>2 DEF Is
      <4>3. CASE r[1] = w
        BY <1>0, <1>1, <4>1, <4>3 DEF Is
      <4> QED  BY <4>2, <4>3
    <3>2. ASSUME NEW r \in rows, j = k, u = t
          PROVE  /\ On(r[1])' = j /\ history'[r[1]].table = u
                 /\ Is(r[1], IF j \in Txs THEN {"staged", "refused"} ELSE {"running"})'
      BY <1>0, <1>1, <1>7, <3>2 DEF Is
    <3> QED  BY <1>6, <3>1, <3>2
  <2>3. conn'[j].change[u].own /\ ~conn'[j].change[u].there => conn'[j].change[u].rows = {}
    BY <1>6, <1>8, <2>1 DEF ChangeHolds, View
  <2>4. ~conn'[j].change[u].own /\ conn'[j].change[u].rows # {} => db[u].there
    BY <1>6, <1>8, <2>1 DEF ChangeHolds, View
  <2>5. ~conn'[j].open => conn'[j].change[u] = Same
    <3>1. ~conn'[j].open => conn[j].change[u] = Same /\ j # k
      BY <1>0, <1>4, <2>1 DEF ChangeHolds
    <3> QED  BY <1>6, <3>1
  <2>6. connector = "sqlite" /\ ~conn'[j].begun => conn'[j].change[u] = Same
    <3>1. CASE j # k \/ u # t
      BY <1>4, <1>6, <2>1, <3>1 DEF ChangeHolds
    <3>2. CASE j = k /\ u = t
      <4> SUFFICES ASSUME connector = "sqlite", ~conn'[k].begun PROVE conn'[k].change[t] = Same
        BY <3>2
      <4>1. rows = {} /\ conn[k].change[t] = Same
        BY <1>4, <1>8, <2>1, <3>2 DEF ChangeHolds
      <4> QED  BY <1>5, <4>1
    <3> QED  BY <3>1, <3>2
  <2>7. conn'[j].change[u].own => \A i \in Connections \ {j} :
            ~conn'[i].change[u].own /\ conn'[i].change[u].rows = {}
    <3> SUFFICES ASSUME conn'[j].change[u].own, NEW i \in Connections \ {j}
                 PROVE  ~conn'[i].change[u].own /\ conn'[i].change[u].rows = {}
      OBVIOUS
    <3>1. conn[j].change[u].own /\ ~conn[i].change[u].own /\ conn[i].change[u].rows = {}
      BY <1>6, <2>1 DEF ChangeHolds
    <3>2. connector = "sqlite" => conn[j].begun
      BY <2>1, <3>1 DEF ChangeHolds, Same
    <3>3. connector \in {"sqlite", "postgres"}
      BY DEF StoreInv, TableTypes
    <3>4. i = k /\ u = t => rows = {}
      BY <1>8, <3>1, <3>2, <3>3
    <3> QED  BY <1>6, <3>1, <3>4
  <2> QED  BY <1>0, <2>2, <2>3, <2>4, <2>5, <2>6, <2>7 DEF ChangeHolds
<1>20. \A j \in Connections, u \in TableNames : Accounted(j, u)'
  <2> SUFFICES ASSUME NEW j \in Connections, NEW u \in TableNames,
                      conn'[j].change[u].own, ~conn'[j].failed, NEW r \in db[u].rows
               PROVE  \E v \in Writes : On(v)' = j /\ Over(v, r[1])' /\ InForce(v)'
    BY <1>0 DEF Accounted
  <2>1. conn[j].change[u].own /\ ~conn[j].failed
    BY <1>4, <1>6
  <2>2. PICK v \in Writes : On(v) = j /\ Over(v, r[1]) /\ InForce(v)
    BY <2>1 DEF StoreInv, Accounted
  <2> QED  BY <1>3, <1>7, <2>2
<1>21. NoGapOpen'
  <2> SUFFICES ASSUME NEW j \in Connections, NEW u \in TableNames,
                      connector = "postgres", ~conn'[j].failed,
                      conn'[j].change[u].own, ~conn'[j].change[u].there
               PROVE  \E d \in Contexts : Busy(d)' /\ writing'[d].on = j /\ writing'[d].table = u
                                          /\ writing'[d].step = "create"
    BY <1>0 DEF NoGapOpen
  <2>1. PICK d \in Contexts : Busy(d) /\ writing[d].on = j /\ writing[d].table = u
                              /\ writing[d].step = "create"
    BY <1>4, <1>6 DEF StoreInv, NoGapOpen
  <2>2. d # c
    BY <1>0, <1>4, <2>1 DEF EndsCall
  <2> QED  BY <2>1, <2>2 DEF Busy, EndsCall
<1> QED  BY <1>10, <1>11, <1>12, <1>13, <1>14, <1>15, <1>16, <1>17, <1>18, <1>19, <1>20, <1>21 DEF StoreInv

\* What is left of a call's frames after the first.
LEMMA FramesLeft ==
  ASSUME NEW s \in Seq(Writes), s # <<>>,
         \A i, j \in 1..Len(s) : s[i] = s[j] => i = j
  PROVE  /\ Tail(s) \in Seq(Writes) /\ Len(Tail(s)) = Len(s) - 1
         /\ Len(s) = 1 <=> Tail(s) = <<>>
         /\ \A i, j \in 1..Len(Tail(s)) : Tail(s)[i] = Tail(s)[j] => i = j
         /\ \A i \in 1..Len(Tail(s)) : \E j \in 1..Len(s) : Tail(s)[i] = s[j]
         /\ \A i \in 1..Len(Tail(s)) : Tail(s)[i] # Head(s)
         /\ \A j \in 1..Len(s) : s[j] # Head(s) => \E i \in 1..Len(Tail(s)) : Tail(s)[i] = s[j]
<1>1. /\ Tail(s) \in Seq(Writes) /\ Len(Tail(s)) = Len(s) - 1 /\ Len(s) \in Nat \ {0}
      /\ Head(s) = s[1]
      /\ \A i \in 1..Len(Tail(s)) : Tail(s)[i] = s[i + 1] /\ i + 1 \in 1..Len(s) /\ i + 1 # 1
  OBVIOUS
<1>2. \A i, j \in 1..Len(Tail(s)) : Tail(s)[i] = Tail(s)[j] => i = j
  BY <1>1
<1>3. \A i \in 1..Len(Tail(s)) : Tail(s)[i] # Head(s)
  BY <1>1
<1>4. \A j \in 1..Len(s) : s[j] # Head(s) => \E i \in 1..Len(Tail(s)) : Tail(s)[i] = s[j]
  <2> SUFFICES ASSUME NEW j \in 1..Len(s), s[j] # Head(s)
               PROVE  \E i \in 1..Len(Tail(s)) : Tail(s)[i] = s[j]
    OBVIOUS
  <2>1. j - 1 \in 1..Len(Tail(s))
    BY <1>1
  <2>2. Tail(s)[j - 1] = s[j]
    BY <1>1, <2>1
  <2> QED  BY <2>1, <2>2
<1>5. Len(s) = 1 <=> Tail(s) = <<>>
  <2>1. PICK r \in Seq(Writes) : r = Tail(s)
    BY <1>1
  <2>2. Len(r) = 0 <=> r = <<>>
    OBVIOUS
  <2> QED  BY <1>1, <2>1, <2>2
<1>6. \A i \in 1..Len(Tail(s)) : \E j \in 1..Len(s) : Tail(s)[i] = s[j]
  BY <1>1
<1> QED  BY <1>1, <1>2, <1>3, <1>4, <1>5, <1>6

\* The call of a connection of its own goes to its commit with its rows in.
LEMMA OwnGoesOn ==
  ASSUME StoreInv, NEW c \in Contexts, NEW w, Busy(c), writing[c].on = c,
         writing[c].step = "insert", w = Head(writing[c].todo),
         writing' = [writing EXCEPT ![c].step = "commit"],
         history' = history, conn' \in [Connections -> Conns], conn'[c].open,
         RowsOf(w) \subseteq conn'[c].change[writing[c].table].rows,
         UNCHANGED <<connector, active, born>>
  PROVE  EndsCall(c, w, "running")
<1>1. /\ writing[c].kind = "write" /\ Pending(c) = {w} /\ w \in Writes
      /\ CallPends(c) /\ c \in Connections /\ c \notin Txs
  BY OwnCall DEF StoreInv
<1>2. /\ writing' \in [Contexts -> TableCalls \cup {Idle}]
      /\ \A d \in Contexts : d # c => writing'[d] = writing[d]
      /\ Busy(c)' /\ Pending(c)' = Pending(c)
      /\ writing'[c].step = "commit" /\ writing'[c].kind = "write"
      /\ writing'[c].on = c /\ writing'[c].table = writing[c].table
      /\ writing'[c].todo = writing[c].todo
  BY <1>1, NextStatement
<1>3. CallRouted(c)' /\ CallBatches(c)' /\ CallWrote(c)'
  BY <1>2 DEF CallRouted, CallBatches, CallWrote
<1>4. CallPends(c)'
  <2>1. /\ Len(writing[c].todo) = 1
        /\ \A i, j \in 1..Len(writing[c].todo) : writing[c].todo[i] = writing[c].todo[j] => i = j
        /\ \A v \in Pending(c) : On(v) = writing[c].on /\ history[v].table = writing[c].table
        /\ \A v \in Pending(c) : Is(v, {"running"})
    BY <1>1 DEF CallPends
  <2>2. /\ \A v \in Pending(c)' : On(v)' = writing'[c].on /\ history'[v].table = writing'[c].table
        /\ \A v \in Pending(c)' : Is(v, {"running"})'
    BY <1>2, <2>1 DEF On, Is
  <2> QED  BY <1>2, <2>1, <2>2 DEF CallPends
<1> QED  BY <1>2, <1>3, <1>4 DEF EndsCall

\* A write in a transaction is answered with its last statement.
LEMMA WriteAnswered ==
  ASSUME StoreInv, NEW c \in Contexts, NEW w, Busy(c), writing[c].kind = "write",
         writing[c].step \in {"drop", "create", "insert"}, w = Head(writing[c].todo),
         writing' = [writing EXCEPT ![c] = Idle], NEW a \in {"staged", "refused"}
  PROVE  EndsCall(c, w, a)
<1>1. Pending(c) = {w}
  BY AtStatement
<1>2. /\ writing' \in [Contexts -> TableCalls \cup {Idle}] /\ ~Busy(c)'
      /\ \A d \in Contexts : d # c => writing'[d] = writing[d]
  BY DEF StoreInv, TableTypes, Busy
<1> QED  BY <1>1, <1>2 DEF EndsCall, CallRouted, CallPends, CallBatches, CallWrote

\* A batch goes on with its next frame, or to its commit.
LEMMA BatchGoesOn ==
  ASSUME StoreInv, NEW c \in Contexts, NEW w, Busy(c), writing[c].kind = "batch",
         writing[c].step = "insert", w = Head(writing[c].todo),
         writing' = [writing EXCEPT ![c].todo = Tail(@),
                       ![c].step = IF Len(writing[c].todo) = 1 THEN "commit" ELSE "create"],
         EndsAnswered(writing[c].on, writing[c].table, w, "staged"),
         conn'[writing[c].on].open,
         UNCHANGED <<connector, active, born>>
  PROVE  EndsCall(c, w, "staged")
<1>1. /\ w \in Writes /\ On(w) = writing[c].on /\ history[w].table = writing[c].table
      /\ writing[c] \in TableCalls /\ writing[c].todo \in Seq(Writes) /\ writing[c].todo # <<>>
      /\ CallPends(c) /\ CallBatches(c) /\ CallRouted(c)
  BY AtStatement DEF StoreInv
<1>2. PICK s, rest : s = writing[c].todo /\ rest = Tail(s)
  OBVIOUS
<1>3. /\ rest \in Seq(Writes) /\ (Len(s) = 1 <=> rest = <<>>)
      /\ \A i, j \in 1..Len(rest) : rest[i] = rest[j] => i = j
      /\ \A i \in 1..Len(rest) : \E j \in 1..Len(s) : rest[i] = s[j]
      /\ \A i \in 1..Len(rest) : rest[i] # w
      /\ \A j \in 1..Len(s) : s[j] # w => \E i \in 1..Len(rest) : rest[i] = s[j]
  <2>1. s \in Seq(Writes) /\ s # <<>> /\ \A i, j \in 1..Len(s) : s[i] = s[j] => i = j
    BY <1>1, <1>2 DEF CallPends
  <2>2. /\ Tail(s) \in Seq(Writes) /\ (Len(s) = 1 <=> Tail(s) = <<>>)
        /\ \A i, j \in 1..Len(Tail(s)) : Tail(s)[i] = Tail(s)[j] => i = j
        /\ \A i \in 1..Len(Tail(s)) : \E j \in 1..Len(s) : Tail(s)[i] = s[j]
        /\ \A i \in 1..Len(Tail(s)) : Tail(s)[i] # Head(s)
        /\ \A j \in 1..Len(s) : s[j] # Head(s) => \E i \in 1..Len(Tail(s)) : Tail(s)[i] = s[j]
    BY <2>1, FramesLeft
  <2>3. rest = Tail(s) /\ w = Head(s)
    BY <1>2
  <2> QED  BY <2>2, <2>3
<1>4. PICK step \in {"commit", "create"} : step = IF Len(s) = 1 THEN "commit" ELSE "create"
  OBVIOUS
<1>o. PICK old : old = writing[c]
  OBVIOUS
<1>p. PICK next : next = [old EXCEPT !.todo = rest, !.step = step]
  OBVIOUS
<1>q. /\ next \in TableCalls /\ next.todo = rest /\ next.step = step
      /\ next.on = old.on /\ next.table = old.table /\ next.kind = old.kind
  <2>1. old \in TableCalls
    BY <1>1, <1>o
  <2> QED  BY ONLY <1>p, <1>3, <1>4, <2>1, step \in {"commit", "create"} DEF TableCalls
<1>5. writing' = [writing EXCEPT ![c] = next] /\ writing \in [Contexts -> TableCalls \cup {Idle}]
  BY <1>2, <1>4, <1>o, <1>p DEF StoreInv, TableTypes
<1>6. writing'[c] = next /\ \A d \in Contexts : d # c => writing'[d] = writing[d]
  BY <1>5
<1>7. /\ writing'[c] \in TableCalls /\ writing'[c].todo = rest /\ writing'[c].step = step
      /\ writing'[c].on = writing[c].on /\ writing'[c].table = writing[c].table
      /\ writing'[c].kind = "batch"
  BY ONLY <1>6, <1>q, <1>o, writing[c].kind = "batch"
<1>8. /\ writing' \in [Contexts -> TableCalls \cup {Idle}] /\ Busy(c)'
  <2>1. writing' \in [Contexts -> TableCalls \cup {Idle}]
    BY ONLY <1>5, <1>q
  <2> QED  BY <1>7, <2>1 DEF Busy, Idle, TableCalls
<1>9. Pending(c)' = Pending(c) \ {w}
  <2>1. Pending(c)' = {rest[i] : i \in 1..Len(rest)}
    BY <1>7 DEF Pending
  <2>2. Pending(c) = {s[i] : i \in 1..Len(s)}
    BY <1>2 DEF Pending
  <2>3. ASSUME NEW v PROVE v \in Pending(c)' <=> v \in Pending(c) \ {w}
    BY ONLY <1>3, <2>1, <2>2
  <2> QED  BY <2>3
<1>10. \A v \in Writes : /\ On(v)' = On(v) /\ history'[v].table = history[v].table
                         /\ history'[v].answer = IF v = w THEN "staged" ELSE history[v].answer
  BY SMTT(30), <1>1 DEF EndsAnswered, On
<1>11. CallRouted(c)' /\ CallWrote(c)'
  BY SMTT(30), <1>1, <1>7 DEF CallRouted, CallWrote
<1>12. CallPends(c)'
  <2>1. /\ \A v \in Pending(c) : On(v) = writing[c].on /\ history[v].table = writing[c].table
        /\ \A v \in Pending(c) : Is(v, {"running"})
        /\ Pending(c) \subseteq Writes
    BY <1>1, PendingAreWrites DEF CallPends
  <2>2. /\ \A v \in Pending(c)' : On(v)' = writing'[c].on /\ history'[v].table = writing'[c].table
        /\ \A v \in Pending(c)' : Is(v, {"running"})'
    BY <1>7, <1>9, <1>10, <2>1 DEF Is
  <2>3. writing'[c].step \in {"drop", "create", "insert"} => writing'[c].todo # <<>>
    BY <1>3, <1>4, <1>7
  <2>4. \A i, j \in 1..Len(writing'[c].todo) : writing'[c].todo[i] = writing'[c].todo[j] => i = j
    BY SMTT(30), <1>3, <1>7
  <2>5. writing'[c].kind = "batch" /\ writing'[c].step # "drop"
    BY <1>4, <1>7
  <2> QED  BY <2>2, <2>3, <2>4, <2>5 DEF CallPends
<1>13. CallBatches(c)'
  <2>1. \A v \in Writes : On(v) = writing[c].on => Is(v, {"staged"}) \/ v \in Pending(c)
    BY <1>1 DEF CallBatches
  <2>2. \A v \in Pending(c) : Is(v, {"running"})
    BY <1>1 DEF CallPends
  <2>3. \A v \in Writes : On(v)' = writing'[c].on =>
           /\ Is(v, {"running", "staged", "refused"})'
           /\ Is(v, {"staged"})' \/ v \in Pending(c)'
    BY <1>7, <1>9, <1>10, <2>1, <2>2 DEF Is
  <2>4. connector' = "sqlite" /\ writing'[c].on \in Txs
    BY <1>1, <1>7 DEF CallBatches
  <2> QED  BY <1>3, <1>4, <1>7, <2>3, <2>4 DEF CallBatches
<1> QED  BY <1>6, <1>8, <1>9, <1>11, <1>12, <1>13 DEF EndsCall

\* A batch in which a statement failed goes to its abort.
LEMMA BatchGivesUp ==
  ASSUME StoreInv, NEW c \in Contexts, NEW w, Busy(c), writing[c].kind = "batch",
         writing[c].step \in {"drop", "create", "insert"}, w = Head(writing[c].todo),
         writing' = [writing EXCEPT ![c].step = "abort"],
         EndsAnswered(writing[c].on, writing[c].table, w, "refused"),
         conn'[writing[c].on].open,
         UNCHANGED <<connector, active, born>>
  PROVE  EndsCall(c, w, "refused")
<1>1. /\ w \in Writes /\ On(w) = writing[c].on /\ history[w].table = writing[c].table
      /\ writing[c].step # "abort"
      /\ CallPends(c) /\ CallBatches(c) /\ CallRouted(c)
  BY AtStatement DEF StoreInv
<1>2. /\ writing' \in [Contexts -> TableCalls \cup {Idle}]
      /\ \A d \in Contexts : d # c => writing'[d] = writing[d]
      /\ Busy(c)' /\ Pending(c)' = Pending(c)
      /\ writing'[c].step = "abort" /\ writing'[c].kind = "batch"
      /\ writing'[c].on = writing[c].on /\ writing'[c].table = writing[c].table
      /\ writing'[c].todo = writing[c].todo
  BY NextStatement
<1>3. \A v \in Writes : /\ On(v)' = On(v) /\ history'[v].table = history[v].table
                        /\ history'[v].answer = IF v = w THEN "refused" ELSE history[v].answer
  BY <1>1 DEF EndsAnswered, On
<1>4. CallRouted(c)' /\ CallWrote(c)'
  BY <1>1, <1>2 DEF CallRouted, CallWrote
<1>5. CallPends(c)'
  <2>1. /\ \A v \in Pending(c) : On(v) = writing[c].on /\ history[v].table = writing[c].table
        /\ \A i, j \in 1..Len(writing[c].todo) : writing[c].todo[i] = writing[c].todo[j] => i = j
        /\ Pending(c) \subseteq Writes
    BY <1>1, PendingAreWrites DEF CallPends
  <2>2. \A v \in Pending(c)' : On(v)' = writing'[c].on /\ history'[v].table = writing'[c].table
    BY <1>2, <1>3, <2>1
  <2> QED  BY <1>2, <2>1, <2>2 DEF CallPends
<1>6. CallBatches(c)'
  <2>1. \A v \in Writes : On(v) = writing[c].on => Is(v, {"running", "staged", "refused"})
    BY <1>1 DEF CallBatches
  <2>2. \A v \in Writes : On(v)' = writing'[c].on => Is(v, {"running", "staged", "refused"})'
    BY <1>2, <1>3, <2>1 DEF Is
  <2>3. connector' = "sqlite" /\ writing'[c].on \in Txs
    BY <1>1, <1>2 DEF CallBatches
  <2> QED  BY <1>2, <2>2, <2>3 DEF CallBatches
<1> QED  BY <1>2, <1>4, <1>5, <1>6 DEF EndsCall

\* What the rows of a statement, or its failure, make of a connection.
LEMMA RowsAreAdded ==
  ASSUME StoreInv, NEW k \in Connections, NEW t \in TableNames, NEW rows \in SUBSET AllRows, NEW a,
         conn' = Add(k, t, rows), View(k, t).there, ~Blocked(k, t, FALSE), ~conn[k].failed,
         a # "refused" \/ connector = "sqlite"
  PROVE  EndsOn(k, t, rows, a)
<1>1. /\ conn \in [Connections -> Conns] /\ conn[k] \in Conns
      /\ conn[k].change \in [TableNames -> Changes] /\ conn[k].change[t] \in Changes
  BY DEF StoreInv, TableTypes, Conns
<1>2. PICK one : one = [conn[k].change[t] EXCEPT !.rows = @ \cup rows]
  OBVIOUS
<1>3. /\ one \in Changes /\ one.own = conn[k].change[t].own /\ one.there = conn[k].change[t].there
      /\ one.rows = conn[k].change[t].rows \cup rows
  BY <1>1, <1>2 DEF Changes
<1>4. PICK ch : ch = [conn[k].change EXCEPT ![t] = one]
  OBVIOUS
<1>5. /\ ch \in [TableNames -> Changes] /\ ch[t] = one
      /\ \A u \in TableNames : u # t => ch[u] = conn[k].change[u]
  BY <1>1, <1>3, <1>4
<1>6. PICK rec : rec = [conn[k] EXCEPT !.begun = TRUE, !.change = ch]
  OBVIOUS
<1>7. /\ rec \in Conns /\ rec.change = ch /\ rec.begun
      /\ rec.open = conn[k].open /\ rec.closer = conn[k].closer /\ rec.kept = conn[k].kept
      /\ rec.failed = conn[k].failed
  BY ONLY <1>1, <1>5, <1>6 DEF Conns
<1>8. conn' = [conn EXCEPT ![k] = rec]
  BY <1>1, <1>2, <1>4, <1>6 DEF Add
<1>9. /\ conn' \in [Connections -> Conns] /\ conn'[k] = rec
      /\ \A j \in Connections : j # k => conn'[j] = conn[j]
  BY ONLY <1>1, <1>7, <1>8, k \in Connections
<1>10. ~(connector = "postgres" /\ a = "refused")
  OBVIOUS
<1> QED  BY <1>3, <1>5, <1>7, <1>9, <1>10 DEF EndsOn

\* A failed statement dooms a PostgreSQL transaction, and nothing else of it.
LEMMA DoomedOnly ==
  ASSUME StoreInv, NEW k \in Txs, NEW t \in TableNames, conn' = Doom(k)
  PROVE  EndsOn(k, t, {}, "refused")
<1>1. /\ conn \in [Connections -> Conns] /\ conn[k] \in Conns /\ k \in Connections
      /\ conn[k].change \in [TableNames -> Changes] /\ conn[k].change[t] \in Changes
      /\ conn[k].failed => connector = "postgres"
  BY DEF StoreInv, TableTypes, Conns, ConnHolds, Connections
<1>2. PICK f \in BOOLEAN : f = (connector = "postgres")
  OBVIOUS
<1>3. PICK rec : rec = [conn[k] EXCEPT !.failed = f]
  OBVIOUS
<1>4. /\ rec \in Conns /\ rec.change = conn[k].change /\ rec.begun = conn[k].begun
      /\ rec.open = conn[k].open /\ rec.closer = conn[k].closer /\ rec.kept = conn[k].kept
      /\ rec.failed = f
  BY ONLY <1>1, <1>3, f \in BOOLEAN DEF Conns
<1>5. conn' = [conn EXCEPT ![k] = rec]
  BY <1>1, <1>2, <1>3 DEF Doom
<1>6. /\ conn' \in [Connections -> Conns] /\ conn'[k] = rec
      /\ \A j \in Connections : j # k => conn'[j] = conn[j]
  BY ONLY <1>1, <1>4, <1>5
<1>7. conn'[k].change[t].rows = conn[k].change[t].rows \cup {}
  BY <1>4, <1>6
<1>8. conn'[k].failed <=> conn[k].failed \/ (connector = "postgres" /\ "refused" = "refused")
  BY <1>1, <1>2, <1>4, <1>6
<1> QED  BY <1>4, <1>6, <1>7, <1>8 DEF EndsOn

\* An answer given to one write.
LEMMA OneAnswered ==
  ASSUME StoreInv, NEW w \in Writes, NEW a \in {"staged", "refused"}, history[w] \in TableEntries,
         history' = Answered({w}, a), connector' = connector
  PROVE  EndsAnswered(On(w), history[w].table, w, a)
<1>1. history[w] # NoWrite
  BY DEF TableEntries, NoWrite, WriteAnswers
<1>2. a \in WriteAnswers \ {"none"}
  BY DEF WriteAnswers
<1>3. PICK ws \in SUBSET Writes : ws = {w}
  OBVIOUS
<1>4. /\ \A v \in ws : history[v] # NoWrite
      /\ history' = Answered(ws, a)
  BY <1>1, <1>3
<1>5. /\ history' \in [Writes -> TableEntries \cup {NoWrite}]
      /\ \A v \in Writes : /\ On(v)' = On(v)
                           /\ history'[v].table = history[v].table
                           /\ history'[v].answer = IF v \in ws THEN a ELSE history[v].answer
                           /\ v \notin ws => history'[v] = history[v]
                           /\ (connector = "sqlite" \/ a \notin {"refused", "undone", "failed"})
                                 => history'[v].over = history[v].over
  BY <1>2, <1>4, AnswersGiven
<1> QED  BY <1>3, <1>5 DEF EndsAnswered, On

\* The rows of a write go in.
LEMMA InsertHolds ==
  ASSUME StoreInv, NEW c \in Contexts, Insert(c)
  PROVE  StoreInv' /\ db' = db
<1>1. Busy(c) /\ writing[c].step = "insert"
  BY DEF Insert, At, Busy, Idle
<1>2. PICK k, t, w : k = writing[c].on /\ t = writing[c].table /\ w = Head(writing[c].todo)
  OBVIOUS
<1>3. /\ k \in Connections /\ t \in TableNames /\ w \in Writes
      /\ On(w) = k /\ history[w].table = t /\ history[w].answer = "running"
      /\ history[w] \in TableEntries /\ conn[k].open /\ (k = c \/ k \in Txs) /\ c \notin Txs
      /\ writing[c].kind \in {"write", "batch"} /\ (writing[c].kind = "batch" => k \in Txs)
  BY <1>1, <1>2, AtStatement DEF TableCalls
<1>4. /\ View(k, t).there /\ ~Blocked(k, t, FALSE) /\ ~conn[k].failed
      /\ conn' = Add(k, t, RowsOf(w)) /\ writing' = AfterInsert(c)
      /\ history' = IF k = c THEN history ELSE Answered({w}, "staged")
      /\ UNCHANGED <<connector, db, active, born>>
  BY <1>2 DEF Insert, Healthy
<1>5. PICK rows : rows = RowsOf(w)
  OBVIOUS
<1>6. rows \in SUBSET AllRows
  BY <1>3, <1>5 DEF RowsOf, AllRows
<1>7. ASSUME NEW a, a # "refused" PROVE EndsOn(k, t, rows, a)
  BY <1>3, <1>4, <1>5, <1>6, <1>7, RowsAreAdded
<1>8. CASE k = c
  <2>1. EndsFor(c, k, t, w, rows, "running")
    BY <1>1, <1>2, <1>3, <1>4, <1>5, <1>8 DEF EndsFor
  <2>2. EndsAnswered(k, t, w, "running")
    BY <1>3, <1>4, <1>8 DEF EndsAnswered, On, StoreInv, TableTypes
  <2>3. EndsOn(k, t, rows, "running")
    BY <1>7
  <2>4. EndsCall(c, w, "running")
    <3>1. RowsOf(w) \subseteq conn'[c].change[writing[c].table].rows /\ conn'[c].open
          /\ conn' \in [Connections -> Conns]
      <4>1. /\ conn' \in [Connections -> Conns] /\ conn'[k].open = conn[k].open
            /\ conn'[k].change[t].rows = conn[k].change[t].rows \cup rows
        BY <2>3 DEF EndsOn
      <4> QED  BY ONLY <1>2, <1>3, <1>5, <1>8, <4>1
    <3>2. writing' = [writing EXCEPT ![c].step = "commit"] /\ history' = history
      BY <1>2, <1>4, <1>8 DEF AfterInsert
    <3>3. writing[c].on = c /\ w = Head(writing[c].todo) /\ UNCHANGED <<connector, active, born>>
      BY <1>2, <1>4, <1>8
    <3> QED  BY ONLY StoreInv, c \in Contexts, <1>1, <3>1, <3>2, <3>3, OwnGoesOn
  <2> QED  BY <1>4, <2>1, <2>2, <2>3, <2>4, EndsHold
<1>9. CASE k # c
  <2>1. EndsFor(c, k, t, w, rows, "staged")
    BY <1>1, <1>2, <1>3, <1>4, <1>5, <1>9 DEF EndsFor
  <2>2. EndsAnswered(k, t, w, "staged")
    BY <1>3, <1>4, <1>9, OneAnswered
  <2>3. EndsOn(k, t, rows, "staged")
    BY <1>7
  <2>4. EndsCall(c, w, "staged")
    <3>1. conn'[k].open
      BY <1>3, <2>3 DEF EndsOn
    <3>2. CASE writing[c].kind = "write"
      <4>1. writing' = [writing EXCEPT ![c] = Idle]
        BY <1>2, <1>4, <1>9, <3>2 DEF AfterInsert
      <4> QED  BY <1>1, <1>2, <3>2, <4>1, WriteAnswered
    <3>3. CASE writing[c].kind = "batch"
      <4>1. writing' = [writing EXCEPT ![c].todo = Tail(@),
                          ![c].step = IF Len(writing[c].todo) = 1 THEN "commit" ELSE "create"]
        BY <1>2, <1>4, <1>9, <3>3 DEF AfterInsert
      <4> QED  BY <1>1, <1>2, <1>4, <2>2, <3>1, <3>3, <4>1, BatchGoesOn
    <3> QED  BY <1>3, <3>2, <3>3
  <2> QED  BY <1>4, <2>1, <2>2, <2>3, <2>4, EndsHold
<1> QED  BY <1>8, <1>9

\* A statement fails: before it did anything, or at its second row.
LEMMA FailureHolds ==
  ASSUME StoreInv, NEW c \in Contexts, StatementFails(c) \/ InsertFailsMidway(c)
  PROVE  StoreInv' /\ db' = db
<1>1. Busy(c) /\ writing[c].step \in {"drop", "create", "insert"}
  <2>1. At(c, "drop") \/ At(c, "create") \/ At(c, "insert")
    BY DEF StatementFails, InsertFailsMidway
  <2> QED  BY <2>1 DEF At, Busy, Idle
<1>2. PICK k, t, w : k = writing[c].on /\ t = writing[c].table /\ w = Head(writing[c].todo)
  OBVIOUS
<1>3. /\ k \in Connections /\ t \in TableNames /\ w \in Writes
      /\ On(w) = k /\ history[w].table = t /\ history[w].answer = "running"
      /\ history[w] \in TableEntries /\ conn[k].open /\ (k = c \/ k \in Txs) /\ c \notin Txs
      /\ writing[c].kind \in {"write", "batch"} /\ (writing[c].kind = "batch" => k \in Txs)
  BY <1>1, <1>2, AtStatement DEF TableCalls
<1>4. /\ writing' = AfterFailure(c)
      /\ history' = Answered({w}, "refused")
      /\ UNCHANGED <<connector, db, active, born>>
      /\ k = c => conn' = [conn EXCEPT ![c] = Closed(c, FALSE)]
      /\ k # c => \/ conn' = Doom(k)
                  \/ /\ connector = "sqlite" /\ conn' = Add(k, t, {<<w, 1>>})
                     /\ View(k, t).there /\ ~Blocked(k, t, FALSE) /\ ~conn[k].failed
  BY <1>2 DEF StatementFails, InsertFailsMidway, Failed, Healthy
<1>5. CASE k = c
  <2>1. writing' = [writing EXCEPT ![c] = Idle]
    BY <1>3, <1>4, <1>5 DEF AfterFailure
  <2>2. /\ conn' = [conn EXCEPT ![c] = Closed(c, FALSE)]
        /\ db' = IF FALSE THEN Settled(c) ELSE db
        /\ history' = Answered({Head(writing[c].todo)}, "refused")
        /\ UNCHANGED <<connector, active, born>> /\ writing[c].on = c
    BY <1>2, <1>4, <1>5
  <2>3. FALSE <=> TookEffect("refused")
    BY DEF TookEffect
  <2> QED  BY <1>1, <1>4, <2>1, <2>2, <2>3, OwnEndHolds
<1>6. CASE k # c
  <2>1. EndsAnswered(k, t, w, "refused")
    BY <1>3, <1>4, OneAnswered
  <2>2. PICK rows \in SUBSET RowsOf(w) : EndsOn(k, t, rows, "refused")
    <3>1. CASE conn' = Doom(k)
      <4>1. EndsOn(k, t, {}, "refused")
        BY <1>3, <1>6, <3>1, DoomedOnly
      <4> QED  BY <4>1
    <3>2. CASE /\ connector = "sqlite" /\ conn' = Add(k, t, {<<w, 1>>})
               /\ View(k, t).there /\ ~Blocked(k, t, FALSE) /\ ~conn[k].failed
      <4>1. PICK rows : rows = {<<w, 1>>}
        OBVIOUS
      <4>2. rows \in SUBSET AllRows /\ rows \in SUBSET RowsOf(w)
        BY <1>3, <4>1 DEF RowsOf, AllRows
      <4>3. EndsOn(k, t, rows, "refused")
        BY <1>3, <3>2, <4>1, <4>2, RowsAreAdded
      <4> QED  BY <4>2, <4>3
    <3> QED  BY <1>4, <1>6, <3>1, <3>2
  <2>3. EndsFor(c, k, t, w, rows, "refused")
    BY <1>1, <1>2, <1>3, <1>4, <1>6, <2>2 DEF EndsFor
  <2>4. EndsCall(c, w, "refused")
    <3>1. conn'[k].open
      BY <1>3, <2>2 DEF EndsOn
    <3>2. CASE writing[c].kind = "write"
      <4>1. writing' = [writing EXCEPT ![c] = Idle]
        BY <1>4, <3>2 DEF AfterFailure
      <4> QED  BY <1>1, <1>2, <3>2, <4>1, WriteAnswered
    <3>3. CASE writing[c].kind = "batch"
      <4>1. writing' = [writing EXCEPT ![c].step = "abort"]
        BY <1>4, <3>3 DEF AfterFailure
      <4> QED  BY <1>1, <1>2, <1>4, <2>1, <3>1, <3>3, <4>1, BatchGivesUp
    <3> QED  BY <1>3, <3>2, <3>3
  <2> QED  BY <1>4, <2>1, <2>2, <2>3, <2>4, EndsHold
<1> QED  BY <1>5, <1>6

\* The DROP of a replace.
LEMMA DropHolds ==
  ASSUME StoreInv, NEW c \in Contexts, Drop(c)
  PROVE  StoreInv' /\ (connector = "postgres" => db' = db)
<1>1. Busy(c) /\ writing[c].step = "drop"
  BY DEF Drop, At, Busy, Idle
<1>2. /\ writing' = [writing EXCEPT ![c].step = "create"] /\ ~conn[writing[c].on].failed
      /\ UNCHANGED <<connector, active, born>>
  BY SMTT(30) DEF Drop, Goto, Healthy
<1>3. CASE View(writing[c].on, writing[c].table).there
  <2>1. /\ Ddl(writing[c].on, writing[c].table, FALSE)
        /\ history' = [history EXCEPT ![Head(writing[c].todo)].over =
                                    {r[1] : r \in View(writing[c].on, writing[c].table).rows}]
    BY <1>3 DEF Drop
  <2>2. /\ writing[c].step = IF FALSE THEN "create" ELSE "drop"
        /\ writing' = [writing EXCEPT ![c].step = IF FALSE THEN "insert" ELSE "create"]
    BY <1>1, <1>2
  <2> QED  BY <1>1, <1>2, <2>1, <2>2, DdlHolds
<1>4. CASE ~View(writing[c].on, writing[c].table).there
  <2>1. UNCHANGED <<db, conn, history>>
    BY <1>4 DEF Drop
  <2> QED  BY <1>1, <1>2, <2>1, SkipHolds
<1> QED  BY <1>3, <1>4

\* The CREATE of a write, or none when the table is there.
LEMMA CreateHolds ==
  ASSUME StoreInv, NEW c \in Contexts, CreateIn(c)
  PROVE  StoreInv' /\ (connector = "postgres" => db' = db)
<1>1. Busy(c) /\ writing[c].step = "create"
  BY DEF CreateIn, At, Busy, Idle
<1>2. /\ writing' = [writing EXCEPT ![c].step = "insert"] /\ ~conn[writing[c].on].failed
      /\ UNCHANGED <<connector, active, born, history>>
  BY DEF CreateIn, Goto, Healthy
<1>3. CASE View(writing[c].on, writing[c].table).there
  <2>1. UNCHANGED <<db, conn>>
    BY <1>3 DEF CreateIn
  <2> QED  BY <1>1, <1>2, <1>3, <2>1, SkipHolds
<1>4. CASE ~View(writing[c].on, writing[c].table).there
  <2>1. Ddl(writing[c].on, writing[c].table, TRUE)
    BY <1>4 DEF CreateIn
  <2>2. /\ writing[c].step = IF TRUE THEN "create" ELSE "drop"
        /\ writing' = [writing EXCEPT ![c].step = IF TRUE THEN "insert" ELSE "create"]
    BY <1>1, <1>2
  <2> QED  BY <1>1, <1>2, <1>4, <2>1, <2>2, DdlHolds
<1> QED  BY <1>3, <1>4

\* Nothing moves in a stuttering step.
LEMMA StoreStutters == StoreInv /\ UNCHANGED tableVars => StoreInv'
<1> SUFFICES ASSUME StoreInv, UNCHANGED tableVars PROVE StoreInv'
  OBVIOUS
<1>0. UNCHANGED <<connector, db, conn, active, born, writing, history>>
  BY DEF tableVars
<1>1. TableTypes' /\ NumbersInOrder' /\ Shared'
  BY <1>0 DEF StoreInv, TableTypes, NumbersInOrder, Shared, Busy
<1>2. \A c \in Contexts : CallRouted(c)' /\ CallPends(c)' /\ CallBatches(c)' /\ CallWrote(c)'
  <2> SUFFICES ASSUME NEW c \in Contexts
               PROVE  CallRouted(c)' /\ CallPends(c)' /\ CallBatches(c)' /\ CallWrote(c)'
    OBVIOUS
  <2>0. CallRouted(c) /\ CallPends(c) /\ CallBatches(c) /\ CallWrote(c)
    BY DEF StoreInv
  <2>1. CallRouted(c)' /\ CallWrote(c)'
    BY <1>0, <2>0 DEF CallRouted, CallWrote, Busy
  <2>2. CallPends(c)'
    BY <1>0, <2>0 DEF CallPends, Busy, Pending, On, Is
  <2>3. CallBatches(c)'
    BY <1>0, <2>0 DEF CallBatches, Busy, Pending, On, Is
  <2> QED  BY <2>1, <2>2, <2>3
<1>3. \A w \in Writes : WriteHolds(w)'
  BY <1>0 DEF StoreInv, WriteHolds, Busy, Pending, On, Is
<1>4. \A w \in Writes : StagedKept(w)'
  BY <1>0 DEF StoreInv, StagedKept, On, Is, Over, InForce
<1>5. \A w \in Writes : CommittedKept(w)'
  BY <1>0 DEF StoreInv, CommittedKept, On, Is, Over, Tainted
<1>6. \A t \in TableNames : RowsHold(t)'
  BY <1>0 DEF StoreInv, RowsHold, On, Is
<1>7. \A k \in Connections : ConnHolds(k)'
  BY <1>0 DEF StoreInv, ConnHolds, On, Is
<1>8. \A k \in Connections, t \in TableNames : ChangeHolds(k, t)'
  BY <1>0 DEF StoreInv, ChangeHolds, On, Is
<1>9. \A k \in Connections, t \in TableNames : Accounted(k, t)'
  BY <1>0 DEF StoreInv, Accounted, On, Is, Over, InForce
<1>10. NoGapOpen'
  BY <1>0 DEF StoreInv, NoGapOpen, Busy
<1> QED  BY <1>1, <1>2, <1>3, <1>4, <1>5, <1>6, <1>7, <1>8, <1>9, <1>10 DEF StoreInv

\* Every step keeps the invariant, and none of PostgreSQL's takes a table away.
LEMMA StoreSteps ==
  ASSUME StoreInv, [TableNext]_tableVars
  PROVE  /\ StoreInv'
         /\ connector = "postgres" => \A t \in TableNames : db[t].there => db'[t].there
<1>1. CASE UNCHANGED tableVars
  BY <1>1, StoreStutters DEF tableVars
<1>2. ASSUME NEW c \in Contexts, BeginTx(c)
      PROVE  StoreInv' /\ db' = db
  BY <1>2, BeginHolds DEF BeginTx
<1>3. ASSUME NEW c \in Contexts, StartTask(c)
      PROVE  StoreInv' /\ db' = db
  BY <1>3, TaskHolds DEF StartTask
<1>4. ASSUME NEW c \in Contexts, NEW a \in Commits \cup {"undone"}, FinishTx(c, a)
      PROVE  /\ StoreInv'
             /\ connector = "postgres" => \A t \in TableNames : db[t].there => db'[t].there
  BY <1>4, FinishHolds
<1>5. ASSUME NEW c \in Contexts, NEW t \in TableNames, NEW mode \in Modes, StartWrite(c, t, mode)
      PROVE  StoreInv' /\ db' = db
  BY <1>5, StartWriteHolds DEF StartWrite
<1>6. ASSUME NEW c \in Contexts, NEW t \in TableNames, NEW n \in {1, 2}, StartBatch(c, t, n)
      PROVE  StoreInv' /\ db' = db
  BY <1>6, StartBatchHolds DEF StartBatch
<1>7. ASSUME NEW c \in Contexts, Statement(c)
      PROVE  /\ StoreInv'
             /\ connector = "postgres" => \A t \in TableNames : db[t].there => db'[t].there
  <2>1. CASE Drop(c)
    BY <2>1, DropHolds
  <2>2. CASE CreateIn(c)
    BY <2>2, CreateHolds
  <2>3. CASE Insert(c)
    BY <2>3, InsertHolds
  <2>4. CASE StatementFails(c) \/ InsertFailsMidway(c)
    BY <2>4, FailureHolds
  <2>5. ASSUME NEW a \in Commits, CommitOwn(c, a)
        PROVE  /\ StoreInv'
               /\ connector = "postgres" => \A t \in TableNames : db[t].there => db'[t].there
    BY <2>5, CommitOwnHolds
  <2>6. ASSUME NEW a \in Commits \cup {"refused"}, FinishBatch(c, a)
        PROVE  /\ StoreInv'
               /\ connector = "postgres" => \A t \in TableNames : db[t].there => db'[t].there
    BY <2>6, FinishBatchHolds
  <2> QED  BY <1>7, <2>1, <2>2, <2>3, <2>4, <2>5, <2>6 DEF Statement
<1> QED  BY <1>1, <1>2, <1>3, <1>4, <1>5, <1>6, <1>7 DEF TableNext

\* The invariant holds of every state.
LEMMA StoreInvariance == TableSpec => []StoreInv
<1>1. TableInit => StoreInv
  BY InitHolds
<1>2. StoreInv /\ [TableNext]_tableVars => StoreInv'
  BY StoreSteps
<1> QED  BY <1>1, <1>2, PTL DEF TableSpec

\* What the invariant says of the answers and of what is seen.
LEMMA StoreIsTrue == StoreInv => WritesAreTrue
<1> SUFFICES ASSUME StoreInv PROVE WritesAreTrue
  OBVIOUS
<1>0. /\ \A w \in Writes : history[w] \in TableEntries \cup {NoWrite}
      /\ \A w \in Writes : history[w].answer # "none" => history[w].table \in TableNames
      /\ \A t \in TableNames : \A r \in db[t].rows : r[1] \in Writes
  BY DEF StoreInv, TableTypes, TableEntries, NoWrite, AllRows
<1>1. \A w \in Writes : \A r \in RowsOf(w) : r[1] = w
  BY DEF RowsOf
<1>2. AnswersMatchTables
  <2> SUFFICES ASSUME NEW w \in Writes
               PROVE  /\ (history[w].answer = "committed" /\ ~Tainted(w) /\ ~Dropped(w))
                            => RowsOf(w) \subseteq db[history[w].table].rows
                      /\ history[w].answer = "undone" => RowsOf(w) \cap db[history[w].table].rows = {}
                      /\ (history[w].answer = "refused" /\ ~conn[history[w].on].kept)
                            => RowsOf(w) \cap db[history[w].table].rows = {}
    BY DEF AnswersMatchTables
  <2>1. (history[w].answer = "committed" /\ ~Tainted(w) /\ ~Dropped(w))
           => RowsOf(w) \subseteq db[history[w].table].rows
    BY DEF StoreInv, CommittedKept, Is, Over, Dropped
  <2>2. ASSUME history[w].table \in TableNames, NEW r \in RowsOf(w) \cap db[history[w].table].rows
        PROVE  \/ history[w].answer \in {"committed", "denied"}
               \/ history[w].answer = "refused" /\ conn[history[w].on].kept
    BY <1>1, <2>2 DEF StoreInv, RowsHold, Is, On
  <2> QED  BY <1>0, <2>1, <2>2
<1>3. NoDirtyReads
  <2> SUFFICES ASSUME NEW c \in Contexts, NEW w \in Writes, NEW t \in TableNames,
                      NEW r \in RowsOf(w) \cap Seen(c, t), history[w].answer \in {"running", "staged"}
               PROVE  active[c] # Nothing /\ active[c] = history[w].on
    BY DEF NoDirtyReads
  <2>1. r \notin db[t].rows
    BY <1>1 DEF StoreInv, RowsHold, Is
  <2>2. active[c] # Nothing /\ active[c] \in Connections /\ conn[active[c]].open
    BY <2>1 DEF Seen, StoreInv, TableTypes, Connections
  <2>3. r \in View(active[c], t).rows
    BY <2>2 DEF Seen
  <2>4. r \in conn[active[c]].change[t].rows
    BY <2>1, <2>3 DEF View
  <2>5. On(r[1]) = active[c]
    BY <2>2, <2>4 DEF StoreInv, ChangeHolds
  <2> QED  BY <1>1, <2>2, <2>5 DEF On
<1>4. OnlyOthersCanStick
  BY DEF StoreInv, Shared, OnlyOthersCanStick
<1>5. FailedCommitsAreWhole
  <2> SUFFICES ASSUME NEW v \in Writes, NEW w \in Writes, Raised(v), Raised(w),
                      v = w \/ (history[v].on = history[w].on /\ history[w].on \in Txs)
               PROVE  \/ RowsOf(v) \subseteq db[history[v].table].rows
                      \/ RowsOf(w) \cap db[history[w].table].rows = {}
    BY DEF FailedCommitsAreWhole
  <2>1. Is(v, {"failed", "denied"}) /\ ~Tainted(v) /\ ~Dropped(v) /\ Is(w, {"failed", "denied"})
    BY DEF Raised, Is
  <2>2. Is(v, {"denied"}) <=> Is(w, {"denied"})
    BY <2>1 DEF StoreInv, WriteHolds, On
  <2>3. CASE Is(v, {"denied"})
    BY <2>1, <2>3 DEF StoreInv, CommittedKept, Is, Over, Dropped
  <2>4. CASE ~Is(w, {"denied"})
    <3>1. history[w].table \in TableNames
      BY <1>0, <2>1 DEF Is
    <3> QED  BY <1>1, <2>1, <2>4, <3>1 DEF StoreInv, RowsHold, Is
  <2> QED  BY <2>2, <2>3, <2>4
<1> QED  BY <1>2, <1>3, <1>4, <1>5 DEF WritesAreTrue, TransactionsAreIsolated

\* What the connectors answer of a write is true of the tables, writes whose COMMIT
\* raised, which may have taken effect, are there whole or not at all, and nobody
\* sees or is stuck with another's transaction: for every number of contexts,
\* tasks, tables, transactions and writes (sqlite/reader.py, postgres/reader.py,
\* sdk/table.py).
THEOREM WritesHold == TableSpec => []WritesAreTrue
BY StoreInvariance, StoreIsTrue, PTL

\* PostgreSQL's replace never leaves a moment without the table: the invariant
\* says that a dropped table is one whose call goes on to create it before its
\* transaction can end (postgres/reader.py _write_postgres).
THEOREM NoGap == TableSpec => ReplaceLeavesNoGap
<1>1. StoreInv /\ [TableNext]_tableVars =>
         [connector = "postgres" => \A t \in TableNames : db[t].there => db'[t].there]_tableVars
  BY StoreSteps
<1> QED  BY <1>1, StoreInvariance, PTL DEF TableSpec, ReplaceLeavesNoGap

\* The types of the tables, the connections and the writes.
THEOREM TablesTyped == TableSpec => []TableTypeOK
<1>1. StoreInv => TableTypeOK
  BY DEF StoreInv, TableTypes, TableTypeOK, Conns, Changes, Connections, TableEntries, NoWrite, WriteAnswers
<1> QED  BY <1>1, StoreInvariance, PTL
=============================================================================
