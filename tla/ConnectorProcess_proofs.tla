---------------------- MODULE ConnectorProcess_proofs ----------------------
(***************************************************************************)
(* ConnectorProcess for any frames, sessions, ids, threads and bounds: no  *)
(* permit or lease is lost, a cancelled session's operations have no later *)
(* effect and no result, and a message id has one operation in flight.     *)
(***************************************************************************)
EXTENDS ConnectorProcess, FiniteSetTheorems, SequenceTheorems, TLAPS

USE ProcessAssumption

-----------------------------------------------------------------------------
(* The window of message ids and the queue, as sequences.                  *)

NoRepeats(s) == \A i, j \in 1 .. Len(s) : s[i] = s[j] => i = j

\* Appending a new element keeps a sequence free of repetitions.
LEMMA AppendNew ==
  ASSUME NEW S, NEW s \in Seq(S), NEW e \in S, NoRepeats(s), e \notin Held(s)
  PROVE  /\ Append(s, e) \in Seq(S)
         /\ NoRepeats(Append(s, e))
         /\ Held(Append(s, e)) = Held(s) \cup {e}
  BY AppendProperties DEF NoRepeats, Held

\* So does leaving the first out, which leaves nothing else out.
LEMMA TailKeeps ==
  ASSUME NEW S, NEW s \in Seq(S), s # <<>>, NoRepeats(s)
  PROVE  /\ Tail(s) \in Seq(S)
         /\ NoRepeats(Tail(s))
         /\ Held(Tail(s)) = Held(s) \ {Head(s)}
  <1>1. /\ Tail(s) \in Seq(S) /\ Len(Tail(s)) = Len(s) - 1 /\ Head(s) = s[1]
        /\ \A i \in 1 .. Len(Tail(s)) : Tail(s)[i] = s[i+1]
        /\ Len(s) \in Nat \ {0}
    BY HeadTailProperties, EmptySeq
  <1> DEFINE t == Tail(s)
             h == Head(s)
  <1>0. Tail(s) = t /\ Head(s) = h
    OBVIOUS
  <1> HIDE DEF t, h
  <1>2. NoRepeats(t)
    BY <1>0, <1>1 DEF NoRepeats
  <1>3. Held(t) \subseteq Held(s) \ {h}
    BY <1>0, <1>1 DEF NoRepeats, Held
  <1>4. ASSUME NEW i \in 1 .. Len(s), s[i] # h PROVE s[i] \in Held(t)
    <2>1. i - 1 \in 1 .. Len(t) /\ t[i - 1] = s[i]
      BY <1>0, <1>1, <1>4
    <2> QED BY <2>1 DEF Held
  <1>5. Held(s) \ {h} \subseteq Held(t)
    BY <1>4 DEF Held
  <1>6. Held(t) = Held(s) \ {h}
    BY <1>3, <1>5
  <1> QED BY <1>0, <1>1, <1>2, <1>6

\* And taking one element out.
LEMMA RemoveAtKeeps ==
  ASSUME NEW S, NEW s \in Seq(S), NEW n \in 1 .. Len(s), NoRepeats(s)
  PROVE  /\ RemoveAt(s, n) \in Seq(S)
         /\ NoRepeats(RemoveAt(s, n))
         /\ Held(RemoveAt(s, n)) = Held(s) \ {s[n]}
  <1> DEFINE a == SubSeq(s, 1, n - 1)
             b == SubSeq(s, n + 1, Len(s))
  <1>0. Len(s) \in Nat /\ \A i \in 1 .. Len(s) : s[i] \in S
    BY LenProperties, ElementOfSeq
  <1>1. /\ a \in Seq(S) /\ Len(a) = n - 1
        /\ \A i \in 1 .. n - 1 : a[i] = s[i]
    <2>1. \A i \in 1 .. n - 1 : s[i] \in S BY <1>0
    <2>2. /\ a \in Seq(S) /\ Len(a) = IF 1 <= n - 1 THEN n - 1 ELSE 0
          /\ \A i \in 1 .. (n - 1) - 1 + 1 : a[i] = s[1 + i - 1]
      BY <1>0, <2>1, SubSeqProperties
    <2> QED BY <2>2
  <1>2. /\ b \in Seq(S) /\ Len(b) = Len(s) - n
        /\ \A i \in 1 .. Len(s) - n : b[i] = s[n + i]
    <2>1. \A i \in n + 1 .. Len(s) : s[i] \in S BY <1>0
    <2>2. /\ b \in Seq(S) /\ Len(b) = IF n + 1 <= Len(s) THEN Len(s) - (n + 1) + 1 ELSE 0
          /\ \A i \in 1 .. Len(s) - (n + 1) + 1 : b[i] = s[n + 1 + i - 1]
      BY <1>0, <2>1, SubSeqProperties
    <2> QED BY <1>0, <2>2
  <1> DEFINE t == RemoveAt(s, n)
  <1> HIDE DEF a, b, t
  <1>3. /\ t \in Seq(S) /\ Len(t) = Len(s) - 1
        /\ \A i \in 1 .. Len(s) - 1 : t[i] = IF i < n THEN s[i] ELSE s[i + 1]
    <2>1. /\ a \o b \in Seq(S) /\ Len(a \o b) = Len(a) + Len(b)
          /\ \A i \in 1 .. Len(a) + Len(b) :
               (a \o b)[i] = IF i <= Len(a) THEN a[i] ELSE b[i - Len(a)]
      BY <1>1, <1>2, ConcatProperties
    <2>2. t = a \o b BY DEF RemoveAt, a, b, t
    <2>3. Len(t) = Len(s) - 1 /\ t \in Seq(S)
      <3>1. t \in Seq(S)
        BY <2>1, <2>2
      <3>2. Len(t) = Len(a) + Len(b)
        BY <2>1, <2>2
      <3>3. Len(a) = n - 1 /\ Len(b) = Len(s) - n
        BY <1>1, <1>2
      <3>4. Len(s) \in Int /\ n \in Int
        BY <1>0
      <3> QED BY <3>1, <3>2, <3>3, <3>4
    <2>4. ASSUME NEW i \in 1 .. Len(s) - 1
          PROVE  t[i] = IF i < n THEN s[i] ELSE s[i + 1]
      <3>1. t[i] = IF i <= n - 1 THEN a[i] ELSE b[i - (n - 1)]
        <4>1. i \in 1 .. Len(a) + Len(b) /\ Len(a) = n - 1
          BY <1>0, <1>1, <1>2
        <4> QED BY <2>1, <2>2, <4>1
      <3>2. CASE i < n
        <4>1. i \in 1 .. n - 1 /\ i <= n - 1
          BY <1>0, <3>2
        <4> QED BY <1>1, <3>1, <3>2, <4>1
      <3>3. CASE ~(i < n)
        <4>1. /\ i - (n - 1) \in 1 .. Len(s) - n /\ ~(i <= n - 1)
              /\ n + (i - (n - 1)) = i + 1
          BY <1>0, <3>3
        <4>2. b[i - (n - 1)] = s[n + (i - (n - 1))]
          BY <1>2, <4>1
        <4> QED BY <3>1, <3>3, <4>1, <4>2
      <3> QED BY <3>2, <3>3
    <2> QED BY <2>3, <2>4
  <1>4. NoRepeats(t)
    BY <1>0, <1>3 DEF NoRepeats
  <1>5. Held(t) \subseteq Held(s) \ {s[n]}
    BY <1>0, <1>3 DEF NoRepeats, Held
  <1>6. ASSUME NEW i \in 1 .. Len(s), i # n PROVE s[i] \in Held(t)
    <2>1. CASE i < n
      <3>1. i \in 1 .. Len(t) /\ t[i] = s[i]
        BY <1>0, <1>3, <1>6, <2>1
      <3> QED BY <3>1 DEF Held
    <2>2. CASE i > n
      <3>1. i - 1 \in 1 .. Len(t) /\ t[i - 1] = s[i]
        BY <1>0, <1>3, <1>6, <2>2
      <3> QED BY <3>1 DEF Held
    <2> QED BY <1>0, <1>6, <2>1, <2>2
  <1>7. Held(s) \ {s[n]} \subseteq Held(t)
    BY <1>6 DEF Held
  <1> QED BY <1>3, <1>4, <1>5, <1>7 DEF t

\* A new id is in the window, which stays free of repetitions and forgets at
\* most its oldest id, and that one only when it is full.
LEMMA RememberKeeps ==
  ASSUME messages \in Seq(Message), NoRepeats(messages), NEW m \in Message,
         m \notin Held(messages), Remember(m)
  PROVE  /\ messages' \in Seq(Message)
         /\ NoRepeats(messages')
         /\ m \in Held(messages') /\ Held(messages') \subseteq Held(messages) \cup {m}
         /\ Len(messages) < MaxMessages => Held(messages') = Held(messages) \cup {m}
  <1> DEFINE longer == Append(messages, m)
  <1>1. /\ longer \in Seq(Message) /\ NoRepeats(longer) /\ Held(longer) = Held(messages) \cup {m}
        /\ longer # <<>> /\ Len(longer) = Len(messages) + 1 /\ longer[Len(messages) + 1] = m
        /\ Len(messages) \in Nat
    BY AppendNew, AppendProperties, LenProperties
  <1>2. messages' = IF Len(longer) > MaxMessages THEN Tail(longer) ELSE longer
    BY DEF Remember
  <1> HIDE DEF longer
  <1>3. CASE Len(longer) <= MaxMessages
    BY <1>1, <1>2, <1>3
  <1>4. CASE Len(longer) > MaxMessages
    <2>1. /\ messages' = Tail(longer) /\ ~ (Len(messages) < MaxMessages)
          /\ messages' \in Seq(Message) /\ NoRepeats(messages')
          /\ Held(messages') = Held(longer) \ {Head(longer)}
      BY <1>1, <1>2, <1>4, TailKeeps
    <2>2. Head(longer) # m
      <3>1. Head(longer) = longer[1] /\ Len(messages) + 1 # 1 BY <1>1, <1>4
      <3> QED BY <1>1, <3>1 DEF NoRepeats
    <2> QED BY <1>1, <2>1, <2>2
  <1> QED BY <1>1, <1>3, <1>4

\* An id that is dropped leaves the window, and no other does.
LEMMA DropKeeps ==
  ASSUME messages \in Seq(Message), NoRepeats(messages), NEW m, Drop(m)
  PROVE  /\ messages' \in Seq(Message)
         /\ NoRepeats(messages')
         /\ Held(messages') = Held(messages) \ {m}
  <1>1. CASE m \notin Held(messages) /\ UNCHANGED messages
    BY <1>1
  <1>2. ASSUME NEW i \in DOMAIN messages, messages[i] = m, messages' = RemoveAt(messages, i)
        PROVE  /\ messages' \in Seq(Message)
               /\ NoRepeats(messages')
               /\ Held(messages') = Held(messages) \ {m}
    <2>1. i \in 1 .. Len(messages) BY <1>2, LenProperties
    <2> QED BY <1>2, <2>1, RemoveAtKeeps
  <1> QED BY <1>1, <1>2 DEF Drop
-----------------------------------------------------------------------------
(* The inductive invariant.                                                *)

Live == InFlight \cup {"failing"}
Frames == {q \in Request : form[q] # None}
Seen == {form[r].message : r \in Frames}

\* What is known of a frame by how far it has come.
FrameInv(r) ==
  /\ form[r] = None <=> at[r] = "unread"
  /\ at[r] \in Live \cup {"waiting", "queued", "written"} => Operates(r)
  /\ verdict[r] = None <=> at[r] \notin {"aborting", "answering", "written", "done"}
  /\ sent[r] # None => at[r] \in {"written", "done"}
  /\ sent[r] = "ok" => verdict[r] = "ok"
  /\ r \in leases => at[r] \in {"leased", "running", "performed"}

\* An operation read after its session's CANCEL was answered goes no further than
\* the session check; one that was undecided then is never decided a success.
CancelInv(r) ==
  /\ r \in effects => at[r] \in {"performed", "returned", "failing", "answering", "written", "done"}
  /\ r \in late \cup overtaken => Operates(r) /\ form[r].session \in told /\ verdict[r] # "ok"
  /\ r \in late => r \notin effects /\ at[r] \notin {"leased", "running", "performed", "returned"}

\* The queue holds the submitted operations nobody took, each once.
QueueInv ==
  /\ NoRepeats(queue)
  /\ \A i \in 1 .. Len(queue) : at[queue[i]] = "queued"

\* Until the window is filled, the ids of the operations in flight are in it, and
\* no two of them are the same.
WindowInv ==
  /\ NoRepeats(messages)
  /\ IsFiniteSet(Seen) /\ Held(messages) \subseteq Seen
  /\ WindowNeverFilled =>
       /\ \A r \in Request : at[r] \in Live => form[r].message \in Held(messages)
       /\ \A r, q \in Request : at[r] \in Live /\ at[q] \in Live /\ form[r].message = form[q].message
            => r = q

SlotsInv == IsFiniteSet(Submitted) /\ slots + Cardinality(Submitted) = MaxPending

Inv ==
  /\ TypeOK
  /\ \A r \in Request : FrameInv(r)
  /\ \A r \in Request : CancelInv(r)
  /\ told \subseteq cancelled
  /\ QueueInv /\ SlotsInv /\ WindowInv /\ HeldIdsHaveOwners
-----------------------------------------------------------------------------
(* Steps.                                                                  *)

\* The handling of a frame leaves what is recorded of the others alone, changes no
\* form, and unmarks no session.
LEMMA OthersUntouched ==
  ASSUME TypeOK, NEW r \in Request, Handle(r)
  PROVE  /\ form' = form /\ late' = late
         /\ bound \subseteq bound' /\ cancelled \subseteq cancelled' /\ told \subseteq told'
         /\ \A q \in Request \ {r} :
              /\ at'[q] = at[q] /\ verdict'[q] = verdict[q] /\ sent'[q] = sent[q]
              /\ q \in leases' <=> q \in leases
              /\ q \in effects' <=> q \in effects
  <1> USE DEF TypeOK, GoTo, Decide, serverVars, poolVars, frameVars, historyVars
  <1>1. CASE Submit(r) \/ Take(r) \/ Duplicate(r) \/ AbortSession(r)
    BY <1>1 DEF Submit, Take, Duplicate, AbortSession
  <1>2. CASE Register(r)
    BY <1>2 DEF Register, HelloBinds, HelloRefused, CancelRefused, CancelUnknown, CancelMarks, OperationAdmitted
  <1>3. CASE Authorize(r) \/ Unauthorized(r) \/ Enter(r) \/ Perform(r) \/ PerformFails(r) \/ Leave(r)
    BY <1>3 DEF Authorize, Unauthorized, Enter, Perform, PerformFails, Leave, Dispose
  <1>4. CASE Conclude(r) \/ Forget(r) \/ Write(r) \/ Release(r)
    BY <1>4 DEF Conclude, Forget, Write, Release
  <1> QED BY <1>1, <1>2, <1>3, <1>4 DEF Handle

\* Where a frame goes, and what may become of its verdict and its answer.
LEMMA OwnStep ==
  ASSUME Inv, NEW r \in Request, Handle(r)
  PROVE  /\ at'[r] \in Phase /\ FrameInv(r)'
         /\ verdict'[r] \in {"ok", "failed", None} /\ sent'[r] \in {"ok", "failed", None}
         /\ at[r] \notin {"unread", "done"}
  <1> USE DEF TypeOK, GoTo, Decide, serverVars, poolVars, frameVars, historyVars, Operates, Live,
              InFlight, Phase
  <1>0. TypeOK /\ FrameInv(r) BY DEF Inv
  <1>1. CASE Submit(r)
    BY <1>0, <1>1 DEF Submit, FrameInv
  <1>2. CASE Take(r)
    <2>1. at[r] = "queued"
      BY <1>2, HeadTailProperties, EmptySeq DEF Take, Inv, QueueInv
    <2> QED BY <1>0, <1>2, <2>1 DEF Take, FrameInv
  <1>3. CASE Duplicate(r) \/ AbortSession(r)
    BY <1>0, <1>3 DEF Duplicate, AbortSession, FrameInv
  <1>4. CASE Register(r)
    BY <1>0, <1>4 DEF Register, HelloBinds, HelloRefused, CancelRefused, CancelUnknown, CancelMarks,
       OperationAdmitted, FrameInv
  <1>5. CASE Authorize(r) \/ Unauthorized(r) \/ Enter(r)
    BY <1>0, <1>5 DEF Authorize, Unauthorized, Enter, Dispose, FrameInv
  <1>6. CASE Perform(r) \/ PerformFails(r) \/ Leave(r)
    BY <1>0, <1>6 DEF Perform, PerformFails, Leave, Dispose, FrameInv
  <1>7. CASE Conclude(r) \/ Forget(r)
    BY <1>0, <1>7 DEF Conclude, Forget, FrameInv
  <1>8. CASE Write(r)
    BY <1>0, <1>8 DEF Write, FrameInv
  <1>9. CASE Release(r)
    BY <1>0, <1>9 DEF Release, FrameInv
  <1> QED BY <1>1, <1>2, <1>3, <1>4, <1>5, <1>6, <1>7, <1>8, <1>9 DEF Handle

\* The window changes as the helpers say.
LEMMA WindowStep ==
  ASSUME Inv, NEW r \in Request, Handle(r)
  PROVE  \/ at[r] = "taken" /\ form[r].message \notin Held(messages) /\ Register(r)
            /\ form[r].message \in Message /\ Remember(form[r].message)
         \/ at[r] = "failing" /\ Forget(r) /\ Drop(form[r].message)
         \/ ~ Register(r) /\ ~ Forget(r) /\ messages' = messages
  <1>1. CASE Register(r)
    <2>1. form[r] \in Form
      BY <1>1 DEF Inv, FrameInv, TypeOK, Register
    <2> QED BY <1>1, <2>1 DEF Register, IsDuplicate, Form
  <1>2. CASE Forget(r)
    BY <1>2 DEF Forget
  <1>3. CASE ~ Register(r) /\ ~ Forget(r)
    BY <1>3 DEF Handle, Submit, Take, Duplicate, AbortSession, Authorize, Unauthorized, Enter,
       Perform, PerformFails, Leave, Conclude, Write, Release, serverVars
  <1> QED BY <1>1, <1>2, <1>3

\* The permits: submitting takes one and the end of the operation returns it.
LEMMA SlotsKept ==
  ASSUME Inv, NEW r \in Request, Handle(r)
  PROVE  SlotsInv' /\ slots' \in 0 .. MaxPending
  <1> USE DEF SlotsInv, Operates
  <1>0. /\ TypeOK /\ FrameInv(r) /\ FrameInv(r)' /\ SlotsInv
        /\ form' = form /\ \A q \in Request \ {r} : at'[q] = at[q]
    BY OwnStep, OthersUntouched DEF Inv
  <1>1. \A q \in Request \ {r} : q \in Submitted' <=> q \in Submitted
    BY <1>0 DEF Submitted
  <1>2. Submitted \subseteq Request /\ Submitted' \subseteq Request
    BY DEF Submitted
  <1>3. CASE Submit(r)
    <2>1. r \notin Submitted /\ Submitted' = Submitted \cup {r}
      <3>1. r \in Submitted' /\ r \notin Submitted
        BY <1>0, <1>3 DEF Submit, GoTo, Submitted, TypeOK, FrameInv
      <3> QED BY <1>1, <1>2, <3>1
    <2>2. slots' = slots - 1 /\ slots > 0 /\ slots \in 0 .. MaxPending
      BY <1>0, <1>3 DEF Submit, TypeOK
    <2>3. IsFiniteSet(Submitted') /\ Cardinality(Submitted') = Cardinality(Submitted) + 1
      BY <1>0, <2>1, FS_AddElement
    <2>4. Cardinality(Submitted) \in Nat BY <1>0, FS_CardinalityType
    <2> QED BY <1>0, <2>2, <2>3, <2>4
  <1>4. CASE Release(r)
    <2>1. r \in Submitted /\ Submitted' = Submitted \ {r}
      <3>1. r \notin Submitted' /\ r \in Submitted
        BY <1>0, <1>4 DEF Release, GoTo, Submitted, TypeOK, FrameInv
      <3> QED BY <1>1, <1>2, <3>1
    <2>2. slots' = slots + 1 /\ slots \in 0 .. MaxPending
      BY <1>0, <1>4 DEF Release, TypeOK
    <2>3. IsFiniteSet(Submitted') /\ Cardinality(Submitted') = Cardinality(Submitted) - 1
      BY <1>0, <2>1, FS_RemoveElement
    <2>4. Cardinality(Submitted) \in Nat /\ Cardinality(Submitted') \in Nat
      BY <1>0, <2>3, FS_CardinalityType
    <2> QED BY <1>0, <2>2, <2>3, <2>4
  <1>5. CASE ~ Submit(r) /\ ~ Release(r)
    <2>1. r \in Submitted' <=> r \in Submitted
      <3> USE <1>0 DEF TypeOK, GoTo, Submitted, Phase
      <3>1. CASE Take(r)
        <4>1. at[r] = "queued"
          BY <3>1, HeadTailProperties, EmptySeq DEF Take, Inv, QueueInv
        <4> QED BY <3>1, <4>1 DEF Take
      <3>2. CASE Duplicate(r) \/ AbortSession(r)
        BY <3>2 DEF Duplicate, AbortSession
      <3>3. CASE Register(r)
        BY <3>3 DEF Register, HelloBinds, HelloRefused, CancelRefused, CancelUnknown, CancelMarks, OperationAdmitted
      <3>4. CASE Authorize(r) \/ Unauthorized(r) \/ Enter(r) \/ Perform(r) \/ PerformFails(r)
                  \/ Leave(r) \/ Conclude(r) \/ Forget(r)
        BY <3>4 DEF Authorize, Unauthorized, Enter, Perform, PerformFails, Leave, Conclude, Forget
      <3>5. CASE Write(r)
        BY <3>5 DEF Write
      <3> QED BY <1>5, <3>1, <3>2, <3>3, <3>4, <3>5 DEF Handle
    <2>2. Submitted' = Submitted BY <1>1, <1>2, <2>1
    <2>3. slots' = slots
      BY <1>5 DEF Handle, Take, Duplicate, Register, AbortSession, Authorize, Unauthorized, Enter,
         Perform, PerformFails, Leave, Conclude, Forget, Write, poolVars
    <2> QED BY <1>0, <2>2, <2>3 DEF TypeOK
  <1> QED BY <1>3, <1>4, <1>5

\* The queue: an operation enters it once and leaves it at its head.
LEMMA QueueKept ==
  ASSUME Inv, NEW r \in Request, Handle(r)
  PROVE  QueueInv' /\ queue' \in Seq(Request)
  <1>0. TypeOK /\ QueueInv /\ \A q \in Request \ {r} : at'[q] = at[q]
    BY OthersUntouched DEF Inv
  <1>q. queue \in Seq(Request) /\ Len(queue) \in Nat /\ \A i \in 1 .. Len(queue) : queue[i] \in Request
    BY <1>0, LenProperties, ElementOfSeq DEF TypeOK
  <1>1. CASE Submit(r)
    <2>1. r \notin Held(queue)
      BY <1>0, <1>1 DEF Submit, QueueInv, Held
    <2>2. queue' \in Seq(Request) /\ NoRepeats(queue')
      BY <1>0, <1>1, <1>q, <2>1, AppendNew DEF Submit, QueueInv
    <2>3. \A i \in 1 .. Len(queue') : at'[queue'[i]] = "queued"
      <3>1. /\ Len(queue') = Len(queue) + 1 /\ queue'[Len(queue) + 1] = r
            /\ \A i \in 1 .. Len(queue) : queue'[i] = queue[i]
        BY <1>1, <1>q, AppendProperties DEF Submit
      <3>2. at'[r] = "queued" BY <1>0, <1>1 DEF Submit, GoTo, TypeOK
      <3> QED BY <1>0, <1>q, <3>1, <3>2 DEF QueueInv
    <2> QED BY <2>2, <2>3 DEF QueueInv
  <1>2. CASE Take(r)
    <2>1. /\ queue # <<>> /\ r = Head(queue) /\ queue' = Tail(queue)
      BY <1>2 DEF Take
    <2>2. queue' \in Seq(Request) /\ NoRepeats(queue') /\ Held(queue') = Held(queue) \ {r}
      BY <1>0, <1>q, <2>1, TailKeeps DEF QueueInv
    <2>3. \A q \in Held(queue') : at'[q] = "queued"
      <3>1. \A q \in Held(queue) : q \in Request /\ at[q] = "queued"
        BY <1>0, <1>q DEF QueueInv, Held
      <3> QED BY <1>0, <2>2, <3>1
    <2>4. \A i \in 1 .. Len(queue') : queue'[i] \in Held(queue') BY DEF Held
    <2> QED BY <2>2, <2>3, <2>4 DEF QueueInv
  <1>3. CASE ~ Submit(r) /\ ~ Take(r)
    <2>1. queue' = queue
      BY <1>3 DEF Handle, Duplicate, Register, AbortSession, Authorize, Unauthorized, Enter,
         Perform, PerformFails, Leave, Conclude, Forget, Write, Release, poolVars
    <2>2. at[r] # "queued"
      BY <1>3 DEF Handle, Duplicate, Register, AbortSession, Authorize, Unauthorized, Enter,
         Perform, PerformFails, Leave, Conclude, Forget, Write, Release
    <2> QED BY <1>0, <1>q, <2>1, <2>2 DEF QueueInv
  <1> QED BY <1>1, <1>2, <1>3

\* Until the window is filled it holds fewer ids than it may before another comes.
LEMMA WindowHasRoom ==
  ASSUME messages \in Seq(Message), WindowInv, WindowNeverFilled, NEW m \in Seen,
         m \notin Held(messages)
  PROVE  Len(messages) < MaxMessages
  <1>1. SUFFICES ASSUME Len(messages) >= MaxMessages PROVE FALSE
    BY LenProperties
  <1>2. /\ Len(messages) \in Nat /\ IsFiniteSet(Seen) /\ Cardinality(Seen) <= MaxMessages
        /\ Cardinality(Seen) \in Nat
    BY LenProperties, FS_CardinalityType DEF WindowInv, WindowNeverFilled, Seen, Frames
  <1>3. /\ IsFiniteSet(1 .. Len(messages) + 1)
        /\ Cardinality(1 .. Len(messages) + 1) = Len(messages) + 1
    BY <1>2, FS_Interval
  <1> DEFINE f == [i \in 1 .. Len(messages) + 1 |-> IF i <= Len(messages) THEN messages[i] ELSE m]
  <1>4. f \in [1 .. Len(messages) + 1 -> Seen]
    BY <1>2 DEF WindowInv, Held
  <1>5. \E x, y \in 1 .. Len(messages) + 1 : x # y /\ f[x] = f[y]
    <2> HIDE DEF f
    <2>1. Cardinality(Seen) < Cardinality(1 .. Len(messages) + 1)
      BY <1>1, <1>2, <1>3
    <2> QED BY <1>2, <1>3, <1>4, <2>1, FS_PigeonHole
  <1> QED BY <1>2, <1>5 DEF WindowInv, NoRepeats, Held

\* Handling a frame keeps what the window says of the operations in flight.
LEMMA WindowKept ==
  ASSUME Inv, NEW r \in Request, Handle(r)
  PROVE  WindowInv' /\ messages' \in Seq(Message)
  <1>0. /\ messages \in Seq(Message) /\ WindowInv /\ NoRepeats(messages)
        /\ form' = form /\ (\A q \in Request \ {r} : at'[q] = at[q])
    BY OthersUntouched DEF Inv, TypeOK, WindowInv
  <1>1. Seen' = Seen /\ (WindowNeverFilled' <=> WindowNeverFilled)
    BY <1>0 DEF Seen, Frames, WindowNeverFilled
  <1>2. at[r] \notin Live /\ at'[r] \in Live => Register(r)
    BY OwnStep DEF Handle, Submit, Take, Duplicate, AbortSession, Authorize, Unauthorized, Enter,
       Perform, PerformFails, Leave, Conclude, Forget, Write, Release, Inv, TypeOK, GoTo, Live,
       InFlight
  <1>3. CASE Register(r) /\ Remember(form[r].message) /\ form[r].message \in Message
             /\ form[r].message \notin Held(messages)
    <2>1. /\ messages' \in Seq(Message) /\ NoRepeats(messages')
          /\ form[r].message \in Held(messages')
          /\ Held(messages') \subseteq Held(messages) \cup {form[r].message}
          /\ Len(messages) < MaxMessages => Held(messages') = Held(messages) \cup {form[r].message}
      BY <1>0, <1>3, RememberKeeps
    <2>2. form[r].message \in Seen
      BY <1>3 DEF Seen, Frames, Inv, FrameInv, Register
    <2>3. WindowNeverFilled => Held(messages') = Held(messages) \cup {form[r].message}
      BY <1>0, <1>3, <2>1, <2>2, WindowHasRoom
    <2> QED BY <1>0, <1>1, <1>3, <2>1, <2>2, <2>3 DEF WindowInv
  <1>4. CASE Forget(r) /\ Drop(form[r].message)
    <2>1. /\ messages' \in Seq(Message) /\ NoRepeats(messages')
          /\ Held(messages') = Held(messages) \ {form[r].message}
      BY <1>0, <1>4, DropKeeps
    <2>2. at[r] \in Live /\ at'[r] \notin Live
      BY <1>4 DEF Forget, GoTo, Inv, TypeOK, Live, InFlight
    <2> QED BY <1>0, <1>1, <2>1, <2>2 DEF WindowInv
  <1>5. CASE ~ Register(r) /\ messages' = messages
    BY <1>0, <1>1, <1>2, <1>5 DEF WindowInv
  <1> QED BY <1>3, <1>4, <1>5, WindowStep

\* Handling a frame keeps every id of the window owned.
LEMMA OwnersKept ==
  ASSUME Inv, NEW r \in Request, Handle(r)
  PROVE  HeldIdsHaveOwners'
  <1> DEFINE Has(q, m) == \/ Owns(q, m)
                          \/ form[q] # None /\ form[q].message = m /\ form[q].op \in {"hello", "cancel"}
  <1>0. /\ messages \in Seq(Message) /\ NoRepeats(messages) /\ form' = form
        /\ (\A q \in Request \ {r} : at'[q] = at[q] /\ verdict'[q] = verdict[q])
        /\ \A m \in Held(messages) : \E q \in Request : Has(q, m)
    BY OthersUntouched DEF Inv, TypeOK, WindowInv, HeldIdsHaveOwners
  <1>1. \A m : \A q \in Request \ {r} : Has(q, m) => Has(q, m)'
    BY <1>0 DEF Owns
  <1>2. SUFFICES ASSUME NEW m \in Held(messages)' PROVE \E q \in Request : Has(q, m)'
    BY DEF HeldIdsHaveOwners
  <1>3. CASE Register(r) /\ Remember(form[r].message) /\ form[r].message \in Message
             /\ form[r].message \notin Held(messages)
    <2>1. Held(messages') \subseteq Held(messages) \cup {form[r].message}
      BY <1>0, <1>3, RememberKeeps
    <2>2. m = form[r].message => Has(r, m)'
      BY <1>0, <1>3 DEF Register, HelloBinds, HelloRefused, CancelRefused, CancelUnknown, CancelMarks,
         OperationAdmitted, GoTo, Decide, Inv, TypeOK, FrameInv, Owns, InFlight
    <2>3. CASE m = form[r].message
      BY <2>2, <2>3
    <2>4. CASE m # form[r].message
      <3>1. PICK q \in Request : Has(q, m) BY <1>0, <1>2, <2>1, <2>4
      <3>2. CASE q # r BY <1>1, <3>1, <3>2
      <3>3. CASE q = r BY <2>4, <3>1, <3>3 DEF Owns
      <3> QED BY <3>2, <3>3
    <2> QED BY <2>3, <2>4
  <1>4. CASE Forget(r) /\ Drop(form[r].message)
    <2>1. m \in Held(messages) /\ m # form[r].message
      BY <1>0, <1>2, <1>4, DropKeeps
    <2>2. PICK q \in Request : Has(q, m) BY <1>0, <2>1
    <2>3. q # r BY <2>1, <2>2 DEF Owns
    <2> QED BY <1>1, <2>2, <2>3
  <1>5. CASE ~ Register(r) /\ ~ Forget(r) /\ messages' = messages
    <2>1. PICK q \in Request : Has(q, m) BY <1>0, <1>2, <1>5
    <2>2. CASE q # r BY <1>1, <2>1, <2>2
    <2>3. CASE q = r
      <3>0. TypeOK /\ FrameInv(r) BY DEF Inv
      <3>1. verdict[r] = "ok" => verdict'[r] = "ok"
        <4>1. at[r] \in {"taken", "returned"} \/ verdict'[r] = verdict[r]
          BY <1>5 DEF Handle, Submit, Take, Duplicate, AbortSession, Authorize, Unauthorized,
             Enter, Perform, PerformFails, Leave, Conclude, Write, Release
        <4> QED BY <3>0, <4>1 DEF FrameInv
      <3>2. at[r] \in InFlight \cup {"failing"} =>
              at'[r] \in InFlight \cup {"failing"} \/ verdict'[r] = "ok"
        <4>1. Take(r) => at[r] = "queued"
          BY HeadTailProperties, EmptySeq DEF Take, Inv, QueueInv, TypeOK
        <4> QED BY <1>5, <3>0, <4>1 DEF Handle, Submit, Take, Duplicate, AbortSession, Authorize, Unauthorized,
           Enter, Perform, PerformFails, Leave, Conclude, Write, Release, Decide, GoTo, TypeOK,
           InFlight
      <3> QED BY <1>0, <2>1, <2>3, <3>1, <3>2 DEF Owns
    <2> QED BY <2>2, <2>3
  <1> QED BY <1>3, <1>4, <1>5, WindowStep

\* Handling a frame keeps what a cancelled session's operations may have done.
LEMMA CancelKept ==
  ASSUME Inv, NEW r \in Request, Handle(r)
  PROVE  (\A q \in Request : CancelInv(q)') /\ told' \subseteq cancelled'
  <1>0. /\ TypeOK /\ FrameInv(r) /\ CancelInv(r) /\ told \subseteq cancelled
        /\ form' = form /\ late' = late /\ told \subseteq told' /\ cancelled \subseteq cancelled'
    BY OthersUntouched DEF Inv
  <1>1. told' \subseteq cancelled'
    <2>1. CASE Write(r)
      BY <1>0, <2>1 DEF Write, serverVars
    <2>2. CASE ~ Write(r)
      <3>1. told' = told
        BY <2>2 DEF Handle, Submit, Take, Duplicate, Register, AbortSession, Authorize,
           Unauthorized, Enter, Perform, PerformFails, Leave, Conclude, Forget, Release, historyVars
      <3> QED BY <1>0, <3>1
    <2> QED BY <2>1, <2>2
  <1>2. ASSUME NEW q \in Request PROVE
          q \in overtaken' /\ q \notin overtaken =>
            Write(r) /\ Operates(q) /\ verdict[q] = None /\ form[q].session \in told'
    <2>1. CASE Write(r)
      BY <2>1 DEF Write, Undecided
    <2>2. CASE ~ Write(r)
      <3>1. overtaken' = overtaken
        BY <2>2 DEF Handle, Submit, Take, Duplicate, Register, AbortSession, Authorize,
           Unauthorized, Enter, Perform, PerformFails, Leave, Conclude, Forget, Release, historyVars
      <3> QED BY <3>1
    <2> QED BY <2>1, <2>2
  <1>3. ASSUME NEW q \in Request \ {r} PROVE CancelInv(q)'
    <2>1. /\ at'[q] = at[q] /\ verdict'[q] = verdict[q] /\ (q \in effects' <=> q \in effects)
          /\ CancelInv(q)
      BY <1>3, OthersUntouched DEF Inv
    <2>2. q \in overtaken' => q \in overtaken \/ (Operates(q) /\ verdict[q] # "ok"
                                                  /\ form[q].session \in told')
      BY <1>2
    <2> QED BY <1>0, <2>1, <2>2 DEF CancelInv, Operates
  <1>4. CancelInv(r)'
    <2> USE <1>0 DEF TypeOK, GoTo, Decide, CancelInv, FrameInv, Operates, Live, InFlight
    <2>1. CASE Submit(r) \/ Duplicate(r) \/ AbortSession(r)
      BY <2>1 DEF Submit, Duplicate, AbortSession, historyVars, frameVars
    <2>2. CASE Take(r)
      <3>1. at[r] = "queued"
        BY <2>2, HeadTailProperties, EmptySeq DEF Take, Inv, QueueInv
      <3> QED BY <2>2, <3>1 DEF Take, historyVars
    <2>3. CASE Register(r)
      BY <2>3 DEF Register, HelloBinds, HelloRefused, CancelRefused, CancelUnknown, CancelMarks, OperationAdmitted,
         historyVars
    <2>4. CASE Authorize(r) \/ Unauthorized(r) \/ Enter(r)
      BY <2>4 DEF Authorize, Unauthorized, Enter, Alive, historyVars
    <2>5. CASE Perform(r) \/ PerformFails(r) \/ Leave(r)
      BY <2>5 DEF Perform, PerformFails, Leave, historyVars
    <2>6. CASE Conclude(r) \/ Forget(r)
      BY <2>6 DEF Conclude, Forget, historyVars
    <2>7. CASE Write(r)
      BY <1>2, <2>7 DEF Write
    <2>8. CASE Release(r)
      BY <2>8 DEF Release, historyVars
    <2> QED BY <2>1, <2>2, <2>3, <2>4, <2>5, <2>6, <2>7, <2>8 DEF Handle
  <1> QED BY <1>1, <1>3, <1>4

\* Handling a frame keeps the invariant.
LEMMA HandleKeeps ==
  ASSUME Inv, NEW r \in Request, Handle(r)
  PROVE  Inv'
  <1>0. TypeOK /\ \A q \in Request : FrameInv(q) BY DEF Inv
  <1>1. \A q \in Request : FrameInv(q)'
    BY <1>0, OwnStep, OthersUntouched DEF FrameInv, Operates
  <1>2. TypeOK'
    <2>1. reader' \in Request \cup {Idle, Closed} /\ bound' \in SUBSET Session /\ aborted' \in SUBSET Session
      <3>1. form[r] \in Form
        BY <1>0, OwnStep DEF FrameInv, TypeOK
      <3> QED BY <1>0, <3>1 DEF Form, TypeOK, Handle, Submit, Take, Duplicate, Register, HelloBinds,
         HelloRefused, CancelRefused, CancelUnknown, CancelMarks, OperationAdmitted, AbortSession, Authorize,
         Unauthorized, Enter, Perform, PerformFails, Leave, Conclude, Forget, Write, Release,
         serverVars, poolVars
    <2>2. cancelled' \in SUBSET Session /\ told' \in SUBSET Session
      <3>1. form[r] \in Form
        BY <1>0, OwnStep DEF FrameInv, TypeOK
      <3> QED BY <1>0, <3>1 DEF Form, TypeOK, Handle, Submit, Take, Duplicate, Register, HelloBinds,
         HelloRefused, CancelRefused, CancelUnknown, CancelMarks, OperationAdmitted, AbortSession, Authorize,
         Unauthorized, Enter, Perform, PerformFails, Leave, Conclude, Forget, Write, Release,
         serverVars, historyVars
    <2>3. leases' \in SUBSET Request /\ effects' \in SUBSET Request /\ overtaken' \in SUBSET Request
      BY <1>0 DEF TypeOK, Handle, Submit, Take, Duplicate, Register, AbortSession, Authorize,
         Unauthorized, Enter, Perform, PerformFails, Leave, Conclude, Forget, Write, Release,
         Dispose, Undecided, historyVars
    <2>4. /\ at' \in [Request -> Phase]
          /\ verdict' \in [Request -> {"ok", "failed", None}]
          /\ sent' \in [Request -> {"ok", "failed", None}]
      <3>1. /\ \E p : at' = [at EXCEPT ![r] = p]
            /\ \E v : verdict' = [verdict EXCEPT ![r] = v]
            /\ \E v : sent' = [sent EXCEPT ![r] = v]
        <4>1. verdict' = verdict => \E v : verdict' = [verdict EXCEPT ![r] = v]
          <5>1. verdict = [verdict EXCEPT ![r] = verdict[r]] BY <1>0 DEF TypeOK
          <5> QED BY <5>1
        <4>2. sent' = sent => \E v : sent' = [sent EXCEPT ![r] = v]
          <5>1. sent = [sent EXCEPT ![r] = sent[r]] BY <1>0 DEF TypeOK
          <5> QED BY <5>1
        <4>3. CASE Submit(r) \/ Take(r) \/ Duplicate(r) \/ AbortSession(r) \/ Register(r)
          BY <4>1, <4>2, <4>3 DEF Submit, Take, Duplicate, AbortSession, Register, HelloBinds,
             HelloRefused, CancelRefused, CancelUnknown, CancelMarks, OperationAdmitted, GoTo, Decide
        <4>4. CASE Authorize(r) \/ Unauthorized(r) \/ Enter(r) \/ Perform(r) \/ PerformFails(r)
                    \/ Leave(r)
          BY <4>1, <4>2, <4>4 DEF Authorize, Unauthorized, Enter, Perform, PerformFails, Leave, GoTo
        <4>5. CASE Conclude(r) \/ Forget(r) \/ Write(r) \/ Release(r)
          BY <4>1, <4>2, <4>5 DEF Conclude, Forget, Write, Release, GoTo, Decide
        <4> QED BY <4>3, <4>4, <4>5 DEF Handle
      <3> QED BY <1>0, <3>1, OwnStep DEF TypeOK
    <2>5. form' \in [Request -> Form \cup {None}] /\ late' \in SUBSET Request
      BY <1>0, OthersUntouched DEF TypeOK
    <2> QED BY <2>1, <2>2, <2>3, <2>4, <2>5, SlotsKept, QueueKept, WindowKept DEF TypeOK
  <1> QED BY <1>1, <1>2, CancelKept, QueueKept, SlotsKept, WindowKept, OwnersKept DEF Inv

\* Reading a frame keeps the invariant: an operation of a session whose CANCEL was
\* answered is late from then on.
LEMMA ReadKeeps ==
  ASSUME Inv, NEW r \in Request, Read(r)
  PROVE  Inv'
  <1>0. /\ TypeOK /\ FrameInv(r) /\ CancelInv(r)
        /\ form[r] = None /\ at[r] = "unread"
    BY DEF Inv, Read, FrameInv
  <1>1. PICK f \in Form :
          /\ form' = [form EXCEPT ![r] = f]
          /\ at' = [at EXCEPT ![r] = IF f.op = "operate" THEN "waiting" ELSE "taken"]
          /\ late' = IF f.op = "operate" /\ f.session \in told THEN late \cup {r} ELSE late
    BY DEF Read, GoTo
  <1>2. /\ reader' = r /\ slots' = slots /\ queue' = queue /\ messages' = messages
        /\ bound' = bound /\ cancelled' = cancelled /\ aborted' = aborted
        /\ verdict' = verdict /\ sent' = sent /\ leases' = leases /\ effects' = effects
        /\ told' = told /\ overtaken' = overtaken
    BY DEF Read, serverVars
  <1>3. /\ form'[r] = f /\ f # None /\ at'[r] \in {"waiting", "taken"}
        /\ at'[r] = "waiting" <=> f.op = "operate"
        /\ \A q \in Request \ {r} : form'[q] = form[q] /\ at'[q] = at[q]
    BY <1>0, <1>1 DEF TypeOK
  <1>4. TypeOK'
    <2>1. form' \in [Request -> Form \cup {None}] BY <1>0, <1>1 DEF TypeOK
    <2>2. at' \in [Request -> Phase] BY <1>0, <1>1 DEF TypeOK, Phase
    <2> QED BY <1>0, <1>1, <1>2, <2>1, <2>2 DEF TypeOK
  <1>5. \A q \in Request : FrameInv(q)'
    <2>1. FrameInv(r)' BY <1>0, <1>2, <1>3 DEF FrameInv, Operates, Live, InFlight
    <2>2. ASSUME NEW q \in Request \ {r} PROVE FrameInv(q)'
      <3>1. FrameInv(q) BY DEF Inv
      <3> QED BY <1>2, <1>3, <3>1 DEF FrameInv, Operates
    <2> QED BY <2>1, <2>2
  <1>6. \A q \in Request : CancelInv(q)'
    <2>1. CancelInv(r)'
      BY <1>0, <1>1, <1>2, <1>3 DEF CancelInv, FrameInv, Operates
    <2>2. ASSUME NEW q \in Request \ {r} PROVE CancelInv(q)'
      <3>1. CancelInv(q) BY DEF Inv
      <3> QED BY <1>1, <1>2, <1>3, <3>1 DEF CancelInv, Operates
    <2> QED BY <2>1, <2>2
  <1>7. QueueInv'
    BY <1>0, <1>2, <1>3, ElementOfSeq DEF Inv, QueueInv, TypeOK
  <1>8. SlotsInv'
    <2>1. Submitted' = Submitted
      BY <1>0, <1>3 DEF Submitted, Operates
    <2> QED BY <1>2, <2>1 DEF Inv, SlotsInv
  <1>9. Seen' = Seen \cup {f.message}
    <2>1. Frames' = Frames \cup {r} BY <1>0, <1>3 DEF Frames
    <2> QED BY <1>0, <1>3, <2>1 DEF Seen, Frames
  <1>10. WindowInv'
    <2>1. IsFiniteSet(Seen) /\ IsFiniteSet(Seen')
      BY <1>9, FS_AddElement DEF Inv, WindowInv
    <2>2. WindowNeverFilled' => WindowNeverFilled
      <3>1. Cardinality(Seen) <= Cardinality(Seen') /\ Cardinality(Seen) \in Nat /\ Cardinality(Seen') \in Nat
        BY <1>9, <2>1, FS_Subset, FS_CardinalityType
      <3> QED BY <3>1 DEF WindowNeverFilled, Seen, Frames
    <2>3. \A q \in Request : at'[q] \in Live => q # r
      BY <1>3 DEF Live, InFlight
    <2> QED BY <1>2, <1>3, <1>9, <2>1, <2>2, <2>3 DEF Inv, WindowInv
  <1>11. HeldIdsHaveOwners'
    BY <1>0, <1>2, <1>3 DEF Inv, HeldIdsHaveOwners, Owns, FrameInv, InFlight
  <1> QED BY <1>2, <1>4, <1>5, <1>6, <1>7, <1>8, <1>10, <1>11 DEF Inv

\* Every step keeps the invariant.
LEMMA NextKeeps ==
  ASSUME Inv, [Next]_vars
  PROVE  Inv'
  <1>1. ASSUME NEW r \in Request, Read(r) PROVE Inv'
    BY <1>1, ReadKeeps
  <1>2. ASSUME NEW r \in Request, Handle(r) PROVE Inv'
    BY <1>2, HandleKeeps
  <1>3. CASE Close \/ Exited \/ UNCHANGED vars
    <2>1. /\ reader' \in {reader, Closed}
          /\ UNCHANGED <<slots, queue, serverVars, aborted, frameVars, leases, historyVars>>
      BY <1>3 DEF Close, Exited, vars, poolVars
    <2> USE DEF serverVars, frameVars, historyVars
    <2>2. TypeOK' BY <2>1 DEF Inv, TypeOK
    <2>3. \A r \in Request : FrameInv(r)' /\ CancelInv(r)'
      BY <2>1 DEF Inv, FrameInv, CancelInv, Operates
    <2>4. SlotsInv' /\ Seen' = Seen /\ (WindowNeverFilled' <=> WindowNeverFilled)
      BY <2>1 DEF Inv, SlotsInv, Submitted, Operates, Seen, Frames, WindowNeverFilled
    <2>5. QueueInv' /\ WindowInv' /\ HeldIdsHaveOwners'
      BY <2>1, <2>4 DEF Inv, QueueInv, WindowInv, HeldIdsHaveOwners, Owns
    <2> QED BY <2>1, <2>2, <2>3, <2>4, <2>5 DEF Inv
  <1> QED BY <1>1, <1>2, <1>3 DEF Next

-----------------------------------------------------------------------------
(* Theorems.                                                               *)

\* The invariant holds in every reachable state, for any frames, sessions, ids,
\* threads and bounds.
THEOREM Invariance == Spec => []Inv
  <1>1. Init => Inv
    <2>1. SUFFICES ASSUME Init PROVE Inv
      OBVIOUS
    <2> USE <2>1 DEF Init
    <2>2. TypeOK BY EmptySeq DEF TypeOK, Phase
    <2>3. \A r \in Request : FrameInv(r) /\ CancelInv(r)
      BY DEF FrameInv, CancelInv, Live, InFlight
    <2>4. Submitted = {} /\ Seen = {} BY DEF Submitted, Operates, Seen, Frames
    <2>5. QueueInv /\ Held(messages) = {} /\ NoRepeats(messages)
      BY EmptySeq DEF QueueInv, NoRepeats, Held
    <2>6. SlotsInv BY <2>4, FS_EmptySet DEF SlotsInv
    <2>7. WindowInv BY <2>4, <2>5, FS_EmptySet DEF WindowInv, Live, InFlight
    <2>8. HeldIdsHaveOwners BY <2>5 DEF HeldIdsHaveOwners
    <2> QED BY <2>2, <2>3, <2>5, <2>6, <2>7, <2>8 DEF Inv
  <1>2. Inv /\ [Next]_vars => Inv'
    BY NextKeeps
  <1> QED BY <1>1, <1>2, PTL DEF Spec

\* TypeOK holds in every reachable state.
THEOREM TypeCorrect == Spec => []TypeOK
  <1>1. Inv => TypeOK BY DEF Inv
  <1> QED BY <1>1, Invariance, PTL

\* Every permit of the semaphore is free or belongs to a submitted operation that
\* is not finished, and no credential lease outlives its request's answer.
THEOREM ResourcesReturned == Spec => []ResourcesComeBack
  <1>1. Inv => ResourcesComeBack
    BY DEF Inv, SlotsInv, FrameInv, ResourcesComeBack, TypeOK
  <1> QED BY <1>1, Invariance, PTL

\* An operation read after its session's CANCEL was answered has no effect, and one
\* that was undecided then has no result.
THEOREM CancellationFinal == Spec => []CancelIsFinal
  <1>1. Inv => CancelIsFinal
    BY DEF Inv, FrameInv, CancelInv, CancelIsFinal, LateOperationsHaveNoEffect,
       CancelledResultsDiscarded, TypeOK
  <1> QED BY <1>1, Invariance, PTL

\* Until the window is filled a message id has one operation in flight, and only an
\* operation in flight or carried out, or a HELLO or CANCEL, holds an id.
THEOREM IdsExact == Spec => []IdsAreExact
  <1>1. Inv => IdsAreExact
    BY DEF Inv, WindowInv, IdsAreExact, NoTwinInFlight, Live
  <1> QED BY <1>1, Invariance, PTL
=============================================================================
