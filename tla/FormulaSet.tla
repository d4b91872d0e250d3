------------------------------ MODULE FormulaSet ------------------------------
(* Setting a formula through the SDK's formula views, on the four remote       *)
(* providers: Google Sheets and MaybeSheet ranges ("google", "maybe_grid"),    *)
(* MaybeSheet and Feishu formula fields ("maybe_field", "feishu"), and the     *)
(* recalculation the two MaybeSheet extensions offer.  One range or field is   *)
(* modelled: `cells` is the formula it holds.  Every provider names a revision *)
(* by a hash of what it read, so the formula itself stands for the revision.   *)
(* All four share the design: an in-memory ledger of idempotency keys          *)
(* (formulas/operations.py), one request on the wire, a readback or a          *)
(* reconciling read, and an answer with an explicit commit state.  A request   *)
(* may land after its caller has given up.  The process that holds the ledger  *)
(* may serve several threads; Feishu's extension takes no lock.  A call        *)
(* without a key skips the ledger and is left out.                             *)
EXTENDS Naturals, Sequences, FiniteSets, SequencesExt

CONSTANTS Providers,   \* the providers explored, chosen at the start
          Callers,     \* threads using the extension
          Keys,        \* idempotency keys the callers choose from
          Formulas,    \* formula texts
          None,        \* no formula, no expected revision, no result
          Limit,       \* entries the ledger may hold (1024 in the code)
          MaxCalls,    \* bound: calls started
          MaxForeign   \* bound: edits by other users of the sheet

ASSUME FormulaAssumption ==
  /\ Providers \subseteq {"google", "maybe_grid", "maybe_field", "feishu"}
  /\ Limit \in Nat \ {0}
  /\ None \notin Keys \cup Formulas

VARIABLES provider,   \* the extension in use
          cells,      \* the formula the remote range or field holds
          bound,      \* revision stored with the binding, never updated by a set
          observed,   \* revision the SDK view remembers
          ledger,     \* sequence of entries, in insertion order
          completed,  \* sequence of cached results, in insertion order
          call,       \* per caller: the call in progress
          wire,       \* every request dispatched, and its fate
          made,       \* calls started
          foreign,    \* edits by others
          forgotten,  \* history: keys whose entry was evicted
          orphaned    \* history: keys a call left without settling their entry

vars == <<provider, cells, bound, observed, ledger, completed, call, wire,
          made, foreign, forgotten, orphaned>>

Grid  == {"google", "maybe_grid"}
Field == {"maybe_field", "feishu"}
Ops == IF provider \in {"maybe_grid", "maybe_field"}
       THEN {"set", "recalculate"} ELSE {"set"}

Idle == [pc |-> "idle", op |-> "set", key |-> None, formula |-> None,
         expected |-> None, req |-> 0]

-----------------------------------------------------------------------------
(* The ledger.                                                               *)

\* The ledger binds a key to its connector, target and selector: the selector
\* tells a set from a recalculation.
KeyOf(k) == <<k.op, k.key>>
PayloadOf(k) == <<k.formula, k.expected>>

At(key) == {i \in DOMAIN ledger : ledger[i].key = key}
\* A variant: any entry may go.
AnyEntry(l) == DOMAIN l
Removable(l) == {i \in DOMAIN l : l[i].state \in {"succeeded", "failed"}}
Oldest(S) == CHOOSE i \in S : \A j \in S : i <= j

\* One pass makes room enough, for the ledger never exceeds its limit; the
\* clean-up _evict_completed after every change therefore finds nothing to do.
MakeRoom(l) == IF Len(l) < Limit THEN l ELSE RemoveAt(l, Oldest(Removable(l)))

HasRoom == Len(ledger) < Limit \/ Removable(ledger) # {}
InFlight(k) == [key |-> KeyOf(k), payload |-> PayloadOf(k),
                state |-> "in_flight", result |-> None]

\* The entry of the call's key set to a state; _require raises when it is gone.
Marked(k, state, result) ==
  [i \in DOMAIN ledger |->
     IF i \in At(KeyOf(k))
     THEN [ledger[i] EXCEPT !.state = state, !.result = result]
     ELSE ledger[i]]
Settleable(k) == At(KeyOf(k)) # {}

-----------------------------------------------------------------------------
(* Answers.  The commit state a call reports is recorded with its request.    *)

Tell(c, answer, blind) ==
  /\ call' = [call EXCEPT ![c] = Idle]
  /\ wire' = IF call[c].req = 0 THEN wire
             ELSE [wire EXCEPT ![call[c].req].told = answer,
                               ![call[c].req].blind = blind]

\* The call settles its key and answers; with the entry gone the KeyError leaves
\* the extension instead of the answer.
Settle(c, state, answer, blind) ==
  /\ ledger' = Marked(call[c], state, None)
  /\ Tell(c, IF Settleable(call[c]) THEN answer ELSE "escaped", blind)
  /\ UNCHANGED <<cells, observed, completed, orphaned>>

\* A _BindingFailure is answered without a word to the ledger.
Abandon(c, blind) ==
  /\ Tell(c, "not_started", blind)
  /\ orphaned' = orphaned \cup {KeyOf(call[c])}
  /\ UNCHANGED <<cells, observed, ledger, completed>>

\* The result cached under its hash.  The field extensions keep at most Limit.
Cached(result) ==
  LET all == Append(SelectSeq(completed, LAMBDA r : r # result), result)
  IN IF result \in ToSet(completed) /\ provider \in Grid THEN completed
     ELSE IF provider \in Field /\ Len(all) > Limit THEN Tail(all) ELSE all

Succeed(c) ==
  LET k == call[c]
      result == <<k.op, k.expected, cells>>
  IN /\ completed' = Cached(result)
     /\ ledger' = Marked(k, "succeeded", result)
     /\ Tell(c, IF Settleable(k) THEN "committed" ELSE "escaped", FALSE)
     /\ observed' = IF Settleable(k) THEN cells ELSE observed
     /\ UNCHANGED <<cells, orphaned>>

Go(c, pc) == call' = [call EXCEPT ![c].pc = pc]
Fixed == UNCHANGED <<provider, bound, made, foreign>>
OnlyPc == UNCHANGED <<cells, observed, ledger, completed, wire, orphaned>>

-----------------------------------------------------------------------------
(* A call.                                                                   *)

\* GridFormulaView.set, FieldFormulaView.set and recalculate: a caller may
\* expect the revision its view remembers, or none.  For a field the binding's
\* revision stands in for none.
Start(c) ==
  /\ call[c].pc = "idle" /\ made < MaxCalls
  /\ \E op \in Ops, key \in Keys, f \in Formulas \cup {None},
        e \in {IF provider \in Field THEN bound ELSE None, observed} :
       /\ (f = None) <=> (op = "recalculate")
       /\ call' = [call EXCEPT ![c] =
            [Idle EXCEPT !.pc = IF provider = "google" THEN "before" ELSE "begin",
                         !.op = op, !.key = key, !.formula = f, !.expected = e]]
  /\ made' = made + 1
  /\ UNCHANGED <<provider, cells, bound, observed, ledger, completed, wire,
                 foreign, forgotten, orphaned>>

\* Google reads the range before it consults the ledger.
ReadBefore(c) ==
  /\ call[c].pc = "before"
  /\ \/ call[c].expected \in {None, cells} /\ Go(c, "begin") /\ OnlyPc
     \/ /\ Tell(c, "not_started", FALSE)        \* stale, or the read fails
        /\ UNCHANGED <<cells, observed, ledger, completed, orphaned>>
  /\ Fixed /\ UNCHANGED forgotten

NextPc(k) == IF provider \in Field /\ k.op = "set" THEN "fresh" ELSE "send"
Unlocked == provider = "feishu"

Insert(c) ==
  /\ ledger' = IF At(KeyOf(call[c])) # {}
               THEN [i \in DOMAIN ledger |-> IF i \in At(KeyOf(call[c]))
                                             THEN InFlight(call[c]) ELSE ledger[i]]
               ELSE Append(MakeRoom(ledger), InFlight(call[c]))
  /\ forgotten' = forgotten \cup
       ({e.key : e \in ToSet(ledger)} \ {e.key : e \in ToSet(ledger')})

\* begin() for a key the ledger holds.
BeginKnown(c) ==
  LET k == call[c]
      e == ledger[Oldest(At(KeyOf(k)))]
  IN /\ At(KeyOf(k)) # {}
     /\ \/ /\ e.payload # PayloadOf(k) \/ e.state = "in_flight"
           /\ Tell(c, "not_started", FALSE)
           /\ UNCHANGED <<ledger, observed>>
        \/ /\ e.payload = PayloadOf(k) /\ e.state = "unknown"
           /\ Tell(c, "unknown", FALSE)
           /\ UNCHANGED <<ledger, observed>>
        \/ /\ e.payload = PayloadOf(k) /\ e.state = "succeeded"
           /\ Tell(c, IF e.result \in ToSet(completed)
                      THEN "replayed" ELSE "unknown", FALSE)
           /\ observed' = IF e.result \in ToSet(completed)
                          THEN e.result[3] ELSE observed
           /\ UNCHANGED ledger
        \/ /\ e.payload = PayloadOf(k) /\ e.state = "failed"
           /\ ledger' = Marked(k, "in_flight", None)
           /\ Go(c, NextPc(k))
           /\ UNCHANGED <<wire, observed>>
     /\ UNCHANGED forgotten

\* begin() for a new key.  FormulaError at a full ledger is caught, but settling
\* the missing entry then raises KeyError.
BeginNew(c) ==
  /\ At(KeyOf(call[c])) = {}
  /\ \/ /\ ~HasRoom
        /\ Tell(c, "escaped", FALSE) /\ UNCHANGED <<ledger, forgotten>>
     \/ /\ HasRoom /\ ~Unlocked
        /\ Insert(c) /\ Go(c, NextPc(call[c])) /\ UNCHANGED wire
     \/ /\ HasRoom /\ Unlocked
        /\ Go(c, "insert") /\ UNCHANGED <<ledger, wire, forgotten>>
  /\ UNCHANGED observed

Begin(c) ==
  /\ call[c].pc = "begin"
  /\ BeginKnown(c) \/ BeginNew(c)
  /\ UNCHANGED <<cells, completed, orphaned>> /\ Fixed

\* Without a lock another thread may run between the lookup and the insertion.
UnlockedInsert(c) ==
  /\ call[c].pc = "insert"
  /\ \/ /\ HasRoom \/ At(KeyOf(call[c])) # {}
        /\ Insert(c) /\ Go(c, "fresh")
        /\ UNCHANGED wire
     \/ /\ ~HasRoom /\ At(KeyOf(call[c])) = {}
        /\ Tell(c, "escaped", FALSE) /\ UNCHANGED <<ledger, forgotten>>
  /\ UNCHANGED <<cells, observed, completed, orphaned>> /\ Fixed

\* A variant: the stale revision is answered without settling the key.
StaleKeepsTheKey(c) ==
  /\ call[c].pc = "fresh"
  /\ \/ cells = call[c].expected /\ Go(c, "send") /\ OnlyPc
     \/ /\ Tell(c, "not_started", FALSE)
        /\ UNCHANGED <<cells, observed, ledger, completed, orphaned>>
  /\ Fixed /\ UNCHANGED forgotten

\* The field extensions read the field again before they write.
ReadFresh(c) ==
  /\ call[c].pc = "fresh"
  /\ \/ cells = call[c].expected /\ Go(c, "send") /\ OnlyPc
     \/ Settle(c, "failed", "not_started", FALSE)   \* stale, or the read fails
     \/ Abandon(c, FALSE)                           \* the field is gone
  /\ Fixed /\ UNCHANGED forgotten

Send(c) ==
  /\ call[c].pc = "send"
  /\ wire' = Append(wire, [key |-> KeyOf(call[c]), formula |-> call[c].formula,
                           expected |-> call[c].expected,
                           state |-> "flying", told |-> "pending", blind |-> FALSE])
  /\ call' = [call EXCEPT ![c].pc = "wait", ![c].req = Len(wire) + 1]
  /\ UNCHANGED <<cells, observed, ledger, completed, forgotten, orphaned>> /\ Fixed

-----------------------------------------------------------------------------
(* The provider and the network.                                             *)

\* MaybeSheet is told the expected revision and enforces it; the others write.
Land(i) ==
  /\ wire[i].state = "flying"
  /\ LET refused == provider \notin {"google", "feishu"}
                    /\ wire[i].expected \notin {None, cells}
     IN /\ wire' = [wire EXCEPT ![i].state = IF refused THEN "void" ELSE "applied"]
        /\ cells' = IF refused \/ wire[i].key[1] = "recalculate"
                    THEN cells ELSE wire[i].formula
  /\ UNCHANGED <<observed, ledger, completed, call, forgotten, orphaned>> /\ Fixed

Drop(i) ==
  /\ wire[i].state = "flying"
  /\ wire' = [wire EXCEPT ![i].state = "void"]
  /\ UNCHANGED <<cells, observed, ledger, completed, call, forgotten, orphaned>>
  /\ Fixed

Foreign ==
  /\ foreign < MaxForeign /\ foreign' = foreign + 1
  /\ \E f \in Formulas \ {cells} : cells' = f
  /\ UNCHANGED <<provider, bound, observed, ledger, completed, call, wire, made,
                 forgotten, orphaned>>

\* A new view of the target.  Only the field extensions keep its revision.
Bind ==
  /\ observed # cells \/ (bound # cells /\ provider \in Field)
  /\ observed' = cells /\ bound' = IF provider \in Field THEN cells ELSE bound
  /\ UNCHANGED <<provider, cells, ledger, completed, call, wire, made, foreign,
                 forgotten, orphaned>>

-----------------------------------------------------------------------------
(* What the caller learns, and what each operation makes of it: the state its  *)
(* key is left in and the answer, or one more read to find out.                *)

As(state, answer) == [state |-> state, answer |-> answer, blind |-> FALSE]
\* The places whose answer denies a write that happened.
Denied(state, answer) == [state |-> state, answer |-> answer, blind |-> TRUE]
Uncertain == As("unknown", "unknown")
Read == [state |-> "read", answer |-> "none", blind |-> FALSE]
Unsettled == [state |-> "unsettled", answer |-> "not_started", blind |-> TRUE]

\* "unreadable": the write happened and the answer is too large or malformed;
\* "partial": Google's answer shows none of the formulas, some, or others;
\* "refused": the provider says no; "undispatched": a timeout known to precede
\* the dispatch; "lost": any other transport error; "differs", "unread" and
\* "denied", "gone": the readback finds another text, fails, is refused, or finds
\* no such field.
GoogleSet ==
  [unreadable |-> {Denied("unknown", "not_committed"), Denied("unknown", "not_started")},
   partial |-> {Denied("unknown", "not_committed"), As("unknown", "partial"),
                As("unknown", "committed")},
   refused |-> {As("unknown", "not_started")},
   undispatched |-> {As("failed", "not_started")},
   lost |-> {Read},
   differs |-> {As("unknown", "committed")},
   unread |-> {Uncertain}, denied |-> {Uncertain}, gone |-> {Uncertain}]

\* A variant: a lost acknowledgement counts as a known failure.
LostIsFailure ==
  [unreadable |-> {Uncertain}, partial |-> {}, refused |-> {Uncertain},
   undispatched |-> {As("failed", "not_started")},
   lost |-> {As("failed", "not_started")},
   differs |-> {As("unknown", "committed")},
   unread |-> {Uncertain}, denied |-> {Uncertain}, gone |-> {Uncertain}]

MaybeGridSet ==
  [unreadable |-> {Uncertain}, partial |-> {}, refused |-> {Uncertain},
   undispatched |-> {As("failed", "not_started")},
   lost |-> {Uncertain},
   differs |-> {As("unknown", "committed")},
   unread |-> {Uncertain}, denied |-> {Uncertain}, gone |-> {Uncertain}]

\* Invalid evidence is reported as not committed, an invalid envelope as unknown.
MaybeGridRecalculate ==
  [unreadable |-> {Uncertain, Denied("unknown", "not_committed")}, partial |-> {},
   refused |-> {Uncertain},
   undispatched |-> {As("failed", "not_started")},
   lost |-> {Uncertain}]

\* A refusal of the readback is taken for a refusal of the write.
MaybeFieldSet ==
  [unreadable |-> {Uncertain}, partial |-> {},
   refused |-> {As("failed", "not_started")},
   undispatched |-> {As("unknown", "not_started")},
   lost |-> {Uncertain},
   differs |-> {As("unknown", "committed")},
   unread |-> {Uncertain}, denied |-> {Denied("failed", "not_started")},
   gone |-> {Unsettled}]

MaybeFieldRecalculate ==
  [unreadable |-> {Uncertain}, partial |-> {},
   refused |-> {As("failed", "not_started")},
   undispatched |-> {As("unknown", "not_started")},
   lost |-> {Uncertain}]

FeishuSet ==
  [unreadable |-> {Uncertain}, partial |-> {},
   refused |-> {As("failed", "not_started")},
   undispatched |-> {Read}, lost |-> {Read},
   differs |-> {As("unknown", "committed")},
   unread |-> {Uncertain}, denied |-> {Denied("failed", "not_started")},
   gone |-> {Unsettled}]

Policy(k) ==
  CASE provider = "google" -> GoogleSet
    [] provider = "feishu" -> FeishuSet
    [] provider = "maybe_grid" /\ k.op = "set" -> MaybeGridSet
    [] provider = "maybe_grid" /\ k.op = "recalculate" -> MaybeGridRecalculate
    [] provider = "maybe_field" /\ k.op = "set" -> MaybeFieldSet
    [] provider = "maybe_field" /\ k.op = "recalculate" -> MaybeFieldRecalculate

Learn(c, outcome) ==
  \E v \in Policy(call[c])[outcome] :
    \/ v.state = "read" /\ Go(c, "reconcile") /\ OnlyPc
    \/ v.state = "unsettled" /\ Abandon(c, v.blind)
    \/ v.state \in {"failed", "unknown"} /\ Settle(c, v.state, v.answer, v.blind)

\* A set is read back; a recalculation carries its own evidence.
Acknowledged(c) ==
  /\ call[c].pc = "wait" /\ wire[call[c].req].state = "applied"
  /\ \/ call[c].op = "set" /\ Go(c, "readback") /\ OnlyPc
     \/ call[c].op = "recalculate" /\ Succeed(c)
  /\ Fixed /\ UNCHANGED forgotten

NotAcknowledged(c) ==
  /\ call[c].pc = "wait"
  /\ \/ Learn(c, "lost")
     \/ /\ wire[call[c].req].state = "applied"
        /\ Learn(c, "unreadable") \/ Learn(c, "partial")
     \/ /\ wire[call[c].req].state = "void"
        /\ Learn(c, "refused") \/ Learn(c, "undispatched")
  /\ Fixed /\ UNCHANGED forgotten

\* A variant: when reconciling finds nothing, the key is released.
ReconcileReleases(c) ==
  /\ call[c].pc = "reconcile"
  /\ \/ cells = call[c].formula /\ Succeed(c)
     \/ Settle(c, "failed", "not_started", FALSE)
  /\ Fixed /\ UNCHANGED forgotten

\* One read settles a lost acknowledgement if it finds the formula; another text,
\* or no answer, leaves the key unknown.
Reconcile(c) ==
  /\ call[c].pc = "reconcile"
  /\ \/ cells = call[c].formula /\ Succeed(c)
     \/ Settle(c, "unknown", "unknown", FALSE)
  /\ Fixed /\ UNCHANGED forgotten

ReadBack(c) ==
  /\ call[c].pc = "readback"
  /\ \/ cells = call[c].formula /\ Succeed(c)
     \/ cells # call[c].formula /\ Learn(c, "differs")
     \/ Learn(c, "unread") \/ Learn(c, "denied") \/ Learn(c, "gone")
  /\ Fixed /\ UNCHANGED forgotten

-----------------------------------------------------------------------------
Init ==
  /\ provider \in Providers
  /\ cells \in Formulas /\ bound = cells /\ observed = cells
  /\ ledger = <<>> /\ completed = <<>> /\ wire = <<>>
  /\ call = [c \in Callers |-> Idle]
  /\ made = 0 /\ foreign = 0 /\ forgotten = {} /\ orphaned = {}

CallStep(c) ==
  \/ Start(c) \/ ReadBefore(c) \/ Begin(c) \/ UnlockedInsert(c) \/ ReadFresh(c)
  \/ Send(c) \/ Acknowledged(c) \/ NotAcknowledged(c) \/ Reconcile(c) \/ ReadBack(c)

Next ==
  \/ \E c \in Callers : CallStep(c)
  \/ \E i \in DOMAIN wire : Land(i) \/ Drop(i)
  \/ Foreign \/ Bind

Spec == Init /\ [][Next]_vars

-----------------------------------------------------------------------------
(* Properties.                                                               *)

LedgerKeys == {e.key : e \in ToSet(ledger)}
Settling == {"begin", "insert", "before"}

\* Types, and the bound of the ledger: it never holds more than Limit entries
\* nor two for one key.
TypeOK ==
  /\ provider \in Providers /\ cells \in Formulas
  /\ bound \in Formulas /\ observed \in Formulas
  /\ Len(ledger) <= Limit /\ Cardinality(LedgerKeys) = Len(ledger)
  /\ \A e \in ToSet(ledger) :
       e.state \in {"in_flight", "succeeded", "failed", "unknown"}
  /\ \A c \in Callers : call[c].req \in 0..Len(wire)
  /\ \A i \in DOMAIN wire : wire[i].state \in {"flying", "applied", "void"}

\* An answer that says nothing was started or committed is true for good: the
\* request it sent neither has taken effect nor can still land.  Three places of
\* the code break it and are set apart as denied: a readback the field extensions
\* take for a refusal, the invalid evidence of a range recalculation, and Google's
\* answer to an acknowledged set that is too large, malformed or shows none of
\* the formulas.
AnswersAreTrue ==
  \A i \in DOMAIN wire :
    wire[i].told \in {"not_started", "not_committed"} /\ ~wire[i].blind
      => wire[i].state = "void"

\* A key is dispatched once: two requests under one key that both took effect,
\* or still may, are possible only when the ledger evicted the finished key in
\* between, when a blind answer released it, or, without a lock (Feishu), when
\* two threads looked the key up at the same time.
KeyIsSentOnce ==
  \A i, j \in DOMAIN wire :
    /\ i < j /\ wire[i].key = wire[j].key
    /\ wire[i].state # "void" /\ wire[j].state # "void"
    => \/ wire[i].key \in forgotten
       \/ wire[i].blind
       \/ provider = "feishu"

\* What is uncertain is never forgotten: an entry in flight or unknown stays in
\* the ledger however full it is, and unknown is final.
UncertainIsKept ==
  [][\A e \in ToSet(ledger) :
       /\ e.state = "unknown" /\ ~Unlocked => e \in ToSet(ledger')
       /\ e.state \in {"in_flight", "unknown"} =>
            \E n \in ToSet(ledger') : n.key = e.key]_vars

\* A key in flight belongs to a call that is still running, or was abandoned by
\* the binding failure that leaves it in flight for ever.
InFlightIsOwned ==
  \A e \in ToSet(ledger) :
    e.state = "in_flight" =>
      \/ e.key \in orphaned
      \/ \E c \in Callers : /\ KeyOf(call[c]) = e.key
                            /\ call[c].pc \notin Settling \cup {"idle"}

\* The same without setting the three places apart: design document
\* 2026-09-01-mode-aware-formula-extension-design.md gives an acknowledgement and
\* a readback that are both unavailable the commit state unknown.
RefusedWasNotWritten ==
  \A i \in DOMAIN wire :
    wire[i].told \in {"not_started", "not_committed"} => wire[i].state = "void"

\* A key is dispatched once while the ledger knows it, and no key stays in flight
\* without a call (operations.py begin; set_grid, set_field of the providers).
KeysAreSafe == KeyIsSentOnce /\ InFlightIsOwned
=============================================================================
