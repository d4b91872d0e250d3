-------------------------- MODULE FormulaSet_proofs --------------------------
(***************************************************************************)
(* The safety of FormulaSet, for any number of callers, keys and formulas, *)
(* any size of the ledger and every set of providers.                      *)
(*                                                                         *)
(* What a request was answered stays true because its fate is settled      *)
(* before a call may deny it (CallInv).  A key is dispatched once because, *)
(* with the lock, a call at work holds the only entry in flight of its key *)
(* (Exclusive), and a request that may have taken effect leaves its key    *)
(* succeeded or unknown until it is forgotten (Remembered).                *)
(***************************************************************************)
EXTENDS FormulaSet, SequenceTheorems, WellFoundedInduction, FiniteSetTheorems, TLAPS

USE FormulaAssumption

Quiet == {"idle", "before", "begin", "insert"}
Sent == {"wait", "reconcile", "readback"}
Pc == Quiet \cup {"fresh", "send"} \cup Sent
Op == {"set", "recalculate"}
Text == Formulas \cup {None}
EntryKey == Op \X (Keys \cup {None})
Payload == Text \X Text
Result == Op \X Text \X Formulas
Answer == {"not_started", "not_committed", "partial", "unknown", "committed",
           "replayed", "escaped", "none"}

Call == [pc : Pc, op : Op, key : Keys \cup {None}, formula : Text, expected : Text,
         req : Nat]
Entry == [key : EntryKey, payload : Payload,
          state : {"in_flight", "succeeded", "failed", "unknown"},
          result : Result \cup {None}]
Request == [key : EntryKey, formula : Text, expected : Text,
            state : {"flying", "applied", "void"},
            told : Answer \cup {"pending"}, blind : BOOLEAN]

\* A call that holds its key: it has begun and has not answered.
AtWork(c) == call[c].pc \notin Quiet

\* Texts and records, the ledger's bound and its keys, each once.
Types ==
  /\ provider \in Providers
  /\ cells \in Formulas /\ bound \in Formulas /\ observed \in Formulas
  /\ call \in [Callers -> Call]
  /\ wire \in Seq(Request)
  /\ ledger \in Seq(Entry)

LedgerInv(l) ==
  /\ Len(l) <= Limit
  /\ \A i, j \in DOMAIN l : l[i].key = l[j].key => i = j
  /\ \A i \in DOMAIN l : l[i].state = "succeeded" => l[i].result \in Result

\* Where a call is tells whether it has a request on the wire.
CallInv(c) ==
  /\ call[c].pc = "insert" => provider = "feishu"
  /\ call[c].pc = "readback" => call[c].op = "set"
  /\ call[c].pc # "idle" => (call[c].formula = None <=> call[c].op = "recalculate")
  /\ IF call[c].pc \in Sent
     THEN /\ call[c].req \in DOMAIN wire
          /\ wire[call[c].req].key = KeyOf(call[c])
          /\ wire[call[c].req].told = "pending"
     ELSE call[c].req = 0

WireInv ==
  /\ \A c, d \in Callers :
       call[c].req = call[d].req /\ call[c].req # 0 => c = d
  /\ \A i \in DOMAIN wire :
       /\ wire[i].told = "pending" =>
            ~wire[i].blind /\ \E c \in Callers : call[c].req = i
       /\ wire[i].formula = None <=> wire[i].key[1] = "recalculate"

\* With the lock, a call at work holds its key alone.
Exclusive ==
  provider # "feishu" =>
    \A c \in Callers : AtWork(c) =>
      /\ \E e \in ToSet(ledger) : e.key = KeyOf(call[c]) /\ e.state = "in_flight"
      /\ \A d \in Callers : AtWork(d) /\ KeyOf(call[d]) = KeyOf(call[c]) => d = c

\* With the lock, a key whose request may have taken effect is not free again.
Remembered ==
  provider # "feishu" =>
    \A i \in DOMAIN wire :
      /\ wire[i].state # "void" /\ ~wire[i].blind /\ wire[i].told # "pending"
      /\ wire[i].key \notin forgotten
      => \E e \in ToSet(ledger) :
           e.key = wire[i].key /\ e.state \in {"succeeded", "unknown"}

Inv ==
  /\ Types /\ LedgerInv(ledger)
  /\ \A c \in Callers : CallInv(c)
  /\ WireInv /\ InFlightIsOwned /\ AnswersAreTrue
  /\ Exclusive /\ Remembered /\ KeyIsSentOnce

\* What a change of one key's entry leaves of the ledger.
Rewritten(l, m, key, state) ==
  /\ m \in Seq(Entry) /\ LedgerInv(m)
  /\ \A n \in ToSet(m) : IF n.key = key THEN n.state = state ELSE n \in ToSet(l)

-----------------------------------------------------------------------------
(* Sequences.                                                              *)

\* A set of positions has a first one.
LEMMA OldestIsIn ==
  ASSUME NEW S \in SUBSET Nat, S # {}
  PROVE  Oldest(S) \in S
  <1> DEFINE R == OpToRel(<, Nat)
  <1>1. IsWellFoundedOn(R, Nat)
    BY NatLessThanWellFounded, Zenon
  <1>2. \A x, y \in Nat : <<x, y>> \in R <=> x < y
    BY Zenon DEF OpToRel
  <1> HIDE DEF R
  <1>3. PICK m \in S : \A j \in S : ~(<<j, m>> \in R)
    BY <1>1, WFMin
  <1>4. \A j \in S : m <= j
    <2> SUFFICES ASSUME NEW j \in S PROVE m <= j
      OBVIOUS
    <2>1. j \in Nat /\ m \in Nat
      OBVIOUS
    <2>2. ~(j < m)
      BY <1>2, <1>3, <2>1, Zenon
    <2> QED BY <2>1, <2>2
  <1> QED BY <1>4 DEF Oldest

\* The sequence without one of its elements.
LEMMA RemoveAtKeeps ==
  ASSUME NEW S, NEW s \in Seq(S), NEW n \in 1 .. Len(s)
  PROVE  /\ RemoveAt(s, n) \in Seq(S)
         /\ Len(RemoveAt(s, n)) = Len(s) - 1
         /\ \A i \in 1 .. Len(s) - 1 :
              RemoveAt(s, n)[i] = IF i < n THEN s[i] ELSE s[i + 1]
  <1> DEFINE a == SubSeq(s, 1, n - 1)
             b == SubSeq(s, n + 1, Len(s))
  <1>0. Len(s) \in Nat /\ \A i \in 1 .. Len(s) : s[i] \in S
    BY LenProperties, ElementOfSeq
  <1>1. /\ a \in Seq(S) /\ Len(a) = n - 1
        /\ \A i \in 1 .. n - 1 : a[i] = s[i]
    <2>1. \A i \in 1 .. n - 1 : s[i] \in S BY <1>0
    <2>2. /\ a \in Seq(S) /\ Len(a) = IF 1 <= n - 1 THEN n - 1 ELSE 0
          /\ \A i \in 1 .. (n - 1) - 1 + 1 : a[i] = s[1 + i - 1]
      BY <1>0, <2>1, SubSeqProperties
    <2> QED BY <2>2
  <1>2. /\ b \in Seq(S) /\ Len(b) = Len(s) - n
        /\ \A i \in 1 .. Len(s) - n : b[i] = s[n + i]
    <2>1. \A i \in n + 1 .. Len(s) : s[i] \in S BY <1>0
    <2>2. /\ b \in Seq(S) /\ Len(b) = IF n + 1 <= Len(s) THEN Len(s) - (n + 1) + 1 ELSE 0
          /\ \A i \in 1 .. Len(s) - (n + 1) + 1 : b[i] = s[n + 1 + i - 1]
      BY <1>0, <2>1, SubSeqProperties
    <2> QED BY <1>0, <2>2
  <1> DEFINE t == RemoveAt(s, n)
  <1> HIDE DEF a, b, t
  <1>3. /\ a \o b \in Seq(S) /\ Len(a \o b) = Len(a) + Len(b)
        /\ \A i \in 1 .. Len(a) + Len(b) :
             (a \o b)[i] = IF i <= Len(a) THEN a[i] ELSE b[i - Len(a)]
    BY <1>1, <1>2, ConcatProperties
  <1>4. t = a \o b BY DEF RemoveAt, a, b, t
  <1>5. t \in Seq(S)
    BY <1>3, <1>4
  <1>6. Len(t) = Len(s) - 1
    <2>1. Len(t) = Len(a) + Len(b)
      BY <1>3, <1>4
    <2>2. Len(a) = n - 1 /\ Len(b) = Len(s) - n
      BY <1>1, <1>2
    <2>3. Len(s) \in Int /\ n \in Int
      BY <1>0
    <2> QED BY <2>1, <2>2, <2>3
  <1>7. ASSUME NEW i \in 1 .. Len(s) - 1
        PROVE  t[i] = IF i < n THEN s[i] ELSE s[i + 1]
    <2>1. t[i] = IF i <= n - 1 THEN a[i] ELSE b[i - (n - 1)]
      <3>1. i \in 1 .. Len(a) + Len(b) /\ Len(a) = n - 1
        BY <1>0, <1>1, <1>2
      <3> QED BY <1>3, <1>4, <3>1
    <2>2. CASE i < n
      <3>1. i \in 1 .. n - 1 /\ i <= n - 1
        BY <1>0, <2>2
      <3> QED BY <1>1, <2>1, <2>2, <3>1
    <2>3. CASE ~(i < n)
      <3>1. /\ i - (n - 1) \in 1 .. Len(s) - n /\ ~(i <= n - 1)
            /\ n + (i - (n - 1)) = i + 1
        BY <1>0, <2>3
      <3>2. b[i - (n - 1)] = s[n + (i - (n - 1))]
        BY <1>2, <3>1
      <3>3. b[i - (n - 1)] = s[i + 1]
        BY <3>1, <3>2
      <3> QED BY <2>1, <2>3, <3>1, <3>3
    <2> QED BY <2>2, <2>3
  <1> QED BY <1>5, <1>6, <1>7 DEF t

-----------------------------------------------------------------------------
(* The ledger.                                                             *)

\* The key of a call, and an entry for it.
LEMMA KeyType == ASSUME NEW k \in Call PROVE KeyOf(k) \in EntryKey /\ PayloadOf(k) \in Payload
  BY DEF Call, KeyOf, PayloadOf, EntryKey, Payload

\* One key's entry set to a state, the others as they were.
LEMMA MarkedKeeps ==
  ASSUME ledger \in Seq(Entry), LedgerInv(ledger), NEW k \in Call,
         NEW s \in {"in_flight", "succeeded", "failed", "unknown"},
         NEW r \in Result \cup {None}, s = "succeeded" => r \in Result
  PROVE  /\ Rewritten(ledger, Marked(k, s, r), KeyOf(k), s)
         /\ \A e \in ToSet(ledger) :
              \E n \in ToSet(Marked(k, s, r)) :
                 n.key = e.key /\ (e.key # KeyOf(k) => n = e)
  <1> DEFINE m == Marked(k, s, r)
             f(i) == IF ledger[i].key = KeyOf(k)
                     THEN [ledger[i] EXCEPT !.state = s, !.result = r] ELSE ledger[i]
  <1>1. /\ Len(ledger) \in Nat /\ DOMAIN ledger = 1 .. Len(ledger)
        /\ \A i \in 1 .. Len(ledger) : ledger[i] \in Entry
    BY LenProperties, ElementOfSeq
  <1>2. m = [i \in 1 .. Len(ledger) |-> f(i)]
    BY <1>1 DEF Marked, At
  <1>3. \A i \in 1 .. Len(ledger) :
          /\ f(i) \in Entry /\ f(i).key = ledger[i].key
          /\ ledger[i].key = KeyOf(k) => f(i).state = s /\ f(i).result = r
          /\ ledger[i].key # KeyOf(k) => f(i) = ledger[i]
    BY <1>1 DEF Entry
  <1> HIDE DEF f, m
  <1>4. /\ m \in Seq(Entry) /\ Len(m) = Len(ledger) /\ DOMAIN m = 1 .. Len(ledger)
    <2>1. m \in Seq(Entry)
      BY <1>1, <1>2, <1>3, IsASeq
    <2>2. DOMAIN m = 1 .. Len(ledger)
      BY <1>2
    <2>3. Len(m) \in Nat /\ DOMAIN m = 1 .. Len(m)
      BY <2>1, LenProperties
    <2> QED BY <1>1, <2>1, <2>2, <2>3
  <1>5. \A i \in 1 .. Len(ledger) : m[i] = f(i)
    BY <1>2
  <1>6. LedgerInv(m)
    <2>1. \A i, j \in 1 .. Len(ledger) : m[i].key = m[j].key => i = j
      BY <1>1, <1>3, <1>5 DEF LedgerInv
    <2>2. \A i \in 1 .. Len(ledger) : m[i].state = "succeeded" => m[i].result \in Result
      BY <1>1, <1>3, <1>5 DEF LedgerInv
    <2> QED BY <1>4, <2>1, <2>2 DEF LedgerInv
  <1>7. ASSUME NEW n \in ToSet(m)
        PROVE  IF n.key = KeyOf(k) THEN n.state = s ELSE n \in ToSet(ledger)
    <2>1. PICK i \in 1 .. Len(ledger) : n = f(i)
      BY <1>4, <1>5 DEF ToSet
    <2>2. ledger[i] \in ToSet(ledger)
      BY <1>1 DEF ToSet
    <2> QED BY <1>3, <2>1, <2>2
  <1>8. ASSUME NEW e \in ToSet(ledger)
        PROVE  \E n \in ToSet(m) : n.key = e.key /\ (e.key # KeyOf(k) => n = e)
    <2>1. PICK i \in 1 .. Len(ledger) : e = ledger[i]
      BY <1>1 DEF ToSet
    <2>2. m[i] \in ToSet(m)
      BY <1>4 DEF ToSet
    <2> QED BY <1>3, <1>5, <2>1, <2>2
  <1> QED BY <1>4, <1>6, <1>7, <1>8 DEF m, Rewritten

\* Making room takes out at most one entry, and one that is settled for good or
\* known to have failed.
LEMMA MakeRoomKeeps ==
  ASSUME ledger \in Seq(Entry), LedgerInv(ledger), HasRoom
  PROVE  LET m == MakeRoom(ledger)
         IN  /\ m \in Seq(Entry) /\ LedgerInv(m) /\ Len(m) < Limit
             /\ ToSet(m) \subseteq ToSet(ledger)
             /\ \A e \in ToSet(ledger) : e \in ToSet(m) \/ e.state \in {"succeeded", "failed"}
  <1> DEFINE m == MakeRoom(ledger)
             n == Oldest(Removable(ledger))
  <1>1. /\ Len(ledger) \in Nat /\ DOMAIN ledger = 1 .. Len(ledger)
        /\ \A i \in 1 .. Len(ledger) : ledger[i] \in Entry
    BY LenProperties, ElementOfSeq
  <1>2. CASE Len(ledger) < Limit
    BY <1>2 DEF MakeRoom
  <1>3. CASE ~(Len(ledger) < Limit)
    <2>1. n \in 1 .. Len(ledger) /\ ledger[n].state \in {"succeeded", "failed"}
      <3>1. Removable(ledger) # {} /\ Removable(ledger) \in SUBSET Nat
        BY <1>1, <1>3 DEF HasRoom, Removable
      <3>2. n \in Removable(ledger)
        BY <3>1, OldestIsIn
      <3> QED BY <1>1, <3>2 DEF Removable
    <2> HIDE DEF n
    <2>2. m = RemoveAt(ledger, n)
      BY <1>3 DEF MakeRoom, n
    <2> HIDE DEF m
    <2>3. /\ m \in Seq(Entry) /\ Len(m) = Len(ledger) - 1
          /\ \A i \in 1 .. Len(ledger) - 1 : m[i] = IF i < n THEN ledger[i] ELSE ledger[i + 1]
      <3>1. /\ RemoveAt(ledger, n) \in Seq(Entry)
            /\ Len(RemoveAt(ledger, n)) = Len(ledger) - 1
            /\ \A i \in 1 .. Len(ledger) - 1 :
                 RemoveAt(ledger, n)[i] = IF i < n THEN ledger[i] ELSE ledger[i + 1]
        BY <2>1, RemoveAtKeeps
      <3> QED BY <2>2, <3>1
    <2>4. DOMAIN m = 1 .. Len(ledger) - 1
      BY <2>3, LenProperties
    <2>5. Len(m) < Limit
      BY <1>1, <2>3 DEF LedgerInv
    <2>6. LedgerInv(m)
      <3> DEFINE at(i) == IF i < n THEN i ELSE i + 1
      <3>1. \A i \in 1 .. Len(ledger) - 1 : at(i) \in 1 .. Len(ledger) /\ m[i] = ledger[at(i)]
        BY <1>1, <2>1, <2>3
      <3>2. \A i, j \in 1 .. Len(ledger) - 1 : at(i) = at(j) => i = j
        BY <1>1, <2>1
      <3> HIDE DEF at
      <3>3. \A i, j \in 1 .. Len(ledger) - 1 : m[i].key = m[j].key => i = j
        BY <1>1, <3>1, <3>2 DEF LedgerInv
      <3>4. \A i \in 1 .. Len(ledger) - 1 : m[i].state = "succeeded" => m[i].result \in Result
        BY <1>1, <3>1 DEF LedgerInv
      <3>5. Len(m) <= Limit
        BY <1>1, <2>3, <2>5
      <3> QED BY <2>4, <3>3, <3>4, <3>5 DEF LedgerInv
    <2>7. ASSUME NEW e \in ToSet(m) PROVE e \in ToSet(ledger)
      <3>1. PICK i \in 1 .. Len(ledger) - 1 : e = m[i]
        BY <2>4 DEF ToSet
      <3>2. e = ledger[i] \/ e = ledger[i + 1]
        BY <2>3, <3>1
      <3>3. i \in 1 .. Len(ledger) /\ i + 1 \in 1 .. Len(ledger)
        BY <1>1
      <3> QED BY <1>1, <3>2, <3>3 DEF ToSet
    <2>8. ASSUME NEW e \in ToSet(ledger)
          PROVE  e \in ToSet(m) \/ e.state \in {"succeeded", "failed"}
      <3>1. PICK i \in 1 .. Len(ledger) : e = ledger[i]
        BY <1>1 DEF ToSet
      <3>2. CASE i = n
        BY <2>1, <3>1, <3>2
      <3>3. CASE i < n
        <4>1. i \in 1 .. Len(ledger) - 1 /\ m[i] = e
          BY <1>1, <2>1, <2>3, <3>1, <3>3
        <4> QED BY <2>4, <4>1 DEF ToSet
      <3>4. CASE i > n
        <4>1. i - 1 \in 1 .. Len(ledger) - 1 /\ m[i - 1] = e
          BY <1>1, <2>1, <2>3, <3>1, <3>4
        <4> QED BY <2>4, <4>1 DEF ToSet
      <3>5. n \in Int /\ i \in Int
        BY <2>1
      <3> QED BY <3>2, <3>3, <3>4, <3>5
    <2> QED BY <2>3, <2>5, <2>6, <2>7, <2>8 DEF m
  <1> QED BY <1>2, <1>3

\* An entry at the end, for a key that has none.
LEMMA AppendEntry ==
  ASSUME NEW l \in Seq(Entry), LedgerInv(l), Len(l) < Limit, NEW e \in Entry,
         \A n \in ToSet(l) : n.key # e.key, e.state # "succeeded"
  PROVE  /\ Append(l, e) \in Seq(Entry) /\ LedgerInv(Append(l, e))
         /\ ToSet(Append(l, e)) = ToSet(l) \cup {e}
  <1> DEFINE m == Append(l, e)
  <1>1. /\ Len(l) \in Nat /\ DOMAIN l = 1 .. Len(l)
        /\ m \in Seq(Entry) /\ Len(m) = Len(l) + 1
        /\ \A i \in 1 .. Len(l) : m[i] = l[i]
        /\ m[Len(l) + 1] = e
    BY LenProperties, AppendProperties
  <1> HIDE DEF m
  <1>2. DOMAIN m = 1 .. Len(l) + 1
    BY <1>1, LenProperties
  <1>3. \A i \in 1 .. Len(l) : l[i].key # e.key
    BY <1>1 DEF ToSet
  <1>4. \A i \in 1 .. Len(l) + 1 : i \in 1 .. Len(l) \/ i = Len(l) + 1
    BY <1>1
  <1>5. LedgerInv(m)
    <2>1. Len(m) <= Limit
      BY <1>1
    <2>2. \A i, j \in 1 .. Len(l) + 1 : m[i].key = m[j].key => i = j
      BY <1>1, <1>3, <1>4 DEF LedgerInv
    <2>3. \A i \in 1 .. Len(l) + 1 : m[i].state = "succeeded" => m[i].result \in Result
      BY <1>1, <1>4 DEF LedgerInv
    <2> QED BY <1>2, <2>1, <2>2, <2>3 DEF LedgerInv
  <1>6. ToSet(m) = ToSet(l) \cup {e}
    <2>1. \A n \in ToSet(m) : n \in ToSet(l) \cup {e}
      BY <1>1, <1>2, <1>4 DEF ToSet
    <2>2. \A n \in ToSet(l) : n \in ToSet(m)
      <3> SUFFICES ASSUME NEW n \in ToSet(l) PROVE n \in ToSet(m)
        OBVIOUS
      <3>1. PICK i \in 1 .. Len(l) : n = l[i]
        BY <1>1 DEF ToSet
      <3>2. i \in 1 .. Len(l) + 1 /\ m[i] = n
        BY <1>1, <3>1
      <3> QED BY <1>2, <3>2 DEF ToSet
    <2>3. e \in ToSet(m)
      <3>1. Len(l) + 1 \in 1 .. Len(l) + 1
        BY <1>1
      <3> QED BY <1>1, <1>2, <3>1 DEF ToSet
    <2> QED BY <2>1, <2>2, <2>3
  <1> QED BY <1>1, <1>5, <1>6 DEF m

\* One key has one entry.
LEMMA OneEntry ==
  ASSUME NEW l \in Seq(Entry), LedgerInv(l), NEW e \in ToSet(l), NEW n \in ToSet(l),
         e.key = n.key
  PROVE  e = n
  <1>1. PICK i \in DOMAIN l : e = l[i]
    BY DEF ToSet
  <1>2. PICK j \in DOMAIN l : n = l[j]
    BY DEF ToSet
  <1> QED BY <1>1, <1>2 DEF LedgerInv

\* A key's entry in flight: no other key's entry changes, and one that goes is
\* settled and its key counted as forgotten.
LEMMA InsertKeeps ==
  ASSUME ledger \in Seq(Entry), LedgerInv(ledger), NEW c \in Callers,
         call \in [Callers -> Call], Insert(c), HasRoom \/ At(KeyOf(call[c])) # {}
  PROVE  /\ Rewritten(ledger, ledger', KeyOf(call[c]), "in_flight")
         /\ \E n \in ToSet(ledger') : n.key = KeyOf(call[c])
         /\ \A e \in ToSet(ledger) :
              \/ e.key = KeyOf(call[c]) \/ e \in ToSet(ledger')
              \/ e.state \in {"succeeded", "failed"} /\ e.key \in forgotten'
         /\ forgotten \subseteq forgotten'
  <1> DEFINE K == KeyOf(call[c])
             N == InFlight(call[c])
  <1>1. N \in Entry /\ N.key = K /\ N.state = "in_flight"
    BY KeyType DEF InFlight, Entry
  <1>2. /\ Len(ledger) \in Nat /\ DOMAIN ledger = 1 .. Len(ledger)
        /\ \A i \in 1 .. Len(ledger) : ledger[i] \in Entry
    BY LenProperties, ElementOfSeq
  <1>3. forgotten \subseteq forgotten'
    BY DEF Insert
  <1> HIDE DEF N
  <1>4. CASE At(K) # {}
    <2> DEFINE f(i) == IF ledger[i].key = K THEN N ELSE ledger[i]
               m == [i \in 1 .. Len(ledger) |-> f(i)]
    <2>1. ledger' = m
      BY <1>2, <1>4 DEF Insert, At, N
    <2>2. \A i \in 1 .. Len(ledger) :
            f(i) \in Entry /\ f(i).key = ledger[i].key
      BY <1>1, <1>2
    <2> HIDE DEF K
    <2>3. \A i \in 1 .. Len(ledger) : ledger[i].key = K => f(i) = N
      OBVIOUS
    <2>4. \A i \in 1 .. Len(ledger) : ledger[i].key # K => f(i) = ledger[i]
      OBVIOUS
    <2> HIDE DEF f
    <2>5. m \in Seq(Entry)
      BY <1>2, <2>2, IsASeq
    <2>6. DOMAIN m = 1 .. Len(ledger) /\ \A i \in 1 .. Len(ledger) : m[i] = f(i)
      OBVIOUS
    <2> HIDE DEF m
    <2>7. Len(m) = Len(ledger)
      <3>1. Len(m) \in Nat /\ DOMAIN m = 1 .. Len(m)
        BY <2>5, LenProperties
      <3> QED BY <1>2, <2>6, <3>1
    <2>8. LedgerInv(m)
      <3>1. \A i, j \in 1 .. Len(ledger) : m[i].key = m[j].key => i = j
        BY <1>2, <2>2, <2>6 DEF LedgerInv
      <3>2. \A i \in 1 .. Len(ledger) : m[i].state = "succeeded" => m[i].result \in Result
        BY <1>1, <1>2, <2>3, <2>4, <2>6 DEF LedgerInv
      <3> QED BY <2>6, <2>7, <3>1, <3>2 DEF LedgerInv
    <2>9. ASSUME NEW n \in ToSet(m)
          PROVE  IF n.key = K THEN n.state = "in_flight" ELSE n \in ToSet(ledger)
      <3>1. PICK i \in 1 .. Len(ledger) : n = f(i)
        BY <2>6 DEF ToSet
      <3>2. ledger[i] \in ToSet(ledger)
        BY <1>2 DEF ToSet
      <3> QED BY <1>1, <2>2, <2>3, <2>4, <3>1, <3>2
    <2>10. \E n \in ToSet(m) : n.key = K
      <3>1. PICK i \in 1 .. Len(ledger) : ledger[i].key = K
        BY <1>2, <1>4 DEF At
      <3>2. m[i] \in ToSet(m) /\ m[i] = N
        BY <2>3, <2>6, <3>1 DEF ToSet
      <3> QED BY <1>1, <3>2
    <2>11. ASSUME NEW e \in ToSet(ledger), e.key # K PROVE e \in ToSet(m)
      <3>1. PICK i \in 1 .. Len(ledger) : e = ledger[i]
        BY <1>2 DEF ToSet
      <3>2. m[i] = e /\ m[i] \in ToSet(m)
        BY <2>4, <2>6, <2>11, <3>1 DEF ToSet
      <3> QED BY <3>2
    <2> QED BY <1>3, <2>1, <2>5, <2>8, <2>9, <2>10, <2>11 DEF Rewritten, K
  <1>5. CASE At(K) = {}
    <2> DEFINE l == MakeRoom(ledger)
    <2>1. HasRoom
      BY <1>5
    <2>2. /\ l \in Seq(Entry) /\ LedgerInv(l) /\ Len(l) < Limit
          /\ ToSet(l) \subseteq ToSet(ledger)
          /\ \A e \in ToSet(ledger) : e \in ToSet(l) \/ e.state \in {"succeeded", "failed"}
      BY <2>1, MakeRoomKeeps
    <2>3. ledger' = Append(l, N)
      BY <1>5 DEF Insert, N
    <2>4. forgotten' = forgotten \cup
            ({e.key : e \in ToSet(ledger)} \ {e.key : e \in ToSet(ledger')})
      BY DEF Insert
    <2> HIDE DEF l
    <2>5. \A e \in ToSet(ledger) : e.key # K
      BY <1>5 DEF At, ToSet
    <2> HIDE DEF K
    <2>6. /\ ledger' \in Seq(Entry) /\ LedgerInv(ledger')
          /\ ToSet(ledger') = ToSet(l) \cup {N}
      BY <1>1, <2>2, <2>3, <2>5, AppendEntry
    <2>7. ASSUME NEW e \in ToSet(ledger), e \notin ToSet(ledger')
          PROVE  e.state \in {"succeeded", "failed"} /\ e.key \in forgotten'
      <3>1. \A n \in ToSet(ledger') : n.key # e.key
        BY <1>1, <2>2, <2>5, <2>6, <2>7, OneEntry
      <3>2. e.key \in forgotten'
        BY <2>4, <3>1
      <3> QED BY <2>2, <2>6, <2>7, <3>2
    <2>8. \A n \in ToSet(ledger') :
            IF n.key = K THEN n.state = "in_flight" ELSE n \in ToSet(ledger)
      BY <1>1, <2>2, <2>5, <2>6
    <2>9. \E n \in ToSet(ledger') : n.key = K
      BY <1>1, <2>6
    <2> QED BY <1>3, <2>6, <2>7, <2>8, <2>9 DEF Rewritten, K
  <1> QED BY <1>4, <1>5

-----------------------------------------------------------------------------
(* What the providers' answers can mean.                                   *)

\* A verdict that frees the key or denies the write is blind, unless the request
\* is known not to have been carried out.
Sound(o, v) ==
  /\ v.state \in {"read", "unsettled", "failed", "unknown"}
  /\ v.answer \in Answer /\ v.blind \in BOOLEAN
  /\ o \notin {"refused", "undispatched"} =>
       \/ v.blind = TRUE
       \/ v.state \in {"read", "unknown"} /\ v.answer \notin {"not_started", "not_committed"}

\* The verdicts that suit every outcome.
LEMMA Cautious ==
  ASSUME NEW o
  PROVE  /\ Sound(o, Uncertain) /\ Sound(o, Read) /\ Sound(o, Unsettled)
         /\ Sound(o, As("unknown", "committed")) /\ Sound(o, As("unknown", "partial"))
         /\ Sound(o, Denied("unknown", "not_committed"))
         /\ Sound(o, Denied("unknown", "not_started"))
         /\ Sound(o, Denied("failed", "not_started"))
  BY DEF Sound, Uncertain, Read, Unsettled, As, Denied, Answer

\* The verdicts that suit a request known not to have been carried out.
LEMMA Certain ==
  ASSUME NEW o \in {"refused", "undispatched"}
  PROVE  /\ Sound(o, As("failed", "not_started")) /\ Sound(o, As("unknown", "not_started"))
  BY DEF Sound, As, Answer

\* No provider's table holds an unsound verdict.
LEMMA Verdicts ==
  ASSUME provider \in Providers, NEW k \in Call,
         NEW o \in {"unreadable", "partial", "refused", "undispatched", "lost",
                    "differs", "unread", "denied", "gone"},
         o \in {"differs", "unread", "denied", "gone"} => k.op = "set",
         NEW v \in Policy(k)[o]
  PROVE  Sound(o, v)
  <1>1. provider \in {"google", "maybe_grid", "maybe_field", "feishu"} /\ k.op \in Op
    BY DEF Call
  <1>2. CASE provider = "google"
    <2>1. Policy(k) = GoogleSet BY <1>2 DEF Policy
    <2> QED BY <2>1, Cautious, Certain DEF GoogleSet
  <1>3. CASE provider = "feishu"
    <2>1. Policy(k) = FeishuSet BY <1>3 DEF Policy
    <2> QED BY <2>1, Cautious, Certain DEF FeishuSet
  <1>4. CASE provider = "maybe_grid" /\ k.op = "set"
    <2>1. Policy(k) = MaybeGridSet BY <1>4 DEF Policy
    <2> QED BY <2>1, Cautious, Certain DEF MaybeGridSet
  <1>5. CASE provider = "maybe_grid" /\ k.op = "recalculate"
    <2>1. Policy(k) = MaybeGridRecalculate BY <1>5 DEF Policy
    <2>2. o \in {"unreadable", "partial", "refused", "undispatched", "lost"}
      BY <1>5
    <2> QED BY <2>1, <2>2, Cautious, Certain DEF MaybeGridRecalculate
  <1>6. CASE provider = "maybe_field" /\ k.op = "set"
    <2>1. Policy(k) = MaybeFieldSet BY <1>6 DEF Policy
    <2> QED BY <2>1, Cautious, Certain DEF MaybeFieldSet
  <1>7. CASE provider = "maybe_field" /\ k.op = "recalculate"
    <2>1. Policy(k) = MaybeFieldRecalculate BY <1>7 DEF Policy
    <2>2. o \in {"unreadable", "partial", "refused", "undispatched", "lost"}
      BY <1>7
    <2> QED BY <2>1, <2>2, Cautious, Certain DEF MaybeFieldRecalculate
  <1> QED BY <1>1, <1>2, <1>3, <1>4, <1>5, <1>6, <1>7 DEF Op

-----------------------------------------------------------------------------
(* The kinds of steps, by what they do to a call, its key and its request. *)

\* The answer denies the write only if the request cannot take effect any more.
Truthful(c, answer, blind) ==
  call[c].pc \in Sent /\ answer \in {"not_started", "not_committed"} /\ ~blind =>
    wire[call[c].req].state = "void"

Waiting(k) ==
  /\ k \in Call /\ k.pc \in Quiet /\ k.req = 0
  /\ k.pc = "insert" => provider = "feishu"
  /\ k.pc # "idle" => (k.formula = None <=> k.op = "recalculate")

\* Before the key is held.
Outside(c) ==
  /\ ~AtWork(c)
  /\ \E k \in Call : Waiting(k) /\ call' = [call EXCEPT ![c] = k]
  /\ UNCHANGED <<ledger, wire, forgotten, orphaned>>

\* The key is taken.
Enter(c) ==
  /\ ~AtWork(c) /\ call[c].pc # "idle"
  /\ \E pc \in {"fresh", "send"} : Go(c, pc)
  /\ Rewritten(ledger, ledger', KeyOf(call[c]), "in_flight")
  /\ \E n \in ToSet(ledger') : n.key = KeyOf(call[c])
  /\ \A e \in ToSet(ledger) :
       \/ e.key = KeyOf(call[c]) \/ e \in ToSet(ledger')
       \/ e.state \in {"succeeded", "failed"} /\ e.key \in forgotten'
  /\ provider # "feishu" =>
       \A e \in ToSet(ledger) : e.key = KeyOf(call[c]) => e.state = "failed"
  /\ forgotten \subseteq forgotten' /\ UNCHANGED <<wire, orphaned>>

\* One step further with the key.
Proceed(c) ==
  /\ AtWork(c)
  /\ \E pc \in Pc \ Quiet :
       /\ Go(c, pc)
       /\ pc \in Sent <=> call[c].pc \in Sent
       /\ pc = "readback" => call[c].op = "set"
  /\ UNCHANGED <<ledger, wire, forgotten, orphaned>>

\* The key is settled and the call answered.
Leave(c) ==
  /\ AtWork(c)
  /\ \E answer \in Answer, blind \in BOOLEAN, state \in {"failed", "unknown", "succeeded"} :
       /\ Tell(c, answer, blind) /\ Truthful(c, answer, blind)
       /\ Rewritten(ledger, ledger', KeyOf(call[c]), state)
       /\ state = "failed" => Truthful(c, "not_started", blind)
  /\ \A e \in ToSet(ledger) :
       \E n \in ToSet(ledger') : n.key = e.key /\ (e.key # KeyOf(call[c]) => n = e)
  /\ UNCHANGED <<forgotten, orphaned>>

\* The call is answered and its key left in flight.
GiveUp(c) ==
  /\ AtWork(c)
  /\ \E blind \in BOOLEAN : Tell(c, "not_started", blind) /\ Truthful(c, "not_started", blind)
  /\ orphaned' = orphaned \cup {KeyOf(call[c])}
  /\ UNCHANGED <<ledger, forgotten>>

\* The fate of a request.
Fate(i) ==
  /\ wire[i].state = "flying"
  /\ \E state \in {"applied", "void"} : wire' = [wire EXCEPT ![i].state = state]
  /\ UNCHANGED <<call, ledger, forgotten, orphaned>>

Elsewhere == UNCHANGED <<call, ledger, wire, forgotten, orphaned>>

\* What every step keeps.
Around ==
  /\ provider' = provider
  /\ cells' \in Formulas /\ bound' \in Formulas /\ observed' \in Formulas

StepOf(c) == Outside(c) \/ Enter(c) \/ Proceed(c) \/ Send(c) \/ Leave(c) \/ GiveUp(c)

-----------------------------------------------------------------------------
(* Every action is a step of a kind.                                       *)

\* A call that has not begun and its request.
LEMMA CallFacts ==
  ASSUME Inv, NEW c \in Callers
  PROVE  /\ call[c] \in Call /\ CallInv(c) /\ KeyOf(call[c]) \in EntryKey
         /\ call[c].pc \notin Sent => call[c].req = 0
         /\ cells \in Formulas /\ bound \in Formulas /\ observed \in Formulas
         /\ ledger \in Seq(Entry) /\ LedgerInv(ledger)
  BY KeyType DEF Inv, Types, CallInv

\* An answer given before the key is held.
LEMMA AnsweredOutside ==
  ASSUME Inv, NEW c \in Callers, ~AtWork(c), NEW a, NEW b, Tell(c, a, b),
         UNCHANGED <<ledger, forgotten, orphaned>>
  PROVE  Outside(c)
  <1>1. call[c].req = 0
    BY CallFacts DEF AtWork, Quiet, Sent
  <1>2. Waiting(Idle)
    BY DEF Waiting, Idle, Call, Pc, Quiet, Op, Text
  <1>3. UNCHANGED wire /\ call' = [call EXCEPT ![c] = Idle]
    BY <1>1 DEF Tell
  <1> QED BY <1>2, <1>3 DEF Outside, Waiting

\* Settling the key.
LEMMA Settles ==
  ASSUME Inv, NEW c \in Callers, AtWork(c), NEW s \in {"failed", "unknown"},
         NEW a \in Answer, NEW b \in BOOLEAN, Settle(c, s, a, b), UNCHANGED forgotten,
         Truthful(c, a, b), s = "failed" => Truthful(c, "not_started", b)
  PROVE  Leave(c)
  <1> DEFINE told == IF Settleable(call[c]) THEN a ELSE "escaped"
  <1>1. Tell(c, told, b) /\ UNCHANGED <<forgotten, orphaned>>
    BY DEF Settle
  <1>2. told \in Answer /\ Truthful(c, told, b)
    BY DEF Answer, Truthful
  <1>3. /\ Rewritten(ledger, ledger', KeyOf(call[c]), s)
        /\ \A e \in ToSet(ledger) :
             \E n \in ToSet(ledger') : n.key = e.key /\ (e.key # KeyOf(call[c]) => n = e)
    BY CallFacts, MarkedKeeps DEF Settle
  <1> HIDE DEF told
  <1> QED BY <1>1, <1>2, <1>3 DEF Leave

\* Settling it with a result.
LEMMA Succeeds ==
  ASSUME Inv, NEW c \in Callers, AtWork(c), Succeed(c), UNCHANGED forgotten
  PROVE  Leave(c) /\ cells' \in Formulas /\ observed' \in Formulas
  <1> DEFINE told == IF Settleable(call[c]) THEN "committed" ELSE "escaped"
             result == <<call[c].op, call[c].expected, cells>>
  <1>1. /\ Tell(c, told, FALSE) /\ UNCHANGED orphaned
        /\ ledger' = Marked(call[c], "succeeded", result)
        /\ cells' = cells /\ observed' \in {cells, observed}
    BY DEF Succeed
  <1>2. told \in Answer /\ Truthful(c, told, FALSE)
    BY DEF Answer, Truthful
  <1>3. result \in Result
    BY CallFacts DEF Result, Call
  <1> HIDE DEF result
  <1>4. /\ Rewritten(ledger, ledger', KeyOf(call[c]), "succeeded")
        /\ \A e \in ToSet(ledger) :
             \E n \in ToSet(ledger') : n.key = e.key /\ (e.key # KeyOf(call[c]) => n = e)
    BY <1>1, <1>3, CallFacts, MarkedKeeps
  <1> HIDE DEF told
  <1>5. Leave(c)
    BY <1>1, <1>2, <1>4 DEF Leave
  <1> QED BY <1>1, <1>5, CallFacts

\* What the caller of a dispatched request makes of an outcome.
LEMMA Learns ==
  ASSUME Inv, NEW c \in Callers, call[c].pc \in Sent,
         NEW o \in {"unreadable", "partial", "refused", "undispatched", "lost",
                    "differs", "unread", "denied", "gone"},
         o \in {"differs", "unread", "denied", "gone"} => call[c].op = "set",
         o \in {"refused", "undispatched"} => wire[call[c].req].state = "void",
         Learn(c, o), UNCHANGED <<forgotten, bound, provider>>
  PROVE  StepOf(c) /\ Around
  <1>1. PICK v \in Policy(call[c])[o] :
          \/ v.state = "read" /\ Go(c, "reconcile") /\ OnlyPc
          \/ v.state = "unsettled" /\ Abandon(c, v.blind)
          \/ v.state \in {"failed", "unknown"} /\ Settle(c, v.state, v.answer, v.blind)
    BY DEF Learn
  <1>2. /\ v.answer \in Answer /\ v.blind \in BOOLEAN
        /\ o \notin {"refused", "undispatched"} =>
             \/ v.blind = TRUE
             \/ v.state \in {"read", "unknown"} /\ v.answer \notin {"not_started", "not_committed"}
    BY CallFacts, Verdicts DEF Inv, Types, Sound
  <1>3. AtWork(c)
    BY DEF AtWork, Sent, Quiet
  <1>4. Truthful(c, v.answer, v.blind)
    BY <1>2 DEF Truthful
  <1>5. CASE v.state = "read" /\ Go(c, "reconcile") /\ OnlyPc
    <2>1. Proceed(c)
      BY <1>3, <1>5 DEF Proceed, OnlyPc, Pc, Quiet, Sent
    <2>2. Around
      BY <1>5, CallFacts DEF OnlyPc, Around
    <2> QED BY <2>1, <2>2 DEF StepOf
  <1>6. CASE v.state = "unsettled" /\ Abandon(c, v.blind)
    <2>1. Truthful(c, "not_started", v.blind)
      BY <1>2, <1>6 DEF Truthful
    <2>2. GiveUp(c)
      BY <1>2, <1>3, <1>6, <2>1 DEF GiveUp, Abandon
    <2>3. Around
      BY <1>6, CallFacts DEF Abandon, Around
    <2> QED BY <2>2, <2>3 DEF StepOf
  <1>7. CASE v.state \in {"failed", "unknown"} /\ Settle(c, v.state, v.answer, v.blind)
    <2>1. v.state = "failed" => Truthful(c, "not_started", v.blind)
      BY <1>2 DEF Truthful
    <2>2. Leave(c)
      BY <1>2, <1>3, <1>4, <1>7, <2>1, Settles
    <2>3. Around
      BY <1>7, CallFacts DEF Settle, Around
    <2> QED BY <2>2, <2>3 DEF StepOf
  <1> QED BY <1>1, <1>5, <1>6, <1>7

\* A call waiting for its key takes one step more.
LEMMA GoesOutside ==
  ASSUME Inv, NEW c \in Callers, call[c].pc \in {"before", "begin"},
         NEW pc \in {"begin", "insert"}, pc = "insert" => provider = "feishu",
         Go(c, pc), UNCHANGED <<ledger, wire, forgotten, orphaned>>
  PROVE  Outside(c)
  <1> DEFINE k == [call[c] EXCEPT !.pc = pc]
  <1>1. /\ call[c] \in Call /\ call[c].req = 0
        /\ call[c].formula = None <=> call[c].op = "recalculate"
    BY CallFacts DEF CallInv, Sent
  <1>2. k \in Call /\ k.pc = pc /\ k.req = 0 /\ k.formula = call[c].formula /\ k.op = call[c].op
    BY <1>1 DEF Call, Pc, Quiet
  <1>3. call' = [call EXCEPT ![c] = k]
    BY DEF Go
  <1> HIDE DEF k
  <1>4. Waiting(k)
    BY <1>1, <1>2 DEF Waiting, Quiet
  <1>5. ~AtWork(c)
    BY DEF AtWork, Quiet
  <1> QED BY <1>2, <1>3, <1>4, <1>5 DEF Outside

\* A view starts a call.
LEMMA StartIs ==
  ASSUME Inv, NEW c \in Callers, Start(c)
  PROVE  StepOf(c) /\ Around
  <1>1. PICK op \in Ops, key \in Keys, f \in Text,
             e \in {IF provider \in Field THEN bound ELSE None, observed} :
          /\ (f = None) <=> (op = "recalculate")
          /\ call' = [call EXCEPT ![c] =
               [Idle EXCEPT !.pc = IF provider = "google" THEN "before" ELSE "begin",
                            !.op = op, !.key = key, !.formula = f, !.expected = e]]
    BY DEF Start, Text
  <1> DEFINE pc == IF provider = "google" THEN "before" ELSE "begin"
             k == [Idle EXCEPT !.pc = pc, !.op = op, !.key = key, !.formula = f, !.expected = e]
  <1>2. e \in Text /\ op \in Op /\ pc \in {"before", "begin"}
    BY CallFacts DEF Text, Ops, Op
  <1> HIDE DEF pc
  <1>3. /\ k \in Call /\ k.pc = pc /\ k.req = 0 /\ k.formula = f /\ k.op = op
    BY <1>2 DEF Idle, Call, Pc, Quiet, Op
  <1>4. call' = [call EXCEPT ![c] = k]
    BY <1>1 DEF pc
  <1> HIDE DEF k
  <1>5. Waiting(k)
    BY <1>1, <1>2, <1>3 DEF Waiting, Quiet
  <1>6. Outside(c)
    BY <1>3, <1>4, <1>5 DEF Outside, Start, AtWork, Quiet
  <1>7. Around
    BY CallFacts DEF Around, Start
  <1> QED BY <1>6, <1>7 DEF StepOf

\* Google reads before it consults the ledger.
LEMMA ReadBeforeIs ==
  ASSUME Inv, NEW c \in Callers, ReadBefore(c)
  PROVE  StepOf(c) /\ Around
  <1>1. Around
    BY CallFacts DEF ReadBefore, Around, OnlyPc, Fixed
  <1>2. CASE Go(c, "begin") /\ OnlyPc
    BY <1>1, <1>2, GoesOutside DEF ReadBefore, OnlyPc, StepOf
  <1>3. CASE Tell(c, "not_started", FALSE) /\ UNCHANGED <<ledger, orphaned>>
    <2>1. ~AtWork(c)
      BY DEF ReadBefore, AtWork, Quiet
    <2> QED BY <1>1, <1>3, <2>1, AnsweredOutside DEF ReadBefore, StepOf
  <1> QED BY <1>2, <1>3 DEF ReadBefore

\* The entry begin() finds under a key.
LEMMA Found ==
  ASSUME Inv, NEW c \in Callers, At(KeyOf(call[c])) # {}
  PROVE  LET e == ledger[Oldest(At(KeyOf(call[c])))]
         IN  /\ e \in ToSet(ledger) /\ e.key = KeyOf(call[c])
             /\ e.state = "succeeded" => e.result[3] \in Formulas
  <1> DEFINE i == Oldest(At(KeyOf(call[c])))
  <1>1. DOMAIN ledger = 1 .. Len(ledger) /\ Len(ledger) \in Nat
    BY CallFacts, LenProperties
  <1>2. i \in At(KeyOf(call[c]))
    <2>1. At(KeyOf(call[c])) \in SUBSET Nat
      BY <1>1 DEF At
    <2> QED BY <2>1, OldestIsIn
  <1> HIDE DEF i
  <1>3. i \in DOMAIN ledger /\ ledger[i].key = KeyOf(call[c])
    BY <1>2 DEF At
  <1>4. ledger[i].state = "succeeded" => ledger[i].result \in Result
    BY <1>3, CallFacts DEF LedgerInv
  <1>5. ledger[i].state = "succeeded" => ledger[i].result[3] \in Formulas
    BY <1>4 DEF Result
  <1> QED BY <1>3, <1>5 DEF i, ToSet

\* Where a call goes once it holds its key.
LEMMA NextPcIs ==
  ASSUME NEW k PROVE NextPc(k) \in {"fresh", "send"}
  BY DEF NextPc

\* begin() for a key the ledger holds.
LEMMA BeginKnownIs ==
  ASSUME Inv, NEW c \in Callers, call[c].pc = "begin", BeginKnown(c),
         UNCHANGED <<cells, completed, orphaned>>, Fixed
  PROVE  StepOf(c) /\ Around
  <1> DEFINE k == call[c]
             e == ledger[Oldest(At(KeyOf(k)))]
  <1>1. /\ At(KeyOf(k)) # {} /\ UNCHANGED forgotten
        /\ \/ Tell(c, "not_started", FALSE) /\ UNCHANGED <<ledger, observed>>
           \/ Tell(c, "unknown", FALSE) /\ UNCHANGED <<ledger, observed>>
           \/ /\ e.state = "succeeded"
              /\ Tell(c, IF e.result \in ToSet(completed) THEN "replayed" ELSE "unknown", FALSE)
              /\ observed' \in {e.result[3], observed}
              /\ UNCHANGED ledger
           \/ /\ e.state = "failed"
              /\ ledger' = Marked(k, "in_flight", None)
              /\ Go(c, NextPc(k)) /\ UNCHANGED <<wire, observed>>
    BY DEF BeginKnown
  <1>2. /\ e \in ToSet(ledger) /\ e.key = KeyOf(k)
        /\ e.state = "succeeded" => e.result[3] \in Formulas
    BY <1>1, Found
  <1>3. ~AtWork(c)
    BY DEF AtWork, Quiet
  <1> HIDE DEF e
  <1>4. CASE \/ Tell(c, "not_started", FALSE) /\ UNCHANGED <<ledger, observed>>
             \/ Tell(c, "unknown", FALSE) /\ UNCHANGED <<ledger, observed>>
    <2>1. Outside(c)
      BY <1>1, <1>3, <1>4, AnsweredOutside
    <2> QED BY <1>4, <2>1, CallFacts DEF StepOf, Around, Fixed
  <1>5. CASE /\ e.state = "succeeded"
             /\ Tell(c, IF e.result \in ToSet(completed) THEN "replayed" ELSE "unknown", FALSE)
             /\ observed' \in {e.result[3], observed}
             /\ UNCHANGED ledger
    <2>1. Outside(c)
      BY <1>1, <1>3, <1>5, AnsweredOutside
    <2> QED BY <1>2, <1>5, <2>1, CallFacts DEF StepOf, Around, Fixed
  <1>6. CASE /\ e.state = "failed"
             /\ ledger' = Marked(k, "in_flight", None)
             /\ Go(c, NextPc(k)) /\ UNCHANGED <<wire, observed>>
    <2>1. /\ Rewritten(ledger, ledger', KeyOf(k), "in_flight")
          /\ \A n \in ToSet(ledger) :
               \E m \in ToSet(ledger') : m.key = n.key /\ (n.key # KeyOf(k) => m = n)
      BY <1>6, CallFacts, MarkedKeeps
    <2>2. \E n \in ToSet(ledger') : n.key = KeyOf(k)
      BY <1>2, <2>1
    <2>3. \A n \in ToSet(ledger) : n.key = KeyOf(k) => n.state = "failed"
      BY <1>2, <1>6, CallFacts, OneEntry
    <2>4. NextPc(k) \in {"fresh", "send"}
      BY NextPcIs
    <2>5. \A n \in ToSet(ledger) : n.key = KeyOf(k) \/ n \in ToSet(ledger')
      BY <2>1
    <2>6. Enter(c)
      BY <1>1, <1>3, <1>6, <2>1, <2>2, <2>3, <2>4, <2>5 DEF Enter
    <2> QED BY <1>6, <2>6, CallFacts DEF StepOf, Around, Fixed
  <1> QED BY <1>1, <1>4, <1>5, <1>6

\* An insertion for a key that has no entry, or without the lock.
LEMMA InsertIs ==
  ASSUME Inv, NEW c \in Callers, call[c].pc \in {"begin", "insert"}, Insert(c),
         HasRoom \/ At(KeyOf(call[c])) # {},
         provider # "feishu" => At(KeyOf(call[c])) = {},
         NEW pc \in {"fresh", "send"}, Go(c, pc), UNCHANGED <<wire, orphaned>>
  PROVE  Enter(c)
  <1>1. call \in [Callers -> Call]
    BY DEF Inv, Types
  <1>2. /\ Rewritten(ledger, ledger', KeyOf(call[c]), "in_flight")
        /\ \E n \in ToSet(ledger') : n.key = KeyOf(call[c])
        /\ \A e \in ToSet(ledger) :
             \/ e.key = KeyOf(call[c]) \/ e \in ToSet(ledger')
             \/ e.state \in {"succeeded", "failed"} /\ e.key \in forgotten'
        /\ forgotten \subseteq forgotten'
    BY <1>1, CallFacts, InsertKeeps
  <1>3. provider # "feishu" => \A e \in ToSet(ledger) : e.key # KeyOf(call[c])
    BY DEF At, ToSet
  <1>4. ~AtWork(c) /\ call[c].pc # "idle"
    BY DEF AtWork, Quiet
  <1> QED BY <1>2, <1>3, <1>4 DEF Enter

\* begin() for a new key.
LEMMA BeginNewIs ==
  ASSUME Inv, NEW c \in Callers, call[c].pc = "begin", BeginNew(c),
         UNCHANGED <<cells, completed, orphaned>>, Fixed
  PROVE  StepOf(c) /\ Around
  <1>1. Around
    BY CallFacts DEF BeginNew, Around, Fixed
  <1>2. ~AtWork(c)
    BY DEF AtWork, Quiet
  <1>3. CASE Tell(c, "escaped", FALSE) /\ UNCHANGED <<ledger, forgotten>>
    BY <1>1, <1>2, <1>3, AnsweredOutside DEF StepOf
  <1>4. CASE HasRoom /\ Insert(c) /\ Go(c, NextPc(call[c])) /\ UNCHANGED wire
    <2>1. At(KeyOf(call[c])) = {} /\ NextPc(call[c]) \in {"fresh", "send"}
      BY NextPcIs DEF BeginNew
    <2>2. Enter(c)
      BY <1>4, <2>1, InsertIs
    <2> QED BY <1>1, <2>2 DEF StepOf
  <1>5. CASE Unlocked /\ Go(c, "insert") /\ UNCHANGED <<ledger, wire, forgotten>>
    BY <1>1, <1>5, GoesOutside DEF Unlocked, StepOf
  <1> QED BY <1>3, <1>4, <1>5 DEF BeginNew

\* Without the lock, the insertion is a step of its own.
LEMMA UnlockedInsertIs ==
  ASSUME Inv, NEW c \in Callers, UnlockedInsert(c)
  PROVE  StepOf(c) /\ Around
  <1>1. Around
    BY CallFacts DEF UnlockedInsert, Around, Fixed
  <1>2. ~AtWork(c) /\ provider = "feishu"
    BY CallFacts DEF UnlockedInsert, AtWork, Quiet, CallInv
  <1>3. CASE /\ HasRoom \/ At(KeyOf(call[c])) # {}
             /\ Insert(c) /\ Go(c, "fresh") /\ UNCHANGED wire
    <2>1. Enter(c)
      BY <1>2, <1>3, InsertIs DEF UnlockedInsert
    <2> QED BY <1>1, <2>1 DEF StepOf
  <1>4. CASE Tell(c, "escaped", FALSE) /\ UNCHANGED <<ledger, forgotten>>
    BY <1>1, <1>2, <1>4, AnsweredOutside DEF UnlockedInsert, StepOf
  <1> QED BY <1>3, <1>4 DEF UnlockedInsert

\* The field is read again before it is written.
LEMMA ReadFreshIs ==
  ASSUME Inv, NEW c \in Callers, ReadFresh(c)
  PROVE  StepOf(c) /\ Around
  <1>1. AtWork(c) /\ call[c].pc = "fresh" /\ call[c].pc \notin Sent
    BY DEF ReadFresh, AtWork, Quiet, Sent
  <1>2. \A a, b : Truthful(c, a, b)
    BY <1>1 DEF Truthful
  <1>3. CASE Go(c, "send") /\ OnlyPc
    <2>1. Proceed(c)
      BY <1>1, <1>3 DEF ReadFresh, Proceed, OnlyPc, Pc, Quiet, Sent
    <2> QED BY <1>3, <2>1, CallFacts DEF ReadFresh, OnlyPc, Fixed, Around, StepOf
  <1>4. CASE Settle(c, "failed", "not_started", FALSE)
    <2>1. Leave(c)
      BY <1>1, <1>2, <1>4, Settles DEF ReadFresh, Answer
    <2> QED BY <1>4, <2>1, CallFacts DEF ReadFresh, Settle, Fixed, Around, StepOf
  <1>5. CASE Abandon(c, FALSE)
    <2>1. GiveUp(c)
      BY <1>1, <1>2, <1>5 DEF ReadFresh, Abandon, GiveUp
    <2> QED BY <1>5, <2>1, CallFacts DEF ReadFresh, Abandon, Fixed, Around, StepOf
  <1> QED BY <1>3, <1>4, <1>5 DEF ReadFresh

\* An acknowledged write is read back, an acknowledged recalculation is done.
LEMMA AcknowledgedIs ==
  ASSUME Inv, NEW c \in Callers, Acknowledged(c)
  PROVE  StepOf(c) /\ Around
  <1>1. AtWork(c)
    BY DEF Acknowledged, AtWork, Quiet
  <1>2. CASE call[c].op = "set" /\ Go(c, "readback") /\ OnlyPc
    <2>1. Proceed(c)
      BY <1>1, <1>2 DEF Acknowledged, Proceed, OnlyPc, Pc, Quiet, Sent
    <2> QED BY <1>2, <2>1, CallFacts DEF Acknowledged, OnlyPc, Fixed, Around, StepOf
  <1>3. CASE Succeed(c)
    <2>1. Leave(c) /\ cells' \in Formulas /\ observed' \in Formulas
      BY <1>1, <1>3, Succeeds DEF Acknowledged
    <2> QED BY <2>1, CallFacts DEF Acknowledged, Fixed, Around, StepOf
  <1> QED BY <1>2, <1>3 DEF Acknowledged

\* Any other outcome of the request.
LEMMA NotAcknowledgedIs ==
  ASSUME Inv, NEW c \in Callers, NotAcknowledged(c)
  PROVE  StepOf(c) /\ Around
  <1>1. call[c].pc \in Sent /\ UNCHANGED <<forgotten, bound, provider>>
    BY DEF NotAcknowledged, Sent, Fixed
  <1>2. PICK o \in {"lost", "unreadable", "partial", "refused", "undispatched"} :
          /\ Learn(c, o)
          /\ o \in {"refused", "undispatched"} => wire[call[c].req].state = "void"
    BY Zenon DEF NotAcknowledged
  <1> QED BY <1>1, <1>2, Learns

\* One read settles a lost acknowledgement.
LEMMA ReconcileIs ==
  ASSUME Inv, NEW c \in Callers, Reconcile(c)
  PROVE  StepOf(c) /\ Around
  <1>1. AtWork(c)
    BY DEF Reconcile, AtWork, Quiet
  <1>2. CASE Succeed(c)
    <2>1. Leave(c) /\ cells' \in Formulas /\ observed' \in Formulas
      BY <1>1, <1>2, Succeeds DEF Reconcile
    <2> QED BY <2>1, CallFacts DEF Reconcile, Fixed, Around, StepOf
  <1>3. CASE Settle(c, "unknown", "unknown", FALSE)
    <2>1. Truthful(c, "unknown", FALSE)
      BY DEF Truthful
    <2>2. Leave(c)
      BY <1>1, <1>3, <2>1, Settles DEF Reconcile, Answer
    <2> QED BY <1>3, <2>2, CallFacts DEF Reconcile, Settle, Fixed, Around, StepOf
  <1> QED BY <1>2, <1>3 DEF Reconcile

\* The readback.
LEMMA ReadBackIs ==
  ASSUME Inv, NEW c \in Callers, ReadBack(c)
  PROVE  StepOf(c) /\ Around
  <1>1. AtWork(c) /\ call[c].pc \in Sent /\ call[c].op = "set"
    BY CallFacts DEF ReadBack, AtWork, Quiet, Sent, CallInv
  <1>2. UNCHANGED <<forgotten, bound, provider>>
    BY DEF ReadBack, Fixed
  <1>3. CASE Succeed(c)
    <2>1. Leave(c) /\ cells' \in Formulas /\ observed' \in Formulas
      BY <1>1, <1>2, <1>3, Succeeds
    <2> QED BY <1>2, <2>1, CallFacts DEF Around, StepOf
  <1>4. ASSUME NEW o \in {"differs", "unread", "denied", "gone"}, Learn(c, o)
        PROVE  StepOf(c) /\ Around
    BY <1>1, <1>2, <1>4, Learns
  <1> QED BY <1>3, <1>4 DEF ReadBack

\* Every step of the specification is of one of the kinds.
LEMMA Kinds ==
  ASSUME Inv, Next
  PROVE  /\ Around
         /\ \/ \E c \in Callers : StepOf(c)
            \/ \E i \in DOMAIN wire : Fate(i)
            \/ Elsewhere
  <1>1. ASSUME NEW c \in Callers, CallStep(c) PROVE StepOf(c) /\ Around
    <2>1. CASE Start(c) BY <2>1, StartIs
    <2>2. CASE ReadBefore(c) BY <2>2, ReadBeforeIs
    <2>3. CASE Begin(c) BY <2>3, BeginKnownIs, BeginNewIs DEF Begin
    <2>4. CASE UnlockedInsert(c) BY <2>4, UnlockedInsertIs
    <2>5. CASE ReadFresh(c) BY <2>5, ReadFreshIs
    <2>6. CASE Send(c) BY <2>6, CallFacts DEF Send, Fixed, Around, StepOf
    <2>7. CASE Acknowledged(c) BY <2>7, AcknowledgedIs
    <2>8. CASE NotAcknowledged(c) BY <2>8, NotAcknowledgedIs
    <2>9. CASE Reconcile(c) BY <2>9, ReconcileIs
    <2>10. CASE ReadBack(c) BY <2>10, ReadBackIs
    <2> QED BY <1>1, <2>1, <2>2, <2>3, <2>4, <2>5, <2>6, <2>7, <2>8, <2>9, <2>10 DEF CallStep
  <1>2. ASSUME NEW i \in DOMAIN wire, Land(i) PROVE Fate(i) /\ Around
    <2>1. Fate(i)
      BY <1>2 DEF Land, Fate
    <2>2. cells' \in Formulas
      <3>1. wire \in Seq(Request) /\ cells \in Formulas
        BY DEF Inv, Types
      <3>2. wire[i] \in Request
        BY <3>1, LenProperties, ElementOfSeq
      <3>3. wire[i].formula \in Formulas \/ wire[i].key[1] = "recalculate"
        BY <3>2 DEF Inv, WireInv, Request, Text
      <3> QED BY <1>2, <3>1, <3>3 DEF Land
    <2> QED BY <1>2, <2>1, <2>2 DEF Land, Fixed, Around, Inv, Types
  <1>3. ASSUME NEW i \in DOMAIN wire, Drop(i) PROVE Fate(i) /\ Around
    BY <1>3 DEF Drop, Fate, Fixed, Around, Inv, Types
  <1>4. CASE Foreign
    BY <1>4 DEF Foreign, Elsewhere, Around, Inv, Types
  <1>5. CASE Bind
    BY <1>5 DEF Bind, Elsewhere, Around, Inv, Types
  <1> QED BY <1>1, <1>2, <1>3, <1>4, <1>5 DEF Next

-----------------------------------------------------------------------------
(* Every kind of step keeps the invariant.                                 *)

\* One call changes.
LEMMA OneCall ==
  ASSUME Inv, NEW c \in Callers, NEW k \in Call, call' = [call EXCEPT ![c] = k]
  PROVE  /\ call' \in [Callers -> Call] /\ call'[c] = k
         /\ \A d \in Callers : d # c => call'[d] = call[d]
  BY DEF Inv, Types

\* One call goes to another place.
LEMMA OneGoes ==
  ASSUME Inv, NEW c \in Callers, NEW pc \in Pc, Go(c, pc)
  PROVE  /\ call' \in [Callers -> Call]
         /\ call'[c] = [call[c] EXCEPT !.pc = pc]
         /\ call'[c].pc = pc /\ call'[c].req = call[c].req /\ call'[c].op = call[c].op
         /\ call'[c].formula = call[c].formula /\ KeyOf(call'[c]) = KeyOf(call[c])
         /\ \A d \in Callers : d # c => call'[d] = call[d]
  <1> DEFINE k == [call[c] EXCEPT !.pc = pc]
  <1>1. call[c] \in Call
    BY CallFacts
  <1>2. /\ k \in Call /\ k.pc = pc /\ k.req = call[c].req /\ k.op = call[c].op
        /\ k.formula = call[c].formula /\ k.key = call[c].key
    BY <1>1 DEF Call
  <1>3. call' = [call EXCEPT ![c] = k]
    BY DEF Go
  <1> HIDE DEF k
  <1>4. call' \in [Callers -> Call] /\ call'[c] = k /\ \A d \in Callers : d # c => call'[d] = call[d]
    BY <1>2, <1>3, OneCall
  <1> QED BY <1>2, <1>4 DEF KeyOf, k

\* Before a key is held.
LEMMA OutsideKeeps ==
  ASSUME Inv, NEW c \in Callers, Outside(c), Around
  PROVE  Inv'
  <1>1. PICK k \in Call : Waiting(k) /\ call' = [call EXCEPT ![c] = k]
    BY DEF Outside
  <1>2. /\ call' \in [Callers -> Call] /\ call'[c] = k
        /\ \A d \in Callers : d # c => call'[d] = call[d]
    BY <1>1, OneCall
  <1>3. /\ UNCHANGED <<ledger, wire, forgotten, orphaned, provider>>
        /\ ~AtWork(c) /\ k.pc \in Quiet /\ k.req = 0 /\ call[c].req = 0
    BY <1>1, CallFacts DEF Outside, Around, Waiting, AtWork, Quiet, Sent
  <1>4. Types' /\ LedgerInv(ledger)'
    BY <1>2, <1>3 DEF Inv, Types, Around, LedgerInv
  <1>5. ASSUME NEW d \in Callers PROVE CallInv(d)'
    <2>1. CASE d = c
      BY <1>1, <1>2, <1>3, <2>1 DEF CallInv, Waiting, Quiet, Sent
    <2>2. CASE d # c
      BY <1>2, <1>3, <2>2 DEF Inv, CallInv, KeyOf
    <2> QED BY <2>1, <2>2
  <1>6. WireInv'
    BY <1>2, <1>3, LenProperties DEF Inv, Types, WireInv
  <1>7. \A d \in Callers : AtWork(d)' <=> AtWork(d)
    BY <1>2, <1>3 DEF AtWork
  <1>8. \A d \in Callers : AtWork(d) => call'[d] = call[d]
    BY <1>2, <1>3
  <1>9. InFlightIsOwned'
    BY <1>3, <1>7, <1>8 DEF Inv, InFlightIsOwned, AtWork, Quiet, Settling
  <1>10. Exclusive'
    BY <1>3, <1>7, <1>8 DEF Inv, Exclusive
  <1>11. AnswersAreTrue' /\ Remembered' /\ KeyIsSentOnce'
    BY <1>3 DEF Inv, AnswersAreTrue, Remembered, KeyIsSentOnce
  <1> QED BY <1>4, <1>5, <1>6, <1>9, <1>10, <1>11 DEF Inv

\* Taking the key.
LEMMA EnterKeeps ==
  ASSUME Inv, NEW c \in Callers, Enter(c), Around
  PROVE  Inv'
  <1> DEFINE K == KeyOf(call[c])
  <1>1. PICK pc \in {"fresh", "send"} : Go(c, pc)
    BY DEF Enter
  <1>2. /\ call' \in [Callers -> Call]
        /\ call'[c].pc = pc /\ call'[c].req = call[c].req /\ call'[c].op = call[c].op
        /\ call'[c].formula = call[c].formula /\ KeyOf(call'[c]) = K
        /\ \A d \in Callers : d # c => call'[d] = call[d]
    BY <1>1, OneGoes DEF Pc
  <1>3. /\ UNCHANGED <<wire, orphaned, provider>> /\ forgotten \subseteq forgotten'
        /\ ~AtWork(c) /\ call[c].pc # "idle" /\ call[c].req = 0
    BY CallFacts DEF Enter, Around, AtWork, Quiet, Sent
  <1>4. /\ ledger' \in Seq(Entry) /\ LedgerInv(ledger')
        /\ \A n \in ToSet(ledger') :
             IF n.key = K THEN n.state = "in_flight" ELSE n \in ToSet(ledger)
        /\ \E n \in ToSet(ledger') : n.key = K
        /\ \A e \in ToSet(ledger) :
             \/ e.key = K \/ e \in ToSet(ledger')
             \/ e.state \in {"succeeded", "failed"} /\ e.key \in forgotten'
        /\ provider # "feishu" => \A e \in ToSet(ledger) : e.key = K => e.state = "failed"
    BY DEF Enter, Rewritten
  <1> HIDE DEF K
  <1>5. Types' /\ LedgerInv(ledger)'
    BY <1>2, <1>3, <1>4 DEF Inv, Types, Around, LedgerInv
  <1>6. ASSUME NEW d \in Callers PROVE CallInv(d)'
    <2>1. CASE d = c
      BY <1>1, <1>2, <1>3, <2>1 DEF Inv, CallInv, Sent
    <2>2. CASE d # c
      BY <1>2, <1>3, <2>2 DEF Inv, CallInv, KeyOf
    <2> QED BY <2>1, <2>2
  <1>7. WireInv'
    <2>1. \A d \in Callers : call'[d].req = call[d].req
      BY <1>2
    <2> QED BY <1>3, <2>1 DEF Inv, WireInv
  <1>8. /\ AtWork(c)' /\ \A d \in Callers : d # c => (AtWork(d)' <=> AtWork(d))
    BY <1>1, <1>2 DEF AtWork, Quiet
  <1>9. InFlightIsOwned'
    <2> SUFFICES ASSUME NEW e \in ToSet(ledger'), e.state = "in_flight"
                 PROVE  \/ e.key \in orphaned'
                        \/ \E d \in Callers : KeyOf(call'[d]) = e.key /\ AtWork(d)'
      BY DEF InFlightIsOwned, AtWork, Quiet, Settling
    <2>1. CASE e.key = K
      BY <1>2, <1>8, <2>1
    <2>2. CASE e.key # K
      <3>1. e \in ToSet(ledger)
        BY <1>4, <2>2
      <3>2. \/ e.key \in orphaned
            \/ \E d \in Callers : KeyOf(call[d]) = e.key /\ AtWork(d)
        BY <3>1 DEF Inv, InFlightIsOwned, AtWork, Quiet, Settling
      <3> QED BY <1>2, <1>3, <1>8, <3>2
    <2> QED BY <2>1, <2>2
  <1>10. ASSUME provider # "feishu", NEW d \in Callers, AtWork(d)
         PROVE  KeyOf(call[d]) # K
    BY <1>4, <1>10 DEF Inv, Exclusive
  <1>11. Exclusive'
    <2> SUFFICES ASSUME provider # "feishu", NEW d \in Callers, AtWork(d)'
                 PROVE  /\ \E e \in ToSet(ledger') : e.key = KeyOf(call'[d]) /\ e.state = "in_flight"
                        /\ \A b \in Callers : AtWork(b)' /\ KeyOf(call'[b]) = KeyOf(call'[d]) => b = d
      BY <1>3 DEF Exclusive
    <2>1. CASE d = c
      <3>1. \A b \in Callers : AtWork(b)' /\ KeyOf(call'[b]) = K => b = c
        BY <1>2, <1>8, <1>10
      <3> QED BY <1>2, <1>4, <2>1, <3>1
    <2>2. CASE d # c
      <3>1. AtWork(d) /\ call'[d] = call[d] /\ KeyOf(call[d]) # K
        BY <1>2, <1>8, <1>10, <2>2
      <3>2. PICK e \in ToSet(ledger) : e.key = KeyOf(call[d]) /\ e.state = "in_flight"
        BY <3>1 DEF Inv, Exclusive
      <3>3. e \in ToSet(ledger')
        BY <1>4, <3>1, <3>2
      <3>4. \A b \in Callers : AtWork(b)' /\ KeyOf(call'[b]) = KeyOf(call[d]) => b = d
        <4> SUFFICES ASSUME NEW b \in Callers, AtWork(b)', KeyOf(call'[b]) = KeyOf(call[d])
                     PROVE  b = d
          OBVIOUS
        <4>1. b # c
          BY <1>2, <3>1
        <4> QED BY <1>2, <1>8, <3>1, <4>1 DEF Inv, Exclusive
      <3> QED BY <3>1, <3>2, <3>3, <3>4
    <2> QED BY <2>1, <2>2
  <1>12. AnswersAreTrue' /\ KeyIsSentOnce'
    BY <1>3 DEF Inv, AnswersAreTrue, KeyIsSentOnce
  <1>13. Remembered'
    <2> SUFFICES ASSUME provider # "feishu", NEW i \in DOMAIN wire,
                        wire[i].state # "void", ~wire[i].blind, wire[i].told # "pending",
                        wire[i].key \notin forgotten'
                 PROVE  \E e \in ToSet(ledger') :
                          e.key = wire[i].key /\ e.state \in {"succeeded", "unknown"}
      BY <1>3 DEF Remembered
    <2>1. PICK e \in ToSet(ledger) : e.key = wire[i].key /\ e.state \in {"succeeded", "unknown"}
      BY <1>3 DEF Inv, Remembered
    <2>2. e \in ToSet(ledger')
      BY <1>4, <2>1
    <2> QED BY <2>1, <2>2
  <1> QED BY <1>5, <1>6, <1>7, <1>9, <1>11, <1>12, <1>13 DEF Inv

\* Going on with the key.
LEMMA ProceedKeeps ==
  ASSUME Inv, NEW c \in Callers, Proceed(c), Around
  PROVE  Inv'
  <1>1. PICK pc \in Pc \ Quiet : /\ Go(c, pc)
                                 /\ pc \in Sent <=> call[c].pc \in Sent
                                 /\ pc = "readback" => call[c].op = "set"
    BY DEF Proceed
  <1>2. /\ call' \in [Callers -> Call]
        /\ call'[c].pc = pc /\ call'[c].req = call[c].req /\ call'[c].op = call[c].op
        /\ call'[c].formula = call[c].formula /\ KeyOf(call'[c]) = KeyOf(call[c])
        /\ \A d \in Callers : d # c => call'[d] = call[d]
    BY <1>1, OneGoes
  <1>3. /\ UNCHANGED <<ledger, wire, forgotten, orphaned, provider>>
        /\ AtWork(c) /\ call[c].pc # "idle"
    BY DEF Proceed, Around, AtWork, Quiet
  <1>4. Types' /\ LedgerInv(ledger)'
    BY <1>2, <1>3 DEF Inv, Types, Around, LedgerInv
  <1>5. ASSUME NEW d \in Callers PROVE CallInv(d)'
    <2>1. CASE d = c
      BY <1>1, <1>2, <1>3, <2>1 DEF Inv, CallInv, Quiet
    <2>2. CASE d # c
      BY <1>2, <1>3, <2>2 DEF Inv, CallInv, KeyOf
    <2> QED BY <2>1, <2>2
  <1>6. \A d \in Callers : /\ call'[d].req = call[d].req /\ KeyOf(call'[d]) = KeyOf(call[d])
                           /\ AtWork(d)' <=> AtWork(d)
    BY <1>1, <1>2, <1>3 DEF AtWork
  <1>7. WireInv'
    BY <1>3, <1>6 DEF Inv, WireInv
  <1>8. InFlightIsOwned'
    BY <1>3, <1>6 DEF Inv, InFlightIsOwned, AtWork, Quiet, Settling
  <1>9. Exclusive'
    BY <1>3, <1>6 DEF Inv, Exclusive
  <1>10. AnswersAreTrue' /\ Remembered' /\ KeyIsSentOnce'
    BY <1>3 DEF Inv, AnswersAreTrue, Remembered, KeyIsSentOnce
  <1> QED BY <1>4, <1>5, <1>7, <1>8, <1>9, <1>10 DEF Inv

\* Dispatching the request: no other request of its key may have taken effect.
LEMMA SendKeeps ==
  ASSUME Inv, NEW c \in Callers, Send(c), Around
  PROVE  Inv'
  <1> DEFINE K == KeyOf(call[c])
             r == [key |-> K, formula |-> call[c].formula, expected |-> call[c].expected,
                   state |-> "flying", told |-> "pending", blind |-> FALSE]
             n == Len(wire) + 1
             k == [call[c] EXCEPT !.pc = "wait", !.req = n]
  <1>0. UNCHANGED <<ledger, forgotten, orphaned, provider>>
    BY DEF Send, Fixed
  <1>1. /\ call[c].pc = "send" /\ wire' = Append(wire, r)
        /\ call' = [call EXCEPT ![c].pc = "wait", ![c].req = n]
        /\ UNCHANGED <<ledger, forgotten, orphaned, provider>>
    BY DEF Send, Fixed
  <1>2. /\ call[c] \in Call /\ call[c].req = 0 /\ K \in EntryKey /\ AtWork(c)
        /\ call[c].formula = None <=> call[c].op = "recalculate"
    BY <1>1, CallFacts DEF CallInv, Sent, AtWork, Quiet
  <1>3. r \in Request /\ r.key = K /\ r.told = "pending" /\ r.blind = FALSE
        /\ r.formula = call[c].formula /\ K[1] = call[c].op /\ r.state = "flying"
    BY <1>2 DEF Request, Call, KeyOf
  <1>4. wire \in Seq(Request) /\ Len(wire) \in Nat /\ DOMAIN wire = 1 .. Len(wire)
    BY LenProperties DEF Inv, Types
  <1>5. /\ k \in Call /\ k.pc = "wait" /\ k.req = n /\ k.op = call[c].op
        /\ k.formula = call[c].formula /\ k.key = call[c].key
    <2>1. n \in Nat
      BY <1>4
    <2> HIDE DEF n
    <2>2. "wait" \in Pc
      BY DEF Pc, Sent
    <2> QED BY <1>2, <2>1, <2>2 DEF Call
  <1>6. call' = [call EXCEPT ![c] = k]
    BY <1>1
  <1> HIDE DEF r, k
  <1>7. /\ wire' \in Seq(Request) /\ Len(wire') = n
        /\ \A i \in 1 .. Len(wire) : wire'[i] = wire[i]
        /\ wire'[n] = r
    BY <1>1, <1>3, <1>4, AppendProperties
  <1>8. DOMAIN wire' = 1 .. n
    BY <1>7, LenProperties
  <1>9. /\ \A i \in 1 .. n : i \in 1 .. Len(wire) \/ i = n
        /\ \A i \in 1 .. Len(wire) : i \in 1 .. n /\ i # n /\ i # 0
        /\ n \in 1 .. n /\ n # 0
    BY <1>4
  <1> HIDE DEF n
  <1>10. /\ call' \in [Callers -> Call] /\ call'[c] = k
         /\ \A d \in Callers : d # c => call'[d] = call[d]
    BY <1>5, <1>6, OneCall
  <1>11. KeyOf(call'[c]) = K
    BY <1>5, <1>10 DEF KeyOf
  <1> HIDE DEF K
  <1>12. Types' /\ LedgerInv(ledger)'
    BY <1>1, <1>7, <1>10 DEF Inv, Types, Around, LedgerInv
  <1>13. \A d \in Callers : call[d].req \in 1 .. Len(wire) \/ call[d].req = 0
    BY <1>4 DEF Inv, CallInv
  <1>14. ASSUME NEW d \in Callers PROVE CallInv(d)'
    <2>1. CASE d = c
      BY <1>2, <1>3, <1>5, <1>7, <1>8, <1>9, <1>10, <1>11, <2>1 DEF CallInv, Sent
    <2>2. CASE d # c
      <3>1. call[d].pc \in Sent => /\ wire'[call[d].req] = wire[call[d].req]
                                   /\ call[d].req \in DOMAIN wire'
        BY <1>4, <1>7, <1>8, <1>9 DEF Inv, CallInv
      <3> QED BY <1>1, <1>10, <2>2, <3>1 DEF Inv, CallInv, KeyOf
    <2> QED BY <2>1, <2>2
  <1>15. WireInv'
    <2>1. \A d, b \in Callers : call'[d].req = call'[b].req /\ call'[d].req # 0 => d = b
      <3> SUFFICES ASSUME NEW d \in Callers, NEW b \in Callers,
                          call'[d].req = call'[b].req, call'[d].req # 0
                   PROVE  d = b
        OBVIOUS
      <3>1. CASE d = c \/ b = c
        BY <1>5, <1>9, <1>10, <1>13, <3>1
      <3>2. CASE d # c /\ b # c
        BY <1>10, <3>2 DEF Inv, WireInv
      <3> QED BY <3>1, <3>2
    <2>2. ASSUME NEW i \in 1 .. n
          PROVE  /\ wire'[i].told = "pending" =>
                      ~wire'[i].blind /\ \E d \in Callers : call'[d].req = i
                 /\ wire'[i].formula = None <=> wire'[i].key[1] = "recalculate"
      <3>1. CASE i = n
        BY <1>2, <1>3, <1>5, <1>7, <1>10, <3>1
      <3>2. CASE i \in 1 .. Len(wire)
        <4>1. wire'[i] = wire[i] /\ i \in DOMAIN wire
          BY <1>4, <1>7, <3>2
        <4>2. ASSUME wire[i].told = "pending"
              PROVE  ~wire[i].blind /\ \E d \in Callers : call'[d].req = i
          <5>1. PICK d \in Callers : call[d].req = i
            BY <4>1, <4>2 DEF Inv, WireInv
          <5>2. d # c
            BY <1>2, <1>9, <3>2, <5>1
          <5> QED BY <1>10, <4>1, <4>2, <5>1, <5>2 DEF Inv, WireInv
        <4>3. wire[i].formula = None <=> wire[i].key[1] = "recalculate"
          BY <4>1 DEF Inv, WireInv
        <4> QED BY <4>1, <4>2, <4>3
      <3> QED BY <1>9, <3>1, <3>2
    <2> QED BY <1>8, <2>1, <2>2 DEF WireInv
  <1>16. \A d \in Callers : (AtWork(d)' <=> AtWork(d)) /\ KeyOf(call'[d]) = KeyOf(call[d])
    BY <1>2, <1>5, <1>10, <1>11 DEF AtWork, Quiet, K
  <1>17. InFlightIsOwned'
    BY <1>0, <1>16 DEF Inv, InFlightIsOwned, AtWork, Quiet, Settling
  <1>18. Exclusive'
    BY <1>0, <1>16 DEF Inv, Exclusive
  <1>19. AnswersAreTrue'
    <2> SUFFICES ASSUME NEW i \in 1 .. n, wire'[i].told \in {"not_started", "not_committed"},
                        ~wire'[i].blind
                 PROVE  wire'[i].state = "void"
      BY <1>8 DEF AnswersAreTrue
    <2>1. i \in 1 .. Len(wire)
      BY <1>3, <1>7, <1>9
    <2> QED BY <1>4, <1>7, <2>1 DEF Inv, AnswersAreTrue
  <1>20. Remembered'
    <2> SUFFICES ASSUME provider # "feishu", NEW i \in 1 .. n, wire'[i].state # "void",
                        ~wire'[i].blind, wire'[i].told # "pending", wire'[i].key \notin forgotten
                 PROVE  \E e \in ToSet(ledger) :
                          e.key = wire'[i].key /\ e.state \in {"succeeded", "unknown"}
      BY <1>1, <1>8 DEF Remembered
    <2>1. i \in 1 .. Len(wire)
      BY <1>3, <1>7, <1>9
    <2> QED BY <1>4, <1>7, <2>1 DEF Inv, Remembered
  <1>21. KeyIsSentOnce'
    <2> SUFFICES ASSUME NEW i \in 1 .. n, NEW j \in 1 .. n, i < j, wire'[i].key = wire'[j].key,
                        wire'[i].state # "void", wire'[j].state # "void",
                        wire'[i].key \notin forgotten, ~wire'[i].blind, provider # "feishu"
                 PROVE  FALSE
      BY <1>1, <1>8 DEF KeyIsSentOnce
    <2>1. i \in 1 .. Len(wire)
      BY <1>4 DEF n
    <2>2. wire'[i] = wire[i] /\ i \in DOMAIN wire
      BY <1>4, <1>7, <2>1
    <2>3. CASE j \in 1 .. Len(wire)
      <3>1. wire'[j] = wire[j] /\ j \in DOMAIN wire
        BY <1>4, <1>7, <2>3
      <3> QED BY <2>2, <3>1 DEF Inv, KeyIsSentOnce
    <2>4. CASE j = n
      <3>1. wire[i].key = K
        BY <1>3, <1>7, <2>2, <2>4
      <3>2. PICK e \in ToSet(ledger) : e.key = K /\ e.state = "in_flight"
        BY <1>2 DEF Inv, Exclusive, K
      <3>3. CASE wire[i].told = "pending"
        <4>1. PICK d \in Callers : call[d].req = i
          BY <2>2, <3>3 DEF Inv, WireInv
        <4>2. call[d].pc \in Sent /\ KeyOf(call[d]) = K
          BY <1>9, <2>1, <3>1, <4>1 DEF Inv, CallInv
        <4>3. AtWork(d)
          BY <4>2 DEF AtWork, Sent, Quiet
        <4>4. d = c
          BY <1>2, <4>2, <4>3 DEF Inv, Exclusive, K
        <4> QED BY <1>2, <1>9, <2>1, <4>1, <4>4
      <3>4. CASE wire[i].told # "pending"
        <4>1. PICK f \in ToSet(ledger) : f.key = K /\ f.state \in {"succeeded", "unknown"}
          BY <2>2, <3>1, <3>4 DEF Inv, Remembered
        <4>2. e = f
          BY <3>2, <4>1, CallFacts, OneEntry
        <4> QED BY <3>2, <4>1, <4>2
      <3> QED BY <3>3, <3>4
    <2> QED BY <1>9, <2>3, <2>4
  <1> QED BY <1>12, <1>14, <1>15, <1>17, <1>18, <1>19, <1>20, <1>21 DEF Inv

\* What an answer leaves of the requests.
LEMMA ToldKeeps ==
  ASSUME Inv, NEW c \in Callers, NEW a \in Answer, NEW b \in BOOLEAN, Tell(c, a, b),
         Truthful(c, a, b), provider' = provider
  PROVE  /\ call' \in [Callers -> Call] /\ call'[c] = Idle
         /\ \A d \in Callers : d # c => call'[d] = call[d]
         /\ wire' \in Seq(Request) /\ DOMAIN wire' = DOMAIN wire
         /\ \A i \in DOMAIN wire :
              /\ wire'[i].key = wire[i].key /\ wire'[i].state = wire[i].state
              /\ i # call[c].req => wire'[i] = wire[i]
         /\ call[c].req # 0 => wire'[call[c].req].told = a /\ wire'[call[c].req].blind = b
         /\ \A d \in Callers : CallInv(d)'
         /\ WireInv'
         /\ AnswersAreTrue'
  <1> DEFINE r == call[c].req
             w == [wire[r] EXCEPT !.told = a, !.blind = b]
  <1>1. Idle \in Call /\ Idle.req = 0 /\ Idle.pc = "idle"
    BY DEF Idle, Call, Pc, Quiet, Op, Text
  <1>2. /\ call' \in [Callers -> Call] /\ call'[c] = Idle
        /\ \A d \in Callers : d # c => call'[d] = call[d]
    BY <1>1, OneCall DEF Tell
  <1>3. /\ wire \in Seq(Request) /\ Len(wire) \in Nat /\ DOMAIN wire = 1 .. Len(wire)
        /\ \A i \in DOMAIN wire : wire[i] \in Request
    BY LenProperties, ElementOfSeq DEF Inv, Types
  <1>4. IF r = 0 THEN call[c].pc \notin Sent
        ELSE /\ call[c].pc \in Sent /\ r \in DOMAIN wire
             /\ wire[r].key = KeyOf(call[c]) /\ wire[r].told = "pending"
    BY <1>3, CallFacts DEF CallInv
  <1>5. wire' = IF r = 0 THEN wire ELSE [wire EXCEPT ![r] = w]
    BY DEF Tell
  <1>6. r # 0 => /\ w \in Request /\ w.key = wire[r].key /\ w.state = wire[r].state
                 /\ w.formula = wire[r].formula /\ w.told = a /\ w.blind = b
    <2> SUFFICES ASSUME r # 0
                 PROVE  /\ w \in Request /\ w.key = wire[r].key /\ w.state = wire[r].state
                        /\ w.formula = wire[r].formula /\ w.told = a /\ w.blind = b
      OBVIOUS
    <2>1. wire[r] \in Request
      BY <1>3, <1>4
    <2> HIDE DEF r
    <2>2. a \in Answer \cup {"pending"}
      OBVIOUS
    <2> QED BY <2>1, <2>2 DEF Request
  <1> HIDE DEF w
  <1>7. /\ wire' \in Seq(Request) /\ DOMAIN wire' = DOMAIN wire
        /\ r # 0 => wire'[r] = w
        /\ \A i \in DOMAIN wire : i # r => wire'[i] = wire[i]
    <2>1. CASE r = 0
      BY <1>3, <1>5, <2>1
    <2>2. CASE r # 0
      <3>1. /\ [wire EXCEPT ![r] = w] \in Seq(Request)
            /\ \A i \in 1 .. Len(wire) : [wire EXCEPT ![r] = w][i] = IF i = r THEN w ELSE wire[i]
        BY <1>3, <1>4, <1>6, <2>2, ExceptSeq
      <3>2. DOMAIN wire' = DOMAIN wire
        BY <1>5, <2>2
      <3> QED BY <1>3, <1>4, <1>5, <2>2, <3>1, <3>2
    <2> QED BY <2>1, <2>2
  <1>8. \A i \in DOMAIN wire : /\ wire'[i].key = wire[i].key /\ wire'[i].state = wire[i].state
                               /\ wire'[i].formula = wire[i].formula
    <2> SUFFICES ASSUME NEW i \in DOMAIN wire
                 PROVE  /\ wire'[i].key = wire[i].key /\ wire'[i].state = wire[i].state
                        /\ wire'[i].formula = wire[i].formula
      OBVIOUS
    <2>1. CASE i = r
      BY <1>3, <1>6, <1>7, <2>1
    <2>2. CASE i # r
      BY <1>7, <2>2
    <2> QED BY <2>1, <2>2
  <1>9. a # "pending"
    BY DEF Answer
  <1> HIDE DEF r
  <1>10. ASSUME NEW d \in Callers PROVE CallInv(d)'
    <2>1. CASE d = c
      BY <1>1, <1>2, <2>1 DEF CallInv, Sent
    <2>2. CASE d # c
      <3>1. call[d].pc \in Sent => call[d].req \in DOMAIN wire /\ call[d].req # 0
        BY <1>3 DEF Inv, CallInv
      <3>2. call[d].pc \in Sent => call[d].req # r
        BY <2>2, <3>1 DEF Inv, WireInv, r
      <3>3. call[d].pc \in Sent => wire'[call[d].req] = wire[call[d].req]
        BY <1>7, <3>1, <3>2
      <3> QED BY <1>2, <1>7, <2>2, <3>1, <3>3 DEF Inv, CallInv, KeyOf
    <2> QED BY <2>1, <2>2
  <1>11. WireInv'
    <2>1. \A d, e \in Callers : call'[d].req = call'[e].req /\ call'[d].req # 0 => d = e
      BY <1>1, <1>2 DEF Inv, WireInv
    <2>2. ASSUME NEW i \in DOMAIN wire, wire'[i].told = "pending"
          PROVE  ~wire'[i].blind /\ \E d \in Callers : call'[d].req = i
      <3>1. i # r /\ wire'[i] = wire[i]
        BY <1>3, <1>6, <1>7, <1>9, <2>2
      <3>2. PICK d \in Callers : call[d].req = i
        BY <2>2, <3>1 DEF Inv, WireInv
      <3>3. d # c
        BY <3>1, <3>2 DEF r
      <3> QED BY <1>2, <2>2, <3>1, <3>2, <3>3 DEF Inv, WireInv
    <2> QED BY <1>7, <1>8, <2>1, <2>2 DEF Inv, WireInv
  <1>12. AnswersAreTrue'
    <2> SUFFICES ASSUME NEW i \in DOMAIN wire, wire'[i].told \in {"not_started", "not_committed"},
                        ~wire'[i].blind
                 PROVE  wire'[i].state = "void"
      BY <1>7 DEF AnswersAreTrue
    <2>1. CASE i = r
      <3>1. a \in {"not_started", "not_committed"} /\ ~b /\ call[c].pc \in Sent
        BY <1>3, <1>4, <1>6, <1>7, <2>1
      <3> QED BY <1>8, <2>1, <3>1 DEF Truthful, r
    <2>2. CASE i # r
      BY <1>7, <2>2 DEF Inv, AnswersAreTrue
    <2> QED BY <2>1, <2>2
  <1> QED BY <1>2, <1>3, <1>6, <1>7, <1>8, <1>10, <1>11, <1>12 DEF r

\* An answer cannot make a second request of a key the first.
LEMMA SentOnceKept ==
  ASSUME Inv, NEW c \in Callers, NEW a \in Answer, NEW b \in BOOLEAN, Tell(c, a, b),
         Truthful(c, a, b), UNCHANGED <<provider, forgotten>>
  PROVE  KeyIsSentOnce'
  <1>1. /\ DOMAIN wire' = DOMAIN wire
        /\ \A i \in DOMAIN wire :
             /\ wire'[i].key = wire[i].key /\ wire'[i].state = wire[i].state
             /\ i # call[c].req => wire'[i] = wire[i]
    BY ToldKeeps
  <1>2. \A i \in DOMAIN wire : wire[i].blind => i # call[c].req
    <2>1. DOMAIN wire = 1 .. Len(wire) /\ Len(wire) \in Nat
      BY LenProperties DEF Inv, Types
    <2>2. call[c].req \in DOMAIN wire => wire[call[c].req].told = "pending"
      BY <2>1, CallFacts DEF CallInv
    <2> QED BY <2>2 DEF Inv, WireInv
  <1> SUFFICES ASSUME NEW i \in DOMAIN wire, NEW j \in DOMAIN wire, i < j,
                      wire'[i].key = wire'[j].key,
                      wire'[i].state # "void", wire'[j].state # "void"
               PROVE  wire'[i].key \in forgotten \/ wire'[i].blind \/ provider = "feishu"
    BY <1>1 DEF KeyIsSentOnce
  <1>3. wire[i].key \in forgotten \/ wire[i].blind \/ provider = "feishu"
    BY <1>1 DEF Inv, KeyIsSentOnce
  <1>4. wire[i].blind => wire'[i].blind
    BY <1>1, <1>2
  <1> QED BY <1>1, <1>3, <1>4

\* Settling the key.
LEMMA LeaveKeeps ==
  ASSUME Inv, NEW c \in Callers, Leave(c), Around
  PROVE  Inv'
  <1> DEFINE K == KeyOf(call[c])
  <1>1. PICK a \in Answer, b \in BOOLEAN, s \in {"failed", "unknown", "succeeded"} :
          /\ Tell(c, a, b) /\ Truthful(c, a, b)
          /\ Rewritten(ledger, ledger', K, s)
          /\ s = "failed" => Truthful(c, "not_started", b)
    BY DEF Leave
  <1>2. /\ UNCHANGED <<provider, forgotten, orphaned>> /\ AtWork(c)
        /\ \A e \in ToSet(ledger) :
             \E n \in ToSet(ledger') : n.key = e.key /\ (e.key # K => n = e)
    BY DEF Leave, Around
  <1>3. /\ call' \in [Callers -> Call] /\ call'[c] = Idle
        /\ \A d \in Callers : d # c => call'[d] = call[d]
        /\ wire' \in Seq(Request) /\ DOMAIN wire' = DOMAIN wire
        /\ \A i \in DOMAIN wire :
             /\ wire'[i].key = wire[i].key /\ wire'[i].state = wire[i].state
             /\ i # call[c].req => wire'[i] = wire[i]
        /\ call[c].req # 0 => wire'[call[c].req].told = a /\ wire'[call[c].req].blind = b
        /\ \A d \in Callers : CallInv(d)'
        /\ WireInv' /\ AnswersAreTrue'
    BY <1>1, <1>2, ToldKeeps
  <1>4. /\ ledger' \in Seq(Entry) /\ LedgerInv(ledger')
        /\ \A n \in ToSet(ledger') : IF n.key = K THEN n.state = s ELSE n \in ToSet(ledger)
    BY <1>1 DEF Rewritten
  <1>5. Types' /\ LedgerInv(ledger)'
    BY <1>2, <1>3, <1>4 DEF Inv, Types, Around, LedgerInv
  <1>6. /\ ~AtWork(c)' /\ \A d \in Callers : d # c => (AtWork(d)' <=> AtWork(d))
    BY <1>3 DEF AtWork, Idle, Quiet
  <1>7. InFlightIsOwned'
    <2> SUFFICES ASSUME NEW e \in ToSet(ledger'), e.state = "in_flight"
                 PROVE  \/ e.key \in orphaned
                        \/ \E d \in Callers : KeyOf(call'[d]) = e.key /\ AtWork(d)'
      BY <1>2 DEF InFlightIsOwned, AtWork, Quiet, Settling
    <2>1. e.key # K /\ e \in ToSet(ledger)
      BY <1>4
    <2>2. \/ e.key \in orphaned
          \/ \E d \in Callers : KeyOf(call[d]) = e.key /\ AtWork(d)
      BY <2>1 DEF Inv, InFlightIsOwned, AtWork, Quiet, Settling
    <2> QED BY <1>3, <1>6, <2>1, <2>2
  <1>8. ASSUME provider # "feishu"
        PROVE  \E e \in ToSet(ledger) : e.key = K /\ e.state = "in_flight"
    BY <1>2, <1>8 DEF Inv, Exclusive
  <1>9. Exclusive'
    <2> SUFFICES ASSUME provider # "feishu", NEW d \in Callers, AtWork(d)'
                 PROVE  /\ \E e \in ToSet(ledger') : e.key = KeyOf(call'[d]) /\ e.state = "in_flight"
                        /\ \A b2 \in Callers : AtWork(b2)' /\ KeyOf(call'[b2]) = KeyOf(call'[d]) => b2 = d
      BY <1>2 DEF Exclusive
    <2>1. d # c /\ AtWork(d) /\ call'[d] = call[d]
      BY <1>3, <1>6
    <2>2. KeyOf(call[d]) # K
      BY <1>2, <2>1 DEF Inv, Exclusive
    <2>3. PICK e \in ToSet(ledger) : e.key = KeyOf(call[d]) /\ e.state = "in_flight"
      BY <2>1 DEF Inv, Exclusive
    <2>4. e \in ToSet(ledger')
      BY <1>2, <2>2, <2>3
    <2>5. \A b2 \in Callers : AtWork(b2)' /\ KeyOf(call'[b2]) = KeyOf(call[d]) => b2 = d
      BY <1>3, <1>6, <2>1 DEF Inv, Exclusive
    <2> QED BY <2>1, <2>3, <2>4, <2>5
  <1>10. Remembered'
    <2> SUFFICES ASSUME provider # "feishu", NEW i \in DOMAIN wire,
                        wire'[i].state # "void", ~wire'[i].blind, wire'[i].told # "pending",
                        wire'[i].key \notin forgotten
                 PROVE  \E e \in ToSet(ledger') :
                          e.key = wire[i].key /\ e.state \in {"succeeded", "unknown"}
      BY <1>2, <1>3 DEF Remembered
    <2>1. PICK e \in ToSet(ledger) : e.key = K /\ e.state = "in_flight"
      BY <1>8
    <2>2. CASE i = call[c].req
      <3>1. i \in Nat /\ i # 0
        BY LenProperties DEF Inv, Types
      <3>2. call[c].pc \in Sent /\ wire[i].key = K
        BY <2>2, <3>1, CallFacts DEF CallInv
      <3>3. s # "failed"
        BY <1>1, <1>3, <2>2, <3>1, <3>2 DEF Truthful
      <3>4. PICK n \in ToSet(ledger') : n.key = K
        BY <1>2, <2>1
      <3> QED BY <1>4, <3>2, <3>3, <3>4
    <2>3. CASE i # call[c].req
      <3>1. wire'[i] = wire[i]
        BY <1>3, <2>3
      <3>2. PICK f \in ToSet(ledger) : f.key = wire[i].key /\ f.state \in {"succeeded", "unknown"}
        BY <3>1 DEF Inv, Remembered
      <3>3. f.key # K
        BY <2>1, <3>2, CallFacts, OneEntry
      <3> QED BY <1>2, <3>2, <3>3
    <2> QED BY <2>2, <2>3
  <1>11. KeyIsSentOnce'
    BY <1>1, <1>2, SentOnceKept
  <1> QED BY <1>3, <1>5, <1>7, <1>9, <1>10, <1>11 DEF Inv

\* Leaving the key in flight.
LEMMA GiveUpKeeps ==
  ASSUME Inv, NEW c \in Callers, GiveUp(c), Around
  PROVE  Inv'
  <1> DEFINE a == "not_started"
  <1>1. PICK b \in BOOLEAN : Tell(c, a, b) /\ Truthful(c, a, b)
    BY DEF GiveUp
  <1>2. /\ UNCHANGED <<provider, forgotten, ledger>> /\ AtWork(c) /\ a \in Answer
        /\ orphaned' = orphaned \cup {KeyOf(call[c])}
    BY DEF GiveUp, Around, Answer
  <1>3. /\ call' \in [Callers -> Call] /\ call'[c] = Idle
        /\ \A d \in Callers : d # c => call'[d] = call[d]
        /\ wire' \in Seq(Request) /\ DOMAIN wire' = DOMAIN wire
        /\ \A i \in DOMAIN wire :
             /\ wire'[i].key = wire[i].key /\ wire'[i].state = wire[i].state
             /\ i # call[c].req => wire'[i] = wire[i]
        /\ call[c].req # 0 => wire'[call[c].req].told = a /\ wire'[call[c].req].blind = b
        /\ \A d \in Callers : CallInv(d)'
        /\ WireInv' /\ AnswersAreTrue'
    BY <1>1, <1>2, ToldKeeps
  <1>4. Types' /\ LedgerInv(ledger)'
    BY <1>2, <1>3 DEF Inv, Types, Around, LedgerInv
  <1>5. /\ ~AtWork(c)' /\ \A d \in Callers : d # c => (AtWork(d)' <=> AtWork(d))
    BY <1>3 DEF AtWork, Idle, Quiet
  <1>6. InFlightIsOwned'
    <2> SUFFICES ASSUME NEW e \in ToSet(ledger), e.state = "in_flight"
                 PROVE  \/ e.key \in orphaned'
                        \/ \E d \in Callers : KeyOf(call'[d]) = e.key /\ AtWork(d)'
      BY <1>2 DEF InFlightIsOwned, AtWork, Quiet, Settling
    <2>1. \/ e.key \in orphaned
          \/ \E d \in Callers : KeyOf(call[d]) = e.key /\ AtWork(d)
      BY DEF Inv, InFlightIsOwned, AtWork, Quiet, Settling
    <2> QED BY <1>2, <1>3, <1>5, <2>1
  <1>7. Exclusive'
    BY <1>2, <1>3, <1>5 DEF Inv, Exclusive
  <1>8. Remembered'
    <2> SUFFICES ASSUME provider # "feishu", NEW i \in DOMAIN wire,
                        wire'[i].state # "void", ~wire'[i].blind, wire'[i].told # "pending",
                        wire'[i].key \notin forgotten
                 PROVE  \E e \in ToSet(ledger) :
                          e.key = wire'[i].key /\ e.state \in {"succeeded", "unknown"}
      BY <1>2, <1>3 DEF Remembered
    <2>1. i # call[c].req
      <3> SUFFICES ASSUME i = call[c].req PROVE FALSE
        OBVIOUS
      <3>1. i \in Nat /\ i # 0
        BY LenProperties DEF Inv, Types
      <3>2. call[c].pc \in Sent
        BY <3>1, CallFacts
      <3> QED BY <1>1, <1>3, <3>1, <3>2 DEF Truthful
    <2> QED BY <1>3, <2>1 DEF Inv, Remembered
  <1>9. KeyIsSentOnce'
    BY <1>1, <1>2, SentOnceKept
  <1> QED BY <1>3, <1>4, <1>6, <1>7, <1>8, <1>9 DEF Inv

\* A request takes effect, or never will.
LEMMA FateKeeps ==
  ASSUME Inv, NEW i \in DOMAIN wire, Fate(i), Around
  PROVE  Inv'
  <1>1. PICK s \in {"applied", "void"} : wire' = [wire EXCEPT ![i].state = s]
    BY DEF Fate
  <1>2. wire[i].state = "flying" /\ UNCHANGED <<provider, call, ledger, forgotten, orphaned>>
    BY DEF Fate, Around
  <1> DEFINE w == [wire[i] EXCEPT !.state = s]
  <1>3. /\ wire \in Seq(Request) /\ DOMAIN wire = 1 .. Len(wire)
        /\ wire[i] \in Request
    BY LenProperties, ElementOfSeq DEF Inv, Types
  <1>4. /\ w \in Request /\ w.key = wire[i].key /\ w.formula = wire[i].formula
        /\ w.told = wire[i].told /\ w.blind = wire[i].blind /\ w.state = s
    BY <1>3 DEF Request
  <1>5. wire' = [wire EXCEPT ![i] = w]
    BY <1>1
  <1> HIDE DEF w
  <1>6. wire' \in Seq(Request)
    BY <1>3, <1>4, <1>5, ExceptSeq
  <1>7. /\ DOMAIN wire' = DOMAIN wire
        /\ \A j \in DOMAIN wire :
             /\ wire'[j].key = wire[j].key /\ wire'[j].formula = wire[j].formula
             /\ wire'[j].told = wire[j].told /\ wire'[j].blind = wire[j].blind
             /\ wire'[j].state = "void" \/ wire[j].state # "void"
             /\ wire[j].state = "void" => wire'[j].state = "void"
    BY <1>2, <1>3, <1>4, <1>5
  <1>8. Types' /\ LedgerInv(ledger)'
    BY <1>2, <1>6 DEF Inv, Types, Around, LedgerInv
  <1>9. ASSUME NEW d \in Callers PROVE CallInv(d)'
    BY <1>2, <1>7 DEF Inv, CallInv, KeyOf
  <1>10. WireInv'
    BY <1>2, <1>7 DEF Inv, WireInv
  <1>11. InFlightIsOwned' /\ Exclusive'
    BY <1>2 DEF Inv, InFlightIsOwned, Exclusive, AtWork
  <1>12. AnswersAreTrue'
    BY <1>7 DEF Inv, AnswersAreTrue
  <1>13. Remembered'
    BY <1>2, <1>7 DEF Inv, Remembered
  <1>14. KeyIsSentOnce'
    BY <1>2, <1>7 DEF Inv, KeyIsSentOnce
  <1> QED BY <1>8, <1>9, <1>10, <1>11, <1>12, <1>13, <1>14 DEF Inv

\* Other users and new views.
LEMMA ElsewhereKeeps ==
  ASSUME Inv, Elsewhere, Around
  PROVE  Inv'
  <1>1. UNCHANGED <<provider, call, ledger, wire, forgotten, orphaned>>
    BY DEF Elsewhere, Around
  <1>2. Types' /\ LedgerInv(ledger)'
    BY <1>1 DEF Inv, Types, Around, LedgerInv
  <1>3. \A d \in Callers : CallInv(d)'
    BY <1>1 DEF Inv, CallInv, KeyOf
  <1>4. WireInv' /\ InFlightIsOwned' /\ Exclusive'
    BY <1>1 DEF Inv, WireInv, InFlightIsOwned, Exclusive, AtWork
  <1>5. AnswersAreTrue' /\ Remembered' /\ KeyIsSentOnce'
    BY <1>1 DEF Inv, AnswersAreTrue, Remembered, KeyIsSentOnce
  <1> QED BY <1>2, <1>3, <1>4, <1>5 DEF Inv

-----------------------------------------------------------------------------
\* No call, no request and an empty ledger.
LEMMA InvInit == Init => Inv
  <1> SUFFICES ASSUME Init PROVE Inv
    OBVIOUS
  <1>1. Idle \in Call /\ Idle.pc = "idle" /\ Idle.req = 0
    BY DEF Idle, Call, Pc, Quiet, Op, Text
  <1>2. /\ call = [c \in Callers |-> Idle] /\ ledger = <<>> /\ wire = <<>>
        /\ DOMAIN ledger = {} /\ DOMAIN wire = {} /\ Len(ledger) = 0
    BY DEF Init
  <1>3. \A c \in Callers : call[c] = Idle
    BY <1>2
  <1>4. ledger \in Seq(Entry) /\ wire \in Seq(Request)
    BY <1>2, EmptySeq
  <1>5. Types
    BY <1>1, <1>2, <1>4 DEF Init, Types
  <1>6. LedgerInv(ledger)
    BY <1>2 DEF LedgerInv
  <1>7. \A c \in Callers : CallInv(c) /\ ~AtWork(c)
    BY <1>1, <1>3 DEF CallInv, AtWork, Quiet, Sent
  <1>8. WireInv
    BY <1>1, <1>2, <1>3 DEF WireInv
  <1>9. InFlightIsOwned /\ Exclusive
    BY <1>2, <1>7 DEF InFlightIsOwned, Exclusive, ToSet
  <1>10. AnswersAreTrue /\ Remembered /\ KeyIsSentOnce
    BY <1>2 DEF AnswersAreTrue, Remembered, KeyIsSentOnce
  <1> QED BY <1>5, <1>6, <1>7, <1>8, <1>9, <1>10 DEF Inv

\* Every step keeps the invariant.
LEMMA InvNext == Inv /\ [Next]_vars => Inv'
  <1> SUFFICES ASSUME Inv, [Next]_vars PROVE Inv'
    OBVIOUS
  <1>1. CASE UNCHANGED vars
    <2>1. Elsewhere /\ Around
      BY <1>1 DEF vars, Elsewhere, Around, Inv, Types
    <2> QED BY <2>1, ElsewhereKeeps
  <1>2. CASE Next
    <2>1. Around
      BY <1>2, Kinds
    <2>2. CASE \E c \in Callers : StepOf(c)
      BY <2>1, <2>2, OutsideKeeps, EnterKeeps, ProceedKeeps, SendKeeps, LeaveKeeps, GiveUpKeeps
      DEF StepOf
    <2>3. CASE \E i \in DOMAIN wire : Fate(i)
      BY <2>1, <2>3, FateKeeps
    <2>4. CASE Elsewhere
      BY <2>1, <2>4, ElsewhereKeeps
    <2> QED BY <1>2, <2>2, <2>3, <2>4, Kinds
  <1> QED BY <1>1, <1>2

\* The inductive invariant holds in every reachable state.
THEOREM Invariance == Spec => []Inv
  BY InvInit, InvNext, PTL DEF Spec

\* What a call was answered stays true: a request reported as not started or not
\* committed never takes effect, whenever it arrives.
THEOREM AnswersHold == Spec => []AnswersAreTrue
  <1>1. Inv => AnswersAreTrue
    BY DEF Inv
  <1> QED BY <1>1, Invariance, PTL

\* A key is dispatched once while the ledger knows it, and a key in flight has a
\* call that will settle it or was abandoned.
THEOREM KeysHold == Spec => []KeysAreSafe
  <1>1. Inv => KeysAreSafe
    BY DEF Inv, KeysAreSafe
  <1> QED BY <1>1, Invariance, PTL

\* One entry per key makes as many keys as entries.
LEMMA AsManyKeys ==
  ASSUME ledger \in Seq(Entry), LedgerInv(ledger)
  PROVE  Cardinality(LedgerKeys) = Len(ledger)
  <1> DEFINE n == Len(ledger)
             f == [i \in 1 .. n |-> ledger[i].key]
  <1>1. n \in Nat /\ DOMAIN ledger = 1 .. n
    BY LenProperties
  <1>2. LedgerKeys = {ledger[i].key : i \in 1 .. n}
    BY <1>1 DEF LedgerKeys, ToSet
  <1>3. \A i, j \in 1 .. n : ledger[i].key = ledger[j].key => i = j
    BY <1>1 DEF LedgerInv
  <1> HIDE DEF n
  <1>4. f \in Bijection(1 .. n, LedgerKeys)
    <2>1. f \in [1 .. n -> LedgerKeys]
      BY <1>2
    <2>2. \A i, j \in 1 .. n : f[i] = f[j] => i = j
      BY <1>3
    <2>3. \A t \in LedgerKeys : \E i \in 1 .. n : f[i] = t
      BY <1>2
    <2> QED BY <2>1, <2>2, <2>3 DEF Bijection, Injection, Surjection, IsInjective
  <1> HIDE DEF f
  <1>5. ExistsBijection(1 .. n, LedgerKeys)
    BY <1>4 DEF ExistsBijection
  <1> QED BY <1>1, <1>5, FS_CountingElements DEF n

\* Every variable keeps its type, and the ledger its bound and one entry a key.
THEOREM TypeCorrect == Spec => []TypeOK
  <1>1. Inv => TypeOK
    <2> SUFFICES ASSUME Inv PROVE TypeOK
      OBVIOUS
    <2>1. /\ DOMAIN wire = 1 .. Len(wire) /\ Len(wire) \in Nat
          /\ \A i \in DOMAIN wire : wire[i] \in Request
      BY LenProperties, ElementOfSeq DEF Inv, Types
    <2>2. \A i \in DOMAIN wire : wire[i].state \in {"flying", "applied", "void"}
      BY <2>1 DEF Request
    <2>3. \A c \in Callers : call[c].req \in 0 .. Len(wire)
      BY <2>1 DEF Inv, CallInv
    <2>4. \A e \in ToSet(ledger) : e.state \in {"in_flight", "succeeded", "failed", "unknown"}
      <3>1. DOMAIN ledger = 1 .. Len(ledger)
        BY LenProperties DEF Inv, Types
      <3>2. \A e \in ToSet(ledger) : e \in Entry
        BY <3>1, ElementOfSeq DEF Inv, Types, ToSet
      <3> QED BY <3>2 DEF Entry
    <2>5. Len(ledger) <= Limit /\ Cardinality(LedgerKeys) = Len(ledger)
      BY AsManyKeys DEF Inv, Types, LedgerInv
    <2> QED BY <2>2, <2>3, <2>4, <2>5 DEF TypeOK, Inv, Types
  <1> QED BY <1>1, Invariance, PTL

\* What one step leaves of an uncertain entry.
LEMMA UncertainStays ==
  ASSUME Inv, Next, NEW e \in ToSet(ledger)
  PROVE  /\ e.state = "unknown" /\ ~Unlocked => e \in ToSet(ledger')
         /\ e.state \in {"in_flight", "unknown"} => \E n \in ToSet(ledger') : n.key = e.key
  <1>1. CASE UNCHANGED ledger
    BY <1>1
  <1>2. ASSUME NEW c \in Callers, Enter(c)
        PROVE  /\ e.state = "unknown" /\ ~Unlocked => e \in ToSet(ledger')
               /\ e.state \in {"in_flight", "unknown"} => \E n \in ToSet(ledger') : n.key = e.key
    BY <1>2 DEF Enter, Unlocked
  <1>3. ASSUME NEW c \in Callers, Leave(c)
        PROVE  /\ e.state = "unknown" /\ ~Unlocked => e \in ToSet(ledger')
               /\ e.state \in {"in_flight", "unknown"} => \E n \in ToSet(ledger') : n.key = e.key
    <2>1. /\ AtWork(c)
          /\ \E n \in ToSet(ledger') : n.key = e.key /\ (e.key # KeyOf(call[c]) => n = e)
      BY <1>3 DEF Leave
    <2>2. ASSUME e.state = "unknown", ~Unlocked PROVE e.key # KeyOf(call[c])
      <3>1. PICK f \in ToSet(ledger) : f.key = KeyOf(call[c]) /\ f.state = "in_flight"
        BY <2>1, <2>2 DEF Inv, Exclusive, Unlocked
      <3> QED BY <2>2, <3>1, CallFacts, OneEntry DEF Inv, Types
    <2> QED BY <2>1, <2>2
  <1>4. \/ UNCHANGED ledger
        \/ \E c \in Callers : Enter(c) \/ Leave(c)
    BY Kinds DEF StepOf, Outside, Proceed, Send, GiveUp, Fate, Elsewhere
  <1> QED BY <1>1, <1>2, <1>3, <1>4

\* An entry in flight or unknown is never evicted however full the ledger is,
\* and with the lock an unknown one never changes again.
THEOREM UncertainKept == Spec => UncertainIsKept
  <1> DEFINE A == \A e \in ToSet(ledger) :
                    /\ e.state = "unknown" /\ ~Unlocked => e \in ToSet(ledger')
                    /\ e.state \in {"in_flight", "unknown"} =>
                         \E n \in ToSet(ledger') : n.key = e.key
  <1>1. Inv /\ [Next]_vars => [A]_vars
    <2> SUFFICES ASSUME Inv, Next PROVE A
      OBVIOUS
    <2> QED BY UncertainStays
  <1>2. Spec => [][A]_vars
    BY <1>1, Invariance, PTL DEF Spec
  <1> QED BY <1>2 DEF UncertainIsKept
=============================================================================
