---------------------------- MODULE MCSQLiteStore ----------------------------
(* SQLiteStore for TLC, and the clients of managed targets and created tables  *)
(* above and beside it: the SDK's facade, the managed store on MaybeAI and the *)
(* creation of tables there.  They share no state, so a behaviour is about one *)
(* of them.                                                                    *)
EXTENDS SQLiteStore, Naturals, TLC

CONSTANTS Frames, Views, Hash, Times, Never, MaxCalls,   \* of the facade
          MaxOps, MaxChanges,
          Names, Half, MaxCreates, MaxEdits,
          c3                       \* a frame of another schema than the views'

ASSUME FacadeAssumption == None \notin Frames \cup [key : Key, content : Frames]
ASSUME BoundAssumption == MaxCreates \in Nat

VARIABLES about,
          rows, clock, handles, snapshots, pending, calls, removed, shown,
          proved, provider, files, call, ops, changes, receipts, accepted,
          native, documents, made, flight, create, refs, log, held, edits

facadeVars == <<rows, clock, handles, snapshots, pending, calls, removed, shown>>
remoteVars == <<proved, provider, files, call, ops, changes, receipts, accepted>>
createVars == <<native, documents, made, flight, create, refs, log, held, edits>>

Symmetry ==
  Permutations(Key) \cup Permutations(Content) \cup Permutations(Process) \cup Permutations(Names)

MCHash == [x \in Frames \cup Views |-> IF x = c3 THEN 2 ELSE 1]

Facade == INSTANCE TemporalStorage WITH Content <- Frames
Remote == INSTANCE MaybeTemporal WITH rows <- provider
Creation == INSTANCE Materialization
              WITH Clients <- Process, Keys <- Key, Contents <- Content, tables <- documents,
                   call <- create, MaxCalls <- MaxCreates

MCInit ==
  /\ SQLiteInit /\ Facade!Init /\ Remote!Init /\ Creation!Init
  /\ about \in {"store", "facade", "remote", "creation"}
  /\ about # "remote" => \A a \in Content : files[a] = Remote!Missing
MCNext ==
  /\ UNCHANGED about
  /\ \/ about = "store" /\ SQLiteNext /\ UNCHANGED <<facadeVars, remoteVars, createVars>>
     \/ about = "facade" /\ Facade!Next /\ UNCHANGED <<sqliteVars, remoteVars, createVars>>
     \/ about = "remote" /\ Remote!Next /\ UNCHANGED <<sqliteVars, facadeVars, createVars>>
     \/ about = "creation" /\ Creation!Next /\ UNCHANGED <<sqliteVars, facadeVars, remoteVars>>
MCSpec == MCInit /\ [][MCNext]_<<sqliteVars, about, facadeVars, remoteVars, createVars>>

\* TemporalStorage's AbortedStaysAborted and SnapshotsStay, of this instance.
HandlesAreTrue == Facade!AbortedStaysAborted /\ Facade!SnapshotsStay

\* MaybeTemporal's ReceiptsAreEarned and Materialization's MaterializedIsTrue, of
\* these instances.
RemoteAnswersAreTrue == Remote!ReceiptsAreEarned /\ Creation!MaterializedIsTrue
=============================================================================
