---------------------------- MODULE MCFormulaSet ----------------------------
(* Formula views, for TLC: the keys and the ledger under two threads            *)
(* (FormulaSet), a view of one worksheet (GridFormulaViews) and a view of one   *)
(* field (FieldFormulaViews) among other users.  The three share no state, so a *)
(* behaviour is about one of them.                                              *)
EXTENDS FormulaSet, TLC

CONSTANTS Subjects,    \* what the behaviours are about
          GridProviders, FieldProviders, MaxRecords, MaxEdits

VARIABLES about, kind, remote, cache, view, kept, request, answer, edits, calls

viewVars == <<kind, remote, cache, view, kept, request, answer, edits, calls>>

Symmetry == Permutations(Callers) \cup Permutations(Keys)
            \cup Permutations(Formulas)

GridView == INSTANCE GridFormulaViews
          WITH Providers <- GridProviders, provider <- kind, doc <- remote,
               call <- request
FieldView == INSTANCE FieldFormulaViews
          WITH Providers <- FieldProviders, provider <- kind, table <- remote,
               call <- request

MCInit ==
  /\ about \in Subjects /\ Init
  /\ about # "sets" => provider = "google"
  /\ IF about = "grid" THEN GridView!Init
     ELSE /\ cache = None /\ kept = None
          /\ IF about = "field" THEN FieldView!Init
             ELSE /\ kind = None /\ remote = None /\ view = None /\ request = None
                  /\ answer = None /\ edits = 0 /\ calls = 0
MCNext ==
  /\ UNCHANGED about
  /\ \/ about = "sets" /\ Next /\ UNCHANGED viewVars
     \/ about = "grid" /\ GridView!Next /\ UNCHANGED vars
     \/ about = "field" /\ FieldView!Next /\ UNCHANGED <<vars, cache, kept>>
MCSpec == MCInit /\ [][MCNext]_<<vars, about, viewVars>>

\* GridViewsAreTrue of GridFormulaViews, FieldViewsAreTrue of FieldFormulaViews.
ViewsAreTrue ==
  /\ about = "grid" => GridView!GridViewsAreTrue
  /\ about = "field" => FieldView!FieldViewsAreTrue
=============================================================================
