----------------------------- MODULE Classifier -----------------------------
(***************************************************************************)
(* analysis/labels.py and analysis/classify_faults.py next to the analyser *)
(* on the same database.  Labelling is three transactions: clear, label    *)
(* the healthy ranges, label the worn ranges.  The classifier reads        *)
(* spectra and labels in one statement, splits the healthy windows, stores *)
(* the baseline and then one verdict per transaction.  Either may be       *)
(* stopped between two transactions; each is run by one operator, one run  *)
(* after the other.                                                        *)
(*                                                                         *)
(* The time range of a session is the set of windows received in it.       *)
(***************************************************************************)
EXTENDS Analysis

CONSTANTS
    Ranges,         \* sets of windows that a --healthy-range or --worn-range may cover
    MaxLabelRuns,   \* bound: runs of labels.py
    MaxClassifierRuns, \* bound: runs of classify_faults.py
    FIT_TENTHS      \* --baseline-fraction, in tenths

ASSUME ClassifierAssumption ==
    /\ Ranges \subseteq SUBSET Windows
    /\ MaxLabelRuns \in Nat /\ MaxClassifierRuns \in Nat
    /\ FIT_TENTHS \in 0 .. 10

VARIABLES
    labels,         \* window_labels: "none", "healthy" or "worn" of each window
    labelledBy,     \* history: the run of labels.py each label is from
    lbPc,           \* labels.py: "idle", "healthy" or "worn", the step to come
    sessions,       \* history: the ranges each run was given, and the windows there were
    clPc,           \* classify_faults.py: "idle", "baseline" or "classify"
    fit,            \* its fit_windows
    verdictsLeft,   \* held-out and worn windows without a verdict yet
    snapshot,       \* history: what its one SELECT returned
    baselines,      \* baselines: the fit windows each row was computed from
    classifications \* classifications: window and baseline of each row

labelVars == <<labels, labelledBy, lbPc, sessions>>
classifierVars == <<clPc, fit, verdictsLeft, snapshot, baselines, classifications>>
vars == <<analysisVars, labelVars, classifierVars>>

NoRun == 0
LabelRun == Len(sessions)

Init ==
    /\ AnalysisInit
    /\ labels = [w \in Windows |-> "none"] /\ labelledBy = [w \in Windows |-> NoRun]
    /\ lbPc = "idle" /\ sessions = <<>>
    /\ clPc = "idle" /\ fit = <<>> /\ verdictsLeft = <<>>
    /\ snapshot = [healthy |-> <<>>, worn |-> <<>>, analysed |-> {}]
    /\ baselines = <<>> /\ classifications = <<>>

----------------------------------------------------------------------------
(***************************************************************************)
(* labels.py.                                                              *)
(***************************************************************************)

\* clear_labels.  Without it:
ClearNothing ==
    /\ lbPc = "idle" /\ LabelRun < MaxLabelRuns
    /\ \E h, w \in Ranges :
           sessions' = Append(sessions, [healthy |-> h, worn |-> w, present |-> rawWindows])
    /\ lbPc' = "healthy"
    /\ UNCHANGED <<labels, labelledBy, analysisVars, classifierVars>>

ClearLabels ==
    /\ lbPc = "idle" /\ LabelRun < MaxLabelRuns
    /\ \E h, w \in Ranges :
           sessions' = Append(sessions, [healthy |-> h, worn |-> w, present |-> rawWindows])
    /\ labels' = [w \in Windows |-> "none"]
    /\ labelledBy' = [w \in Windows |-> NoRun]
    /\ lbPc' = "healthy"
    /\ UNCHANGED <<analysisVars, classifierVars>>

\* label_windows: the windows in the ranges that are there now, in one commit.
LabelWindows(range, label) ==
    LET hit == range \cap 1 .. rawWindows IN
    /\ labels' = [w \in Windows |-> IF w \in hit THEN label ELSE labels[w]]
    /\ labelledBy' = [w \in Windows |-> IF w \in hit THEN LabelRun ELSE labelledBy[w]]
    /\ UNCHANGED <<sessions, analysisVars, classifierVars>>

LabelHealthy ==
    /\ lbPc = "healthy"
    /\ lbPc' = "worn"
    /\ LabelWindows(sessions[LabelRun].healthy, "healthy")

LabelWorn ==
    /\ lbPc = "worn"
    /\ lbPc' = "idle"
    /\ LabelWindows(sessions[LabelRun].worn, "worn")

\* The run is stopped, or the database locked: what is committed stays.
LabelsDies ==
    /\ lbPc # "idle" /\ deaths < MaxDeaths
    /\ deaths' = deaths + 1
    /\ lbPc' = "idle"
    /\ UNCHANGED <<labels, labelledBy, sessions, rawWindows, fftResults, anPc, todo,
                   classifierVars>>

----------------------------------------------------------------------------
(***************************************************************************)
(* classify_faults.py.                                                     *)
(***************************************************************************)

\* fetch_fft_results, filtered by label: one entry per row of fft_results, by window.
Rows(label) ==
    LET hit == {i \in DOMAIN fftResults : labels[fftResults[i]] = label}
        order == CHOOSE f \in [1 .. Cardinality(hit) -> hit] :
                     \A i, j \in DOMAIN f :
                         i < j => f[i] # f[j] /\ fftResults[f[i]] <= fftResults[f[j]]
    IN  [i \in DOMAIN order |-> fftResults[order[i]]]

\* split_healthy.
LargerOf(a, b) == IF a >= b THEN a ELSE b

FitSize(n) == LargerOf(1, (n * FIT_TENTHS) \div 10)

\* All of the healthy windows evaluated:
HeldOutAll(q) == q
HeldOut(q) == SubSeq(q, FitSize(Len(q)) + 1, Len(q))
Fit(q) == SubSeq(q, 1, FitSize(Len(q)))

FetchFftResults ==
    /\ clPc = "idle" /\ Len(baselines) < MaxClassifierRuns
    /\ LET healthy == Rows("healthy")  worn == Rows("worn") IN
       /\ healthy # <<>> /\ worn # <<>>        \* otherwise SystemExit
       /\ snapshot' = [healthy |-> healthy, worn |-> worn, analysed |-> Analysed]
       /\ fit' = Fit(healthy)
       /\ verdictsLeft' = HeldOut(healthy) \o worn
    /\ clPc' = "baseline"
    /\ UNCHANGED <<baselines, classifications, analysisVars, labelVars>>

StoreBaseline ==
    /\ clPc = "baseline"
    /\ clPc' = "classify"
    /\ baselines' = Append(baselines, ToSet(fit))
    /\ UNCHANGED <<fit, verdictsLeft, snapshot, classifications, analysisVars, labelVars>>

\* classify with persist=True: the verdict under the threshold of this run.
StoreClassification ==
    /\ clPc = "classify" /\ verdictsLeft # <<>>
    /\ classifications' =
           Append(classifications, [window |-> Head(verdictsLeft), baseline |-> Len(baselines)])
    /\ verdictsLeft' = Tail(verdictsLeft)
    /\ UNCHANGED <<clPc, fit, snapshot, baselines, analysisVars, labelVars>>

Report ==
    /\ clPc = "classify" /\ verdictsLeft = <<>>
    /\ clPc' = "idle"
    /\ UNCHANGED <<fit, verdictsLeft, snapshot, baselines, classifications, analysisVars,
                   labelVars>>

ClassifierDies ==
    /\ clPc # "idle" /\ deaths < MaxDeaths
    /\ deaths' = deaths + 1
    /\ clPc' = "idle"
    /\ UNCHANGED <<fit, verdictsLeft, snapshot, baselines, classifications, rawWindows,
                   fftResults, anPc, todo, labelVars>>

Labelling == ClearLabels \/ LabelHealthy \/ LabelWorn \/ LabelsDies
Classifying ==
    FetchFftResults \/ StoreBaseline \/ StoreClassification \/ Report \/ ClassifierDies
Analysing == AnalysisNext /\ UNCHANGED <<labelVars, classifierVars>>

Next == Analysing \/ Labelling \/ Classifying

Spec == Init /\ [][Next]_vars

\* cron starts the next analysis, and a run goes on until it ends or dies; the operator may
\* never run the other two again.
FairSpec == Spec /\ WF_vars(Analyser /\ UNCHANGED <<labelVars, classifierVars>>)

----------------------------------------------------------------------------
(***************************************************************************)
(* labels.py: "each run clears every previously stored label and relabels  *)
(* from scratch using exactly the ranges given, so the table never ends up *)
(* a stale mix of old and new sessions": at no time, also after a run that *)
(* was stopped, does window_labels hold labels of two runs or a label the  *)
(* ranges of its run do not give.                                          *)
(***************************************************************************)
LabelsOfOneRun ==
    \A w \in Windows : labels[w] # "none" =>
        /\ labelledBy[w] = LabelRun
        /\ w \in sessions[LabelRun].healthy \cup sessions[LabelRun].worn

(***************************************************************************)
(* A classifier that goes on saw one complete labelling, although it may   *)
(* read between the three transactions of labels.py: a half-done labelling *)
(* has no worn windows, and the classifier stops.  Complete: every         *)
(* analysed window that was there when the labelling began has the label   *)
(* its ranges give it, worn over healthy.                                  *)
(***************************************************************************)
SeesWholeLabelling ==
    clPc # "idle" =>
        \E r \in DOMAIN sessions :
            LET seen == sessions[r]
                old == snapshot.analysed \cap 1 .. seen.present
            IN  /\ old \cap seen.worn \subseteq ToSet(snapshot.worn)
                /\ old \cap (seen.healthy \ seen.worn) \subseteq ToSet(snapshot.healthy)
                /\ ToSet(snapshot.worn) \subseteq seen.worn
                /\ old \cap ToSet(snapshot.healthy) \subseteq seen.healthy \ seen.worn

(***************************************************************************)
(* labels.py and its reader: neither the table nor what a classifier took  *)
(* from it is ever a mix of labellings, or half of one.                    *)
(***************************************************************************)
OneLabelling == LabelsOfOneRun /\ SeesWholeLabelling

(***************************************************************************)
(* No window that the baseline was fitted to is evaluated against it, the  *)
(* fit comes before the evaluation in time (README: "both evaluation and   *)
(* fitting sets use chronologically split data") and is never empty, and a *)
(* run gives no window two verdicts.  It rests on one result per window:   *)
(* the split is by position in the rows of fft_results.                    *)
(***************************************************************************)
EvaluationHeldOut ==
    /\ \A i \in DOMAIN classifications :
           classifications[i].window \notin baselines[classifications[i].baseline]
    /\ clPc = "classify" =>
           \A i \in DOMAIN snapshot.healthy : \A v \in ToSet(fit) :
               snapshot.healthy[i] \in ToSet(verdictsLeft) => v < snapshot.healthy[i]
    /\ clPc # "idle" => fit # <<>>
    /\ IsInjective(classifications)
=============================================================================
