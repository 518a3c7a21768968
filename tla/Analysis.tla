------------------------------ MODULE Analysis ------------------------------
(***************************************************************************)
(* backend/analyze_fft.py over backend/storage.py: a batch program that is *)
(* run again and again (cron) while ingest.py keeps adding windows to the  *)
(* same database.  It reads the windows without a result once, and then    *)
(* stores one result per transaction; it may die between any two.          *)
(*                                                                         *)
(* A window is its row id; what the spectrum contains plays no part.       *)
(***************************************************************************)
EXTENDS Naturals, Sequences, SequencesExt, FiniteSetsExt

CONSTANTS
    MaxWindow,      \* bound: rows of raw_windows
    Unanalysable,   \* windows that analyze_window_peak raises an error for
    LIMIT,          \* --limit
    MaxDeaths       \* bound: runs that are killed or fail to write

Windows == 1 .. MaxWindow

\* np.argmax raises for fewer than two samples, which validate_payload lets pass.
ASSUME AnalysisAssumption ==
    /\ MaxWindow \in Nat /\ LIMIT \in Nat \ {0} /\ MaxDeaths \in Nat
    /\ Unanalysable \subseteq Windows

VARIABLES
    rawWindows,     \* rows of raw_windows: ids 1 .. rawWindows
    fftResults,     \* fft_results: the window of each row, oldest row first
    anPc,           \* "idle", or "loop" of run_once
    todo,           \* the windows run_once has still to go through
    deaths          \* runs cut short so far

analysisVars == <<rawWindows, fftResults, anPc, todo, deaths>>

Analysed == ToSet(fftResults)

AnalysisInit ==
    /\ rawWindows = 0 /\ fftResults = <<>>
    /\ anPc = "idle" /\ todo = <<>> /\ deaths = 0

----------------------------------------------------------------------------
\* ingest.py, or window_gen.py: store_window.
StoreWindow ==
    /\ rawWindows < MaxWindow
    /\ rawWindows' = rawWindows + 1
    /\ UNCHANGED <<fftResults, anPc, todo, deaths>>

\* fetch_unanalyzed_windows: ORDER BY id LIMIT.
Ascending(S) ==
    CHOOSE q \in [1 .. Cardinality(S) -> S] : \A i, j \in DOMAIN q : i < j => q[i] < q[j]
FirstOf(q, n) == SubSeq(q, 1, IF n <= Len(q) THEN n ELSE Len(q))

\* Without ORDER BY or the join:
FetchNewestFirst ==
    FirstOf(Reverse(Ascending((1 .. rawWindows) \ Analysed)), LIMIT)

FetchAll == FirstOf(Ascending(1 .. rawWindows), LIMIT)

FetchUnanalyzed == FirstOf(Ascending((1 .. rawWindows) \ Analysed), LIMIT)

StartAnalysis ==
    /\ anPc = "idle"
    /\ todo' = FetchUnanalyzed
    /\ anPc' = "loop"
    /\ UNCHANGED <<rawWindows, fftResults, deaths>>

\* analyze_window_peak and store_fft_result of the next window: one transaction.
StoreResult ==
    /\ anPc = "loop" /\ todo # <<>> /\ Head(todo) \notin Unanalysable
    /\ fftResults' = Append(fftResults, Head(todo))
    /\ todo' = Tail(todo)
    /\ UNCHANGED <<rawWindows, anPc, deaths>>

EndAnalysis ==
    /\ anPc = "loop" /\ todo = <<>>
    /\ anPc' = "idle"
    /\ UNCHANGED <<rawWindows, fftResults, todo, deaths>>

\* No exception is caught: the run ends at the window that raises one ...
AnalysisRaises ==
    /\ anPc = "loop" /\ todo # <<>> /\ Head(todo) \in Unanalysable
    /\ anPc' = "idle" /\ todo' = <<>>
    /\ UNCHANGED <<rawWindows, fftResults, deaths>>

\* ... and when it is killed, or the database locked or full.
AnalysisDies ==
    /\ anPc = "loop" /\ deaths < MaxDeaths
    /\ deaths' = deaths + 1
    /\ anPc' = "idle" /\ todo' = <<>>
    /\ UNCHANGED <<rawWindows, fftResults>>

Analyser == StartAnalysis \/ StoreResult \/ EndAnalysis \/ AnalysisRaises
AnalysisNext == StoreWindow \/ Analyser \/ AnalysisDies

----------------------------------------------------------------------------
(***************************************************************************)
(* Over runs that are cut short and taken up again, results follow the     *)
(* order of the windows, each window once and none left out: nothing in    *)
(* the schema forbids a second row, and every reader joins the table with  *)
(* raw_windows and would see the window twice.  What is analysed is always *)
(* a prefix of what is stored, and the rest of a run continues it.         *)
(***************************************************************************)
OneResultEach ==
    /\ IsInjective(fftResults)
    /\ \A w \in Analysed : 1 .. w \subseteq Analysed
    /\ \A i \in DOMAIN todo : todo[i] = Len(fftResults) + i /\ todo[i] <= rawWindows

(***************************************************************************)
(* README: "analyze_fft.py processes whatever windows are not analyzed     *)
(* yet": every stored window gets its result, however runs are cut short - *)
(* up to the first one that raises an error.  The windows behind it can be *)
(* analysed too, but no run ever comes to them.                            *)
(***************************************************************************)
EveryWindowAnalysed ==
    \A w \in Windows :
        w <= rawWindows /\ 1 .. w \cap Unanalysable = {} ~> w \in Analysed
=============================================================================
