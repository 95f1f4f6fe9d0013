---------------------------- MODULE HistoryStore ----------------------------
(* The daily price history (utils/history_store.py): a file per symbol and data source,
   a copy of the files in memory for the live scanner, synchronised once a day, the live
   quotes patched into that copy by every scan (utils/scanner_engine.py, run_scanner), and
   a bounded queue that writes patched histories back to the files.

   A history says of each day whether its bar is there, and whether it is final or was
   taken while the market was open. Three phases make a day. The second storage tier
   (Supabase) is switched off in the code and left out, and so is the cut to 280 bars. *)
EXTENDS Integers, FiniteSets, FiniteSetsExt

CONSTANTS
    Tickers,
    Feeds,            \* the sources a scan may be set to
    LastDay,          \* bound: days
    FullRefreshDays,  \* _FULL_REFRESH_DAYS
    Capacity,         \* the tasks the flush queue accepts
    MaxMishaps,       \* bound: failed fetches, restarts and lost disks
    NoHistory

ASSUME StoreAssumption ==
    /\ IsFiniteSet(Tickers) /\ Feeds \subseteq {"upstox", "yfinance"}
    /\ LastDay \in Nat \ {0} /\ FullRefreshDays \in Nat \ {0}
    /\ Capacity \in Nat /\ MaxMishaps \in Nat

VARIABLES
    day, phase,       \* the date and "pre", "open" or "closed"
    disk,             \* the file of each source and symbol
    fullAt,           \* last_full_refresh of each, 0 without one
    memory,           \* _live_cache of each source: loaded_date and the histories
    queue,            \* the flush tasks that are not done
    scan,             \* where run_scanner is, its source, its frames and the fallback symbols
    mishaps

historyVars == <<day, phase, disk, fullAt, memory, queue, scan, mishaps>>

Sources == {"upstox", "yfinance"}
Days == 1 .. LastDay
Qualities == {"none", "partial", "final"}

\* What a history has on each day, and the days whose fetch failed.
History == [bars : [Days -> Qualities], gaps : SUBSET Days]

NoScan == [pc |-> "idle", source |-> "yfinance", data |-> [s \in Tickers |-> NoHistory],
           fallback |-> {}]

\* Mishap: a fetch without an answer, a restart or a lost disk.
Mishap == mishaps < MaxMishaps /\ mishaps' = mishaps + 1

LastOf(h) == Max({0} \cup {d \in Days : h.bars[d] # "none"})
Held(data) == {s \in Tickers : data[s] # NoHistory}

\* new over old, where new has something.
Over(new, old) == [s \in Tickers |-> IF new[s] # NoHistory THEN new[s] ELSE old[s]]
-----------------------------------------------------------------------------
(* get_history. *)

\* The bars a provider answers with from a day on: the bar of today is still forming while
\* the market is open.
Provided(from) ==
    [d \in Days |-> IF d < from \/ d > day \/ (d = day /\ phase = "pre") THEN "none"
                    ELSE IF d = day /\ phase = "open" THEN "partial" ELSE "final"]

Stale(b, s) == disk[b][s] = NoHistory \/ fullAt[b][s] = 0 \/ day - fullAt[b][s] >= FullRefreshDays

\* Mutant: the tail starts after the last cached day, whose bar may be partial.
TailAfterLast(h) == LastOf(h) + 1

\* The last cached day is fetched again unless it is today.
TailStart(h) == IF LastOf(h) < day THEN Max({1, LastOf(h)}) ELSE day + 1

Refetched(h) ==
    LET rows == Provided(TailStart(h))
    IN [h EXCEPT !.bars = [d \in Days |-> IF rows[d] # "none" THEN rows[d] ELSE h.bars[d]]]

\* What comes back for one symbol: a full history or none, or the cached one with its tail.
Fetch(b, s, answered) ==
    IF Stale(b, s)
    THEN IF answered THEN [bars |-> Provided(1), gaps |-> {}] ELSE NoHistory
    ELSE IF TailStart(disk[b][s]) > day THEN disk[b][s]
    ELSE IF answered THEN Refetched(disk[b][s])
    ELSE [disk[b][s] EXCEPT !.gaps = @ \cup TailStart(disk[b][s]) .. day]

GetHistory(b, wanted, answered) ==
    LET got == [s \in Tickers |-> IF s \in wanted THEN Fetch(b, s, s \in answered) ELSE NoHistory]
    IN /\ disk' = [disk EXCEPT ![b] = Over(got, @)]
       /\ fullAt' = [fullAt EXCEPT ![b] = [s \in Tickers |->
                       IF s \in wanted \cap answered /\ Stale(b, s) THEN day ELSE @[s]]]
-----------------------------------------------------------------------------
(* get_live_history_cached. *)

\* The symbols to be read again: all of them on a new day, else those not in memory.
ToFetch(b, wanted) ==
    IF memory[b].loaded # day THEN wanted ELSE wanted \ Held(memory[b].data)

\* Those of them whose fetch is answered: all, or, with a fault, fewer.
Answered(b, wanted, answered) ==
    \/ answered = ToFetch(b, wanted) /\ UNCHANGED mishaps
    \/ answered # ToFetch(b, wanted) /\ Mishap

Loaded(b, wanted, answered) ==
    LET fetch == ToFetch(b, wanted)
        got == [s \in Tickers |-> IF s \in fetch THEN Fetch(b, s, s \in answered) ELSE NoHistory]
        kept == IF memory[b].loaded # day THEN [s \in Tickers |-> NoHistory] ELSE memory[b].data
    IN Over(got, kept)

GetLive(b, wanted, answered) ==
    /\ Answered(b, wanted, answered)
    /\ GetHistory(b, ToFetch(b, wanted), answered)
    /\ memory' = [memory EXCEPT ![b] = [loaded |-> day, data |-> Loaded(b, wanted, answered)]]

Of(data, wanted) == [s \in Tickers |-> IF s \in wanted THEN data[s] ELSE NoHistory]
-----------------------------------------------------------------------------
(* run_scanner, as far as it fetches. *)

HistoryInit ==
    /\ day = 1 /\ phase = "pre"
    /\ disk = [b \in Sources |-> [s \in Tickers |-> NoHistory]]
    /\ fullAt = [b \in Sources |-> [s \in Tickers |-> 0]]
    /\ memory = [b \in Sources |-> [loaded |-> 0, data |-> [s \in Tickers |-> NoHistory]]]
    /\ queue = {} /\ scan = NoScan /\ mishaps = 0

\* Upstox has no data for some symbols: these are read from the other source.
LoadPrimary(b, answered) ==
    /\ scan.pc = "idle"
    /\ GetLive(b, Tickers, answered)
    /\ LET data == Loaded(b, Tickers, answered)
           missing == Tickers \ Held(data)
       IN scan' = [pc |-> IF b = "upstox" /\ missing # {} THEN "fallback" ELSE "patch",
                   source |-> b, data |-> data, fallback |-> {}]
    /\ UNCHANGED <<day, phase, queue>>

LoadFallback(answered) ==
    /\ scan.pc = "fallback"
    /\ LET missing == Tickers \ Held(scan.data) IN
       /\ GetLive("yfinance", missing, answered)
       /\ LET data == Of(Loaded("yfinance", missing, answered), missing) IN
          scan' = [scan EXCEPT !.pc = "patch", !.data = Over(@, data), !.fallback = Held(data)]
    /\ UNCHANGED <<day, phase, queue>>

\* A quote before the open is stamped today by Upstox and with the last session by Yahoo.
QuoteDay(b) == IF phase = "pre" /\ b = "yfinance" THEN day - 1 ELSE day
QuoteQuality(b) == IF phase = "closed" \/ QuoteDay(b) < day THEN "final" ELSE "partial"

\* _patch_live_prices: the quote overwrites the bar of its day, or is appended as one.
Patched(h, b) ==
    IF QuoteDay(b) = 0 THEN h ELSE [h EXCEPT !.bars[QuoteDay(b)] = QuoteQuality(b)]

\* Every frame of the scan goes into the source's memory; only the dirty ones are flushed,
\* and when the queue is full they are not.
Merged(b, data) ==
    [loaded |-> day, data |-> IF memory[b].loaded # day THEN data ELSE Over(data, memory[b].data)]

Flushed(b, data, dirty) ==
    IF dirty = {} THEN {} ELSE {[source |-> b, data |-> Of(data, dirty)]}

Submitted(tasks, more) ==
    IF Cardinality(tasks) + Cardinality(more) <= Capacity THEN tasks \cup more ELSE tasks

\* _missing_today_bar: the symbols without a bar of today, and those whose quote is old.
MissingToday(data) == {s \in Held(data) : LastOf(data[s]) < day}

\* The patch and update_live_cache, once for the symbols of the source and once for those of
\* the fallback; stale are the symbols asked for and quoted those that were answered.
PatchAndUpdate(stale, quoted) ==
    /\ scan.pc = "patch"
    /\ MissingToday(scan.data) \subseteq stale /\ stale \subseteq Held(scan.data)
    /\ quoted \subseteq stale
    /\ LET data == [s \in Tickers |->
                      IF s \in quoted THEN Patched(scan.data[s], scan.source) ELSE scan.data[s]]
           primary == stale \ scan.fallback
           other == stale \cap scan.fallback
           updated == (IF primary # {} THEN {scan.source} ELSE {})
                        \cup (IF other # {} THEN {"yfinance"} ELSE {})
       IN /\ memory' = [b \in Sources |-> IF b \in updated THEN Merged(b, data) ELSE memory[b]]
          /\ queue' = Submitted(Submitted(queue, Flushed(scan.source, data, primary)),
                               Flushed("yfinance", data, other))
    /\ scan' = NoScan
    /\ UNCHANGED <<day, phase, disk, fullAt, mishaps>>

\* Two workers take the tasks, in no order that lasts.
Flush(task) ==
    /\ task \in queue
    /\ disk' = [disk EXCEPT ![task.source] = Over(task.data, @)]
    /\ queue' = queue \ {task}
    /\ UNCHANGED <<day, phase, fullAt, memory, scan, mishaps>>

\* A new process: memory and queue are gone, and the disk too where it is ephemeral.
Restart(wiped) ==
    /\ Mishap
    /\ memory' = [b \in Sources |-> [loaded |-> 0, data |-> [s \in Tickers |-> NoHistory]]]
    /\ queue' = {} /\ scan' = NoScan
    /\ disk' = IF wiped THEN [b \in Sources |-> [s \in Tickers |-> NoHistory]] ELSE disk
    /\ fullAt' = IF wiped THEN [b \in Sources |-> [s \in Tickers |-> 0]] ELSE fullAt
    /\ UNCHANGED <<day, phase>>

\* The market opens and closes under a scan; midnight does not pass under one.
NextPhase ==
    /\ phase # "closed"
    /\ phase' = IF phase = "pre" THEN "open" ELSE "closed"
    /\ UNCHANGED <<day, disk, fullAt, memory, queue, scan, mishaps>>

NextDay ==
    /\ phase = "closed" /\ day < LastDay /\ scan.pc = "idle"
    /\ day' = day + 1 /\ phase' = "pre"
    /\ UNCHANGED <<disk, fullAt, memory, queue, scan, mishaps>>

HistoryNext ==
    \/ \E answered \in SUBSET Tickers :
         (\E b \in Feeds : LoadPrimary(b, answered)) \/ LoadFallback(answered)
    \/ \E stale \in SUBSET Tickers : \E quoted \in SUBSET stale : PatchAndUpdate(stale, quoted)
    \/ \E task \in queue : Flush(task)
    \/ \E wiped \in BOOLEAN : Restart(wiped)
    \/ NextPhase \/ NextDay

HistorySpec == HistoryInit /\ [][HistoryNext]_historyVars
-----------------------------------------------------------------------------
(* The types of the state. *)
HistoryTypeOK ==
    LET Frames == [Tickers -> History \cup {NoHistory}] IN
    /\ day \in Days /\ phase \in {"pre", "open", "closed"}
    /\ disk \in [Sources -> Frames] /\ fullAt \in [Sources -> [Tickers -> 0 .. LastDay]]
    /\ memory \in [Sources -> [loaded : 0 .. LastDay, data : Frames]]
    /\ \A task \in queue : task \in [source : Sources, data : Frames]
    /\ Cardinality(queue) <= Capacity
    /\ scan \in [pc : {"idle", "fallback", "patch"}, source : Sources, data : Frames,
                 fallback : SUBSET Tickers]
    /\ mishaps \in 0 .. MaxMishaps

\* Every history there is: in a file, in memory, under way to a file or in the hands of a scan.
Frames ==
    (UNION {UNION {{disk[b][s], memory[b].data[s], scan.data[s]} : s \in Tickers} : b \in Sources})
      \cup (UNION {{task.data[s] : s \in Tickers} : task \in queue})

(* Behind the last bar of a history every bar is there and final: a bar taken while the market
   was open is not kept as a day's close once a later day follows it, whatever is patched,
   dropped from the queue, flushed late or lost, unless the fetch of that very day failed
   (the tail of get_history starts at the last cached day). *)
InnerBarsFinal ==
    \A h \in Frames \ {NoHistory} : \A d \in Days :
        d < LastOf(h) => h.bars[d] = "final" \/ d \in h.gaps
=============================================================================
