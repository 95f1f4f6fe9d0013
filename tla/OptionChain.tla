----------------------------- MODULE OptionChain -----------------------------
(* The fetch of an option chain from the broker (utils/upstox_client.py,
   _get_option_chain_with_retry) behind its own bucket of tokens and its own cache
   (utils/option_chain_diagnostics.py). The worker's pool, the index panel and the pages
   call it from several threads of one process.

   A chain is reduced to the moment the broker read it. Sleeps are lower bounds: a thread
   may wake up later than it asked to. *)
EXTENDS Integers, FiniteSets, FiniteSetsExt

CONSTANTS
    Callers,        \* the threads that fetch chains
    Contracts,      \* the pairs of an underlying and an expiry
    Share,          \* shares in one token
    Rate,           \* shares per unit of time, _OC_RATE_PER_SEC
    BucketSize,     \* tokens, _OC_BUCKET_CAPACITY
    ChainTtl,       \* _CACHE_TTL_S
    CacheSize,      \* _MAX_ENTRIES
    Retries,        \* _MAX_RETRIES
    Patience,       \* the request's timeout
    LastTick,       \* bound: time
    NoChain

ASSUME ChainAssumption ==
    /\ IsFiniteSet(Callers) /\ IsFiniteSet(Contracts)
    /\ Share \in Nat \ {0} /\ Rate \in Nat \ {0} /\ BucketSize \in Nat \ {0} /\ ChainTtl \in Nat \ {0}
    /\ CacheSize \in Nat \ {0} /\ Retries \in Nat \ {0} /\ Patience \in Nat /\ LastTick \in Nat

VARIABLES
    clock,          \* time.monotonic()
    tokens,         \* _tokens, in shares
    refilled,       \* _last_refill
    chains,         \* _cache: when the chain was read, and when it was stored
    call,           \* where each thread is in its call
    answer,         \* what the last call of each thread returned, and when
    sent            \* history: by moment, the requests so far that are not repeats of a 429

chainVars == <<clock, tokens, refilled, chains, call, answer, sent>>

Ticks == 0 .. LastTick

NoCall == [pc |-> "idle", key |-> NoChain, attempt |-> 0, paid |-> FALSE, at |-> 0, read |-> 0]

At(t, pc) == call[t].pc = pc
-----------------------------------------------------------------------------
ChainInit ==
    /\ clock = 0 /\ tokens = BucketSize * Share /\ refilled = 0
    /\ chains = [k \in Contracts |-> NoChain]
    /\ call = [t \in Callers |-> NoCall]
    /\ answer = [t \in Callers |-> NoChain]
    /\ sent = [n \in Ticks |-> 0]

\* Mutant: the age of an entry is not looked at.
FreshIfThere(k) == chains[k] # NoChain

Fresh(k) == chains[k] # NoChain /\ clock - chains[k].stored < ChainTtl

\* get_cached_chain.
Hit(t, k) ==
    /\ At(t, "idle") /\ Fresh(k)
    /\ answer' = [answer EXCEPT ![t] = [read |-> chains[k].read, at |-> clock]]
    /\ UNCHANGED <<clock, tokens, refilled, chains, call, sent>>

\* An entry past its age is deleted. Without an access token the call ends here.
Miss(t, k) ==
    /\ At(t, "idle") /\ ~Fresh(k)
    /\ chains' = [chains EXCEPT ![k] = NoChain]
    /\ \/ call' = [call EXCEPT ![t] = [NoCall EXCEPT !.pc = "token", !.key = k, !.attempt = 1,
                                              !.paid = TRUE]]
       \/ UNCHANGED call
    /\ UNCHANGED <<clock, tokens, refilled, answer, sent>>

Refill == Min({BucketSize * Share, tokens + (clock - refilled) * Rate})

\* acquire: the refill and the decision are one step, under the bucket's lock. The token
\* taken after the last failed attempt is not used.
TakeToken(t) ==
    /\ At(t, "token") /\ Refill >= Share
    /\ tokens' = Refill - Share /\ refilled' = clock
    /\ call' = [call EXCEPT ![t] = IF @.attempt > Retries THEN NoCall
                                   ELSE [@ EXCEPT !.pc = "ready"]]
    /\ UNCHANGED <<clock, chains, answer, sent>>

WaitForToken(t) ==
    /\ At(t, "token") /\ Refill < Share
    /\ tokens' = Refill /\ refilled' = clock
    /\ UNCHANGED <<clock, chains, call, answer, sent>>

\* The request, at once or after the sleep that follows a failure.
Send(t) ==
    /\ At(t, "ready")
    /\ call' = [call EXCEPT ![t] = [@ EXCEPT !.pc = "sent", !.at = clock]]
    /\ sent' = [n \in Ticks |-> IF n >= clock /\ call[t].paid THEN sent[n] + 1 ELSE sent[n]]
    /\ UNCHANGED <<clock, tokens, refilled, chains, answer>>

\* External: the broker reads the chain.
Read(t) ==
    /\ At(t, "sent")
    /\ call' = [call EXCEPT ![t] = [@ EXCEPT !.pc = "read", !.read = clock]]
    /\ UNCHANGED <<clock, tokens, refilled, chains, answer, sent>>

\* store_chain: the entries past their age are dropped, and of too many the oldest.
Young(cache) ==
    [k \in Contracts |-> IF cache[k] # NoChain /\ clock - cache[k].stored >= ChainTtl
                         THEN NoChain ELSE cache[k]]

Swept(cache) ==
    LET young == Young(cache)
        there == {k \in Contracts : young[k] # NoChain}
    IN {[k \in Contracts |-> IF k \in kept THEN young[k] ELSE NoChain] :
            kept \in {x \in SUBSET there :
                        /\ Cardinality(x) = Min({CacheSize, Cardinality(there)})
                        /\ \A k \in x, j \in there \ x : young[j].stored <= young[k].stored}}

Receive(t) ==
    /\ At(t, "read")
    /\ chains' \in Swept([chains EXCEPT ![call[t].key] = [read |-> call[t].read, stored |-> clock]])
    /\ answer' = [answer EXCEPT ![t] = [read |-> call[t].read, at |-> clock]]
    /\ call' = [call EXCEPT ![t] = NoCall]
    /\ UNCHANGED <<clock, tokens, refilled, sent>>

\* 429: the back-off is the broker's own signal, and the repeat takes no token.
RateLimited(t) ==
    /\ At(t, "read")
    /\ call' = [call EXCEPT ![t] =
                  IF @.attempt = Retries THEN NoCall
                  ELSE [@ EXCEPT !.pc = "ready", !.attempt = call[t].attempt + 1, !.paid = FALSE]]
    /\ UNCHANGED <<clock, tokens, refilled, chains, answer, sent>>

\* 401: the call returns None.
Unauthorised(t) ==
    /\ At(t, "read")
    /\ call' = [call EXCEPT ![t] = NoCall]
    /\ UNCHANGED <<clock, tokens, refilled, chains, answer, sent>>

\* Mutant: the next attempt follows the failure without a token.
RepeatWithoutToken(t) ==
    /\ At(t, "sent") \/ At(t, "read")
    /\ call' = [call EXCEPT ![t] = IF @.attempt = Retries THEN NoCall
                                  ELSE [@ EXCEPT !.pc = "ready", !.attempt = call[t].attempt + 1]]
    /\ UNCHANGED <<clock, tokens, refilled, chains, answer, sent>>

\* Any other failure, a timeout included: a token is taken before the next attempt.
RequestFails(t) ==
    /\ At(t, "sent") \/ At(t, "read")
    /\ call' = [call EXCEPT ![t] = [@ EXCEPT !.pc = "token", !.attempt = call[t].attempt + 1,
                                              !.paid = TRUE]]
    /\ UNCHANGED <<clock, tokens, refilled, chains, answer, sent>>

\* A request is answered, or given up, within its timeout.
Later ==
    /\ clock < LastTick
    /\ \A t \in Callers : At(t, "sent") \/ At(t, "read") => clock - call[t].at < Patience
    /\ clock' = clock + 1
    /\ UNCHANGED <<tokens, refilled, chains, call, answer, sent>>

ChainNext ==
    \/ \E t \in Callers :
         \/ \E k \in Contracts : Hit(t, k) \/ Miss(t, k)
         \/ TakeToken(t) \/ WaitForToken(t) \/ Send(t) \/ Read(t)
         \/ Receive(t) \/ RateLimited(t) \/ Unauthorised(t) \/ RequestFails(t)
    \/ Later

ChainSpec == ChainInit /\ [][ChainNext]_chainVars
-----------------------------------------------------------------------------
(* The types of the state. *)
ChainTypeOK ==
    /\ clock \in Ticks /\ tokens \in 0 .. BucketSize * Share /\ refilled \in 0 .. clock
    /\ \A k \in Contracts : chains[k] # NoChain =>
         chains[k] \in [read : Ticks, stored : Ticks]
    /\ Cardinality({k \in Contracts : chains[k] # NoChain}) <= CacheSize
    /\ call \in [Callers -> [pc : {"idle", "token", "ready", "sent", "read"},
                             key : Contracts \cup {NoChain}, attempt : 0 .. Retries + 1,
                             paid : BOOLEAN, at : Ticks, read : Ticks]]
    /\ \A t \in Callers : answer[t] # NoChain => answer[t] \in [read : Ticks, at : Ticks]

(* The budget of the endpoint: in no stretch of time do more requests leave than the
   bucket held and gained, and one per thread that held a token when the stretch began.
   The repeats of a 429 are outside it, as the code decides. (acquire, under its lock,
   and the place of the calls of acquire_option_chain_slot) *)
RateBudget ==
    \A a \in Ticks : \A b \in a .. LastTick :
        (sent[b] - (IF a = 0 THEN 0 ELSE sent[a - 1])) * Share
            <= (BucketSize + Cardinality(Callers)) * Share + Rate * (b - a)

(* No caller is given a chain older than the cache's age and one request's time, however
   the answers of slow requests overtake one another. (get_cached_chain, store_chain) *)
ChainAgeBound ==
    \A t \in Callers : answer[t] # NoChain => answer[t].at - answer[t].read < ChainTtl + Patience
=============================================================================
