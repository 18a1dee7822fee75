------------------------------- MODULE Embedder -------------------------------
(***************************************************************************)
(* src/embeddings.py as Memory uses it: auto_detect_provider(), the probe   *)
(* of the dimension, and embed() of the four HTTP providers over one HTTP   *)
(* client and one LRU cache for the process.  OpenAI's and NVIDIA's differ  *)
(* in the address and the key.                                              *)
(*                                                                          *)
(* Coroutines of one event loop interleave where they await.  A tool that   *)
(* goes through Brain runs in a loop of its own, closed when it is done;    *)
(* the loop that called it stands still meanwhile (_run_async()).  The      *)
(* vector of a text is the text itself.  Waiting for the rate limiter and   *)
(* between attempts takes no step: any time may pass in any state.          *)
(***************************************************************************)
EXTENDS Naturals, Sequences, SequencesExt

CONSTANTS Calls,       \* embed() calls, each of a Memory of its own
          Wanted,      \* call -> its texts
          LoopOf,      \* call -> the loop it runs in
          Patience,    \* call -> the HTTP timeout it asks for
          Main,        \* the loop that lasts
          Settings,    \* bound: what DUCKBOT_EMBEDDING may be, "auto" if unset
          Keys,        \* providers with an API key
          BatchSize, CacheSize, MaxRetries,
          None,        \* no client, no vector, no provider
          MaxFaults    \* bound: requests that fail

VARIABLES explicit,    \* DUCKBOT_EMBEDDING
          current,     \* the loop that runs
          closed,      \* loops that are closed
          client,      \* _http_client: [loop, timeout], or None
          dims,        \* _EMBEDDER_DIM_CACHE: provider -> "unknown", "known", "failed"
          cache,       \* _embed_cache: <<model, text>>, oldest first
          at,          \* call -> where it is
          provider,    \* call -> its provider
          vectors,     \* call -> position -> vector
          todo,        \* call -> positions to fetch
          tries,       \* call -> attempts of this batch that failed
          uses,        \* call -> the client of its request
          faults

embedVars == <<explicit, current, closed, client, dims, cache, at, provider, vectors, todo, tries, uses, faults>>

Loops     == {LoopOf[c] : c \in Calls} \cup {Main}
Providers == {"lmstudio", "minimax", "openai", "nvidia"}
Positions(c) == DOMAIN Wanted[c]
Ended(c)  == at[c] \in {"done", "failed"}
Places    == {"new", "detect", "probe", "probing", "ready", "fetch", "posted", "done", "failed"}

EmbedTypeOK ==
  /\ explicit \in Settings
  /\ current \in Loops /\ closed \subseteq Loops
  /\ client \in [loop : Loops, timeout : Nat] \cup {None}
  /\ dims \in [Providers -> {"unknown", "known", "failed"}]
  /\ Len(cache) <= CacheSize
  /\ at \in [Calls -> Places]
  /\ provider \in [Calls -> Providers \cup {None}]
  /\ tries \in [Calls -> 0 .. MaxRetries] /\ faults \in 0 .. MaxFaults

EmbedInit ==
  /\ explicit \in Settings
  /\ current = Main /\ closed = {} /\ client = None
  /\ dims = [p \in Providers |-> "unknown"] /\ cache = <<>>
  /\ at = [c \in Calls |-> "new"] /\ provider = [c \in Calls |-> None]
  /\ vectors = [c \in Calls |-> [i \in Positions(c) |-> None]]
  /\ todo = [c \in Calls |-> <<>>] /\ tries = [c \in Calls |-> 0]
  /\ uses = [c \in Calls |-> None] /\ faults = 0

-----------------------------------------------------------------------------
Goto(c, p) == at' = [at EXCEPT ![c] = p]
Runs(c)    == current = LoopOf[c]
Fault      == faults < MaxFaults /\ faults' = faults + 1

\* _run_async(): the loop of a tool is made, and closed with its last call.
EnterLoop(l) ==
  /\ current = Main /\ l \notin closed \cup {Main} /\ current' = l
  /\ UNCHANGED <<explicit, closed, client, dims, cache, at, provider, vectors, todo, tries, uses, faults>>
LeaveLoop ==
  /\ current # Main /\ \A c \in Calls : Runs(c) => Ended(c)
  /\ closed' = closed \cup {current} /\ current' = Main
  /\ UNCHANGED <<explicit, client, dims, cache, at, provider, vectors, todo, tries, uses, faults>>

\* _get_http_client(): the client there is, if it was made in this loop.
Client(l, timeout) ==
  IF client # None /\ client.loop = l THEN client ELSE [loop |-> l, timeout |-> timeout]

Send(c, timeout) ==
  /\ client' = Client(current, timeout)
  /\ uses' = [uses EXCEPT ![c] = client']

\* auto_detect_provider(): the next of the chain that has a key.
Keyed == IF "minimax" \in Keys THEN "minimax" ELSE IF "openai" \in Keys THEN "openai" ELSE None

Take(c, p) ==
  /\ provider' = [provider EXCEPT ![c] = p]
  /\ Goto(c, IF p = None THEN "failed" ELSE IF p = "lmstudio" \/ dims[p] # "unknown" THEN "ready" ELSE "probe")

\* LM Studio is asked for the length of a vector unless it is known; a probe
\* that failed before is made again.
Detect(c) ==
  /\ at[c] = "new" /\ Runs(c)
  /\ \/ /\ explicit \in {"minimax", "openai", "nvidia"}
        /\ Take(c, IF explicit \in Keys THEN explicit ELSE None)
        /\ UNCHANGED <<client, uses>>
     \/ /\ explicit \in {"auto", "lmstudio"} /\ dims["lmstudio"] = "known"
        /\ Take(c, "lmstudio") /\ UNCHANGED <<client, uses>>
     \/ /\ explicit \in {"auto", "lmstudio"} /\ dims["lmstudio"] # "known"
        /\ Send(c, 5) /\ Goto(c, "detect") /\ UNCHANGED provider
  /\ UNCHANGED <<explicit, current, closed, dims, cache, vectors, todo, tries, faults>>

Detected(c) ==
  /\ at[c] = "detect" /\ Runs(c)
  /\ \/ dims' = [dims EXCEPT !["lmstudio"] = "known"] /\ Take(c, "lmstudio") /\ UNCHANGED faults
     \/ dims' = [dims EXCEPT !["lmstudio"] = "failed"] /\ Take(c, Keyed) /\ Fault
  /\ UNCHANGED <<explicit, current, closed, client, cache, vectors, todo, tries, uses>>

\* _ensure_initialized(): one text is embedded for the dimension, with the
\* provider's own timeout; a failure is remembered and changes nothing else.
Probe(c) ==
  /\ at[c] = "probe" /\ Runs(c)
  /\ Send(c, 60) /\ Goto(c, "probing")
  /\ UNCHANGED <<explicit, current, closed, dims, cache, provider, vectors, todo, tries, faults>>
Probed(c) ==
  /\ at[c] = "probing" /\ Runs(c)
  /\ \/ dims' = [dims EXCEPT ![provider[c]] = "known"] /\ UNCHANGED faults
     \/ dims' = [dims EXCEPT ![provider[c]] = "failed"] /\ Fault
  /\ Goto(c, "ready")
  /\ UNCHANGED <<explicit, current, closed, client, cache, provider, vectors, todo, tries, uses>>

-----------------------------------------------------------------------------
(* embed()                                                                 *)

Key(c, i)    == <<provider[c], Wanted[c][i]>>
Cached(c)    == {i \in Positions(c) : Key(c, i) \in Range(cache)}
Batch(c)     == SubSeq(todo[c], 1, IF Len(todo[c]) < BatchSize THEN Len(todo[c]) ELSE BatchSize)

\* get() of what is there makes it the youngest; put() of something new may
\* cost the oldest.
Got(s, k) == Append(RemoveAt(s, CHOOSE i \in DOMAIN s : s[i] = k), k)
\* Mutated form of Put: one entry too many is kept.
PutLate(s, k) == IF k \in Range(s) THEN Got(s, k) ELSE Append(IF Len(s) > CacheSize THEN Tail(s) ELSE s, k)
Put(s, k) == IF k \in Range(s) THEN Got(s, k) ELSE Append(IF Len(s) >= CacheSize THEN Tail(s) ELSE s, k)

\* The texts that are in the cache are taken from it one after the other ...
Gotten(c) ==
  LET upTo[i \in 0 .. Len(Wanted[c])] ==
        IF i = 0 THEN cache
        ELSE IF i \in Cached(c) THEN Got(upTo[i - 1], Key(c, i)) ELSE upTo[i - 1]
  IN  upTo[Len(Wanted[c])]

\* ... and the places of the others are left to fetch, in order.
Missing(c) ==
  LET upTo[i \in 0 .. Len(Wanted[c])] ==
        IF i = 0 THEN <<>>
        ELSE IF i \in Cached(c) THEN upTo[i - 1] ELSE Append(upTo[i - 1], i)
  IN  upTo[Len(Wanted[c])]

Look(c) ==
  /\ at[c] = "ready" /\ Runs(c)
  /\ vectors' = [vectors EXCEPT ![c] = [i \in Positions(c) |-> IF i \in Cached(c) THEN Wanted[c][i] ELSE None]]
  /\ cache' = Gotten(c)
  /\ todo' = [todo EXCEPT ![c] = Missing(c)]
  /\ Goto(c, IF todo'[c] = <<>> THEN "done" ELSE "fetch")
  /\ UNCHANGED <<explicit, current, closed, client, dims, provider, tries, uses, faults>>

\* A batch is sent.  MiniMax has no timeout of the caller's.
Timeout(c) == IF provider[c] = "minimax" THEN 60 ELSE Patience[c]
Post(c) ==
  /\ at[c] = "fetch" /\ Runs(c)
  /\ Send(c, Timeout(c)) /\ Goto(c, "posted")
  /\ UNCHANGED <<explicit, current, closed, dims, cache, provider, vectors, todo, tries, faults>>

\* Mutated form of Filled: the vectors are laid over the texts from the first.
FilledFirst(c) == [i \in Positions(c) |-> IF i <= Len(Batch(c)) THEN Wanted[c][Batch(c)[i]] ELSE vectors[c][i]]

\* The vectors of a batch go to the positions of its texts.
Filled(c) == [i \in Positions(c) |-> IF i \in Range(Batch(c)) THEN Wanted[c][i] ELSE vectors[c][i]]

\* They are cached one after the other.
Kept(c) ==
  LET upTo[i \in 0 .. Len(Batch(c))] == IF i = 0 THEN cache ELSE Put(upTo[i - 1], Key(c, Batch(c)[i]))
  IN  upTo[Len(Batch(c))]

Reply(c) ==
  /\ at[c] = "posted" /\ Runs(c)
  /\ vectors' = [vectors EXCEPT ![c] = Filled(c)]
  /\ cache' = Kept(c)
  /\ todo' = [todo EXCEPT ![c] = SubSeq(@, Len(Batch(c)) + 1, Len(@))]
  /\ tries' = [tries EXCEPT ![c] = 0]
  /\ Goto(c, IF todo'[c] = <<>> THEN "done" ELSE "fetch")
  /\ UNCHANGED <<explicit, current, closed, client, dims, provider, uses, faults>>

\* A request fails: LM Studio and MiniMax are asked again if it may help.
Fail(c, passing) ==
  /\ at[c] = "posted" /\ Runs(c) /\ Fault
  /\ IF passing /\ provider[c] \in {"lmstudio", "minimax"} /\ tries[c] < MaxRetries
       THEN tries' = [tries EXCEPT ![c] = @ + 1] /\ Goto(c, "fetch")
       ELSE Goto(c, "failed") /\ UNCHANGED tries
  /\ UNCHANGED <<explicit, current, closed, client, dims, cache, provider, vectors, todo, uses>>

EmbedNext ==
  \/ \E l \in Loops : EnterLoop(l)
  \/ LeaveLoop
  \/ \E c \in Calls :
       \/ Detect(c) \/ Detected(c) \/ Probe(c) \/ Probed(c) \/ Look(c) \/ Post(c) \/ Reply(c)
       \/ \E passing \in BOOLEAN : Fail(c, passing)

-----------------------------------------------------------------------------
(* Properties.                                                             *)

\* embed() gives each text its own vector, whichever of them were in the
\* cache, were evicted meanwhile or came in a later batch or attempt
\* (embeddings.py:442).
OwnVectors == \A c \in Calls : at[c] = "done" => vectors[c] = Wanted[c]

\* A request never goes out over a client that was made in another loop, one
\* that is closed above all (embeddings.py:115).
OwnLoop == \A c \in Calls : at[c] \in {"detect", "probing", "posted"} => uses[c].loop = LoopOf[c]

=============================================================================
