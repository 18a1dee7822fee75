------------------------------- MODULE Reranker -------------------------------
(***************************************************************************)
(* rerank() of src/rerank.py: the hits of a search are scored again by a    *)
(* model, in a pool of threads that all searches of the process share, and  *)
(* a search waits for its scores for so long only.  A backend is looked for *)
(* at each search until one is found, which is kept.                        *)
(*                                                                          *)
(* A search has the hits 1 .. Hits, the best first; scores are tenths.      *)
(***************************************************************************)
EXTENDS Naturals, Sequences, FiniteSets

CONSTANTS Searches,   \* calls of rerank()
          Threads,    \* of _SCORE_EXECUTOR
          Backends,   \* in the order they are tried; the last needs no server
          Hits,
          Scores,     \* that a server may give a hit
          None,
          MaxFaults   \* bound: scorings that hang or fail, and servers that come and go

VARIABLES up,         \* backends that are available
          backend,    \* _BACKEND
          phase,      \* search -> where it is
          probing,    \* search -> the position in Backends it looks at
          given,      \* search -> the scores of its hits, as the server means them
          ranked,     \* search -> its hits in the order it returns
          line,       \* futures that no thread has taken
          thread,     \* thread -> the search it scores, None, or "hung"
          faults

rerankVars == <<up, backend, phase, probing, given, ranked, line, thread, faults>>

AsGiven == [i \in 1 .. Hits |-> i]
Orders  == {s \in [1 .. Hits -> 1 .. Hits] : \A i, j \in 1 .. Hits : i # j => s[i] # s[j]}

RerankTypeOK ==
  /\ up \subseteq {Backends[i] : i \in DOMAIN Backends} /\ backend \in {Backends[i] : i \in DOMAIN Backends} \cup {None}
  /\ phase \in [Searches -> {"new", "probe", "submit", "wait", "done"}]
  /\ probing \in [Searches -> 0 .. Len(Backends) + 1]
  /\ given \in [Searches -> [1 .. Hits -> Scores \cup {0}]]
  /\ ranked \in [Searches -> Orders]
  /\ line \in Seq(Searches)
  /\ thread \in [Threads -> Searches \cup {None, "hung"}]
  /\ faults \in 0 .. MaxFaults

RerankInit ==
  /\ up \in SUBSET {Backends[i] : i \in DOMAIN Backends}
  /\ backend = None
  /\ phase = [s \in Searches |-> "new"] /\ probing = [s \in Searches |-> 0]
  /\ given = [s \in Searches |-> [i \in 1 .. Hits |-> 0]]
  /\ ranked = [s \in Searches |-> AsGiven]
  /\ line = <<>> /\ thread = [t \in Threads |-> None]
  /\ faults = 0

Fails == faults < MaxFaults /\ faults' = faults + 1
To(s, p) == phase' = [phase EXCEPT ![s] = p]

-----------------------------------------------------------------------------
(* The backend.                                                            *)

\* A server starts or stops.
Flip(b) ==
  /\ Fails
  /\ up' = IF b \in up THEN up \ {b} ELSE up \cup {b}
  /\ UNCHANGED <<backend, phase, probing, given, ranked, line, thread>>

Ask(s) ==
  /\ phase[s] = "new"
  /\ IF backend # None THEN To(s, "submit") /\ UNCHANGED probing
                       ELSE To(s, "probe") /\ probing' = [probing EXCEPT ![s] = 1]
  /\ UNCHANGED <<up, backend, given, ranked, line, thread, faults>>

\* _resolve_backend(): the first that is available; without any, the order
\* stays and nothing is kept.
Resolve(s) ==
  /\ phase[s] = "probe"
  /\ \/ /\ probing[s] \in DOMAIN Backends /\ Backends[probing[s]] \in up
        /\ backend' = Backends[probing[s]]
        /\ To(s, "submit") /\ UNCHANGED probing
     \/ /\ probing[s] \in DOMAIN Backends /\ Backends[probing[s]] \notin up
        /\ probing' = [probing EXCEPT ![s] = @ + 1]
        /\ UNCHANGED <<backend, phase>>
     \/ probing[s] > Len(Backends) /\ To(s, "done") /\ UNCHANGED <<backend, probing>>
  /\ UNCHANGED <<up, given, ranked, line, thread, faults>>

-----------------------------------------------------------------------------
(* The pool.                                                               *)

Submit(s) ==
  /\ phase[s] = "submit"
  /\ To(s, "wait")
  /\ line' = Append(line, s)
  /\ UNCHANGED <<up, backend, probing, given, ranked, thread, faults>>

\* A thread takes the next future, of a search that has given up as well.
TakeUp(t) ==
  /\ thread[t] = None /\ line # <<>>
  /\ thread' = [thread EXCEPT ![t] = Head(line)]
  /\ line' = Tail(line)
  /\ UNCHANGED <<up, backend, phase, probing, given, ranked, faults>>

\* Mutated form of Parsed: the scores are taken in the order of the answer.
ParsedInOrder(answer) ==
  [i \in 1 .. Hits |-> IF i \in DOMAIN answer THEN answer[i].score ELSE 0]

\* _parse_cohere_rerank_response(): entries come with the best first, and say
\* by an index which hit they are about; a hit may be missing.
Parsed(answer) ==
  [i \in 1 .. Hits |->
    IF \E e \in DOMAIN answer : answer[e].index = i
      THEN answer[CHOOSE e \in DOMAIN answer : answer[e].index = i].score ELSE 0]

\* What a server answers: the scores of the hits in D, the best first.
Answers(scores, D) ==
  {a \in [1 .. Cardinality(D) -> {[index |-> i, score |-> scores[i]] : i \in D}] :
     /\ \A e, f \in DOMAIN a : e < f => a[e].score >= a[f].score
     /\ \A e, f \in DOMAIN a : e # f => a[e].index # a[f].index}

\* The final score: seven parts of the new one, three of the old, which falls
\* evenly from the first hit to the last.
Final(scores, i) == 7 * scores[i] * (Hits - 1) + 3 * 10 * (Hits - i)

Sorted(scores) ==
  CHOOSE o \in Orders : \A i, j \in 1 .. Hits : i < j =>
    \/ Final(scores, o[i]) > Final(scores, o[j])
    \/ Final(scores, o[i]) = Final(scores, o[j]) /\ o[i] < o[j]

\* The thread is done.  Whoever still waits gets the scores, and those of a
\* backend that swallows its errors are all 0.
Score(t) ==
  /\ thread[t] \in Searches
  /\ LET s == thread[t] IN
     IF phase[s] = "wait"
       THEN \E g \in [1 .. Hits -> Scores], D \in SUBSET (1 .. Hits) : \E a \in Answers(g, D) :
              /\ given' = [given EXCEPT ![s] = [i \in 1 .. Hits |-> IF i \in D THEN g[i] ELSE 0]]
              /\ ranked' = [ranked EXCEPT ![s] = Sorted(Parsed(a))]
              /\ To(s, "done")
       ELSE UNCHANGED <<given, ranked, phase>>
  /\ thread' = [thread EXCEPT ![t] = None]
  /\ UNCHANGED <<up, backend, probing, line, faults>>

\* The backend raises: the order stays.
ScoreFails(t) ==
  /\ thread[t] \in Searches /\ Fails
  /\ phase' = [phase EXCEPT ![thread[t]] = "done"]
  /\ thread' = [thread EXCEPT ![t] = None]
  /\ UNCHANGED <<up, backend, probing, given, ranked, line>>

\* An import, or a server without a timeout, never ends.
Hang(t) ==
  /\ thread[t] \in Searches /\ Fails
  /\ thread' = [thread EXCEPT ![t] = "hung"]
  /\ UNCHANGED <<up, backend, phase, probing, given, ranked, line>>

\* future.result(timeout): the order stays, the future too.
GiveUp(s) ==
  /\ phase[s] = "wait"
  /\ To(s, "done")
  /\ UNCHANGED <<up, backend, probing, given, ranked, line, thread, faults>>

RerankTurn(s) == Resolve(s) \/ Submit(s) \/ GiveUp(s)

RerankNext ==
  \/ \E i \in DOMAIN Backends : Flip(Backends[i])
  \/ \E s \in Searches : Ask(s) \/ RerankTurn(s)
  \/ \E t \in Threads : TakeUp(t) \/ Score(t) \/ ScoreFails(t) \/ Hang(t)

\* Each search runs on a thread of its caller, and its timer fires.
RerankFairness == \A s \in Searches : WF_rerankVars(RerankTurn(s))

-----------------------------------------------------------------------------
(* Properties.                                                             *)

\* The order returned is that of the final scores, each made from the score
\* the server means for that very hit (rerank.py:371).
RanksByOwnScore ==
  \A s \in Searches : given[s] # [i \in 1 .. Hits |-> 0] =>
    \A i, j \in 1 .. Hits : i < j => Final(given[s], ranked[s][i]) >= Final(given[s], ranked[s][j])

\* Every search returns, however many threads of the pool hang (rerank.py:596).
RerankReturns == []<>(\A s \in Searches : phase[s] \in {"new", "done"})
=============================================================================
