---------------------------- MODULE RememberProofs ----------------------------
(***************************************************************************)
(* Theorems about Remember, for any number of facts, tiers, objects and    *)
(* calls.  TypeCorrect, MarksStay and Successors need no invariant but the *)
(* types and who is adding; what is said of marks and near duplicates      *)
(* rests on IndInv.                                                        *)
(***************************************************************************)
EXTENDS Remember, TLAPS

USE DEF Keys, Markers, Extras, Near, Topic

(* The effect of an upsert on the store. *)
LEMMA UpsertTyped ==
  ASSUME TypeOK, NEW k \in Keys, Upsert(k)
  PROVE  /\ present' \subseteq Keys
         /\ by' \in [Keys -> Markers]
         /\ born' \in [Keys -> Nat]
         /\ clock' \in Nat
BY DEF TypeOK, Upsert

(* What a query decides to mark: facts of the tier, whose nearest is a near *)
(* duplicate; nothing else unless a reconcile model has spoken.            *)
LEMMA LookFinds ==
  ASSUME TypeOK, NEW c \in Calls, Look(c)
  PROVE  \E first \in SUBSET Nearest(arg[c]), verdicts \in SUBSET Candidates(arg[c]) :
           /\ (first = {}) = (Nearest(arg[c]) = {})
           /\ (verdicts = {} /\ used' = used) \/ Use("reconcile")
           /\ hit' = [hit EXCEPT ![c] =
                        {y \in first : NearDuplicate(arg[c], y)} \cup verdicts]
           /\ hit' \in [Calls -> SUBSET Facts]
<1>. DEFINE k == arg[c]
<1>1. PICK first \in SUBSET Nearest(k), verdicts \in SUBSET Candidates(k) :
        /\ (first = {}) = (Nearest(k) = {})
        /\ IF rec[c] /\ verdicts # {} THEN Use("reconcile")
                                      ELSE verdicts = {} /\ UNCHANGED used
        /\ hit' = [hit EXCEPT ![c] = {y \in first : NearDuplicate(k, y)} \cup verdicts]
  BY DEF Look
<1>2. first \subseteq Facts /\ verdicts \subseteq Facts
  BY DEF Nearest, Others, Candidates
<1>3. hit' \in [Calls -> SUBSET Facts]
  BY <1>1, <1>2 DEF TypeOK
<1>4. (verdicts = {} /\ used' = used) \/ Use("reconcile")
  BY <1>1
<1>. QED BY <1>1, <1>3, <1>4

\* It holds in the first states.
LEMMA TypeInit == Init => TypeOK
<1>. SUFFICES ASSUME Init PROVE TypeOK
  OBVIOUS
<1>1. rec \in [Calls -> BOOLEAN]
  BY DEF Init
<1>2. by \in [Keys -> Markers] /\ born \in [Keys -> Nat] /\ hit \in [Calls -> SUBSET Facts]
  BY DEF Init
<1>. QED BY <1>1, <1>2 DEF Init, TypeOK

\* Every step keeps it.
LEMMA TypeStep ==
  ASSUME TypeOK, [Next]_vars
  PROVE  TypeOK'
<1>1. ASSUME NEW c \in Calls, Step(c) PROVE TypeOK'
  <2>a. arg[c] \in Keys
    BY DEF TypeOK
  <2>1. CASE Embed(c)
    BY <2>1 DEF Embed, Goto, TypeOK, store
  <2>2. CASE EmbedFails(c)
    BY <2>2 DEF EmbedFails, Goto, TypeOK, store
  <2>3. CASE Acquire(c)
    BY <2>3 DEF Acquire, Goto, TypeOK, store
  <2>4. CASE Look(c)
    <3>1. hit' \in [Calls -> SUBSET Facts] /\ (used' = used \/ Use("reconcile"))
      BY <2>4, LookFinds
    <3>2. used' \subseteq Extras
      BY <3>1 DEF Use, TypeOK
    <3>. QED BY <2>4, <3>1, <3>2 DEF Look, Goto, TypeOK, store
  <2>5. CASE Mark(c)
    BY <2>5, <2>a DEF Mark, Goto, TypeOK
  <2>6. CASE Add(c)
    BY <2>6, <2>a, UpsertTyped DEF Add, Goto, TypeOK
  <2>7. CASE SectionFails(c)
    BY <2>7 DEF SectionFails, Goto, TypeOK, store
  <2>8. CASE AddUnlocked(c)
    BY <2>8, <2>a, UpsertTyped DEF AddUnlocked, Goto, TypeOK
  <2>9. CASE AddUnlockedFails(c)
    BY <2>9 DEF AddUnlockedFails, Goto, TypeOK, store
  <2>. QED BY <1>1, <2>1, <2>2, <2>3, <2>4, <2>5, <2>6, <2>7, <2>8, <2>9 DEF Step
<1>2. ASSUME NEW i \in Instances, NEW x \in Facts, Forget(i, x) PROVE TypeOK'
  BY <1>2 DEF Forget, Use, TypeOK, call
<1>3. ASSUME NEW i \in Instances, NEW x \in Facts, NEW m \in Markers,
             Supersede(i, x, m)
      PROVE  TypeOK'
  BY <1>3 DEF Supersede, Use, TypeOK, call
<1>4. CASE UNCHANGED vars
  BY <1>4 DEF TypeOK, vars, store, call
<1>. QED BY <1>1, <1>2, <1>3, <1>4 DEF Next

(* Every variable keeps its type. *)
THEOREM TypeCorrect == Spec => []TypeOK
<1>. QED BY TypeInit, TypeStep, PTL DEF Spec

-----------------------------------------------------------------------------

(* A superseded chunk stays superseded until it is deleted, whichever calls *)
(* run and however they interleave.                                        *)
LEMMA MarkerKept ==
  ASSUME TypeOK, [Next]_vars, NEW k \in present \cap present', by[k] # Nobody
  PROVE  by'[k] # Nobody
<1>a. k \in Keys
  BY DEF TypeOK
<1>u. ASSUME NEW j \in Keys, Upsert(j) PROVE by'[k] # Nobody
  BY <1>u, <1>a DEF Upsert, TypeOK
<1>1. ASSUME NEW c \in Calls, Step(c) PROVE by'[k] # Nobody
  <2>a. arg[c] \in Keys /\ arg[c][2] # Nobody
    BY MarkerAssumption DEF TypeOK
  <2>5. CASE Mark(c)
    BY <2>5, <2>a, <1>a DEF Mark
  <2>6. CASE Add(c) \/ AddUnlocked(c)
    BY <2>6, <2>a, <1>u DEF Add, AddUnlocked
  <2>7. CASE UNCHANGED store
    BY <2>7 DEF store
  <2>. QED BY <1>1, <2>5, <2>6, <2>7 DEF Step, Embed, EmbedFails, Acquire, Look,
              SectionFails, AddUnlockedFails
<1>2. ASSUME NEW i \in Instances, NEW x \in Facts, Forget(i, x) PROVE by'[k] # Nobody
  BY <1>2 DEF Forget
<1>3. ASSUME NEW i \in Instances, NEW x \in Facts, NEW m \in Markers \ {Nobody},
             Supersede(i, x, m)
      PROVE  by'[k] # Nobody
  BY <1>3, <1>a DEF Supersede, TypeOK
<1>4. CASE UNCHANGED vars
  BY <1>4 DEF vars, store
<1>. QED BY <1>1, <1>2, <1>3, <1>4 DEF Next

(* For all constants: what was superseded is not revived by remembering it. *)
THEOREM MarksStay == Spec => StaysSuperseded
<1>1. TypeOK /\ [Next]_vars =>
        [\A k \in present \cap present' : by[k] # Nobody => by'[k] # Nobody]_vars
  BY MarkerKept
<1>. QED BY <1>1, TypeCorrect, PTL DEF Spec, StaysSuperseded

-----------------------------------------------------------------------------

(* A chunk superseded by conflict detection has its replacement stored, or  *)
(* about to be, by the call that marked it, unless that has raised.  Marking *)
(* and adding are steps of one call: this is inductive with the types alone. *)
LEMMA SuccessorStep ==
  ASSUME TypeOK, HiddenHasSuccessor, [Next]_vars
  PROVE  HiddenHasSuccessor'
<1>. DEFINE Unfinished == {"adding", "retry", "failed"}
<1>. SUFFICES ASSUME used' \subseteq {"reconcile"},
                     NEW k \in present', by'[k] \in Facts
              PROVE  \/ <<k[1], by'[k]>> \in present'
                     \/ \E c \in Calls : /\ pc'[c] \in Unfinished
                                         /\ arg'[c] = <<k[1], by'[k]>> /\ k[2] \in hit'[c]
  BY DEF HiddenHasSuccessor
<1>t. TypeOK'
  BY TypeStep
<1>a. k \in Keys
  BY <1>t DEF TypeOK
<1>. DEFINE Succ == \/ <<k[1], by[k]>> \in present
                    \/ \E c \in Calls : /\ pc[c] \in Unfinished
                                        /\ arg[c] = <<k[1], by[k]>> /\ k[2] \in hit[c]
<1>h. ASSUME used \subseteq {"reconcile"}, k \in present, by[k] \in Facts
      PROVE  Succ
  BY <1>h DEF HiddenHasSuccessor
<1>1. ASSUME NEW c \in Calls, Step(c) PROVE Succ'
  <2>a. arg[c] \in Keys /\ arg' = arg
    BY <1>1 DEF TypeOK, Step, Embed, EmbedFails, Acquire, Look, Mark, Add, SectionFails,
                AddUnlocked, AddUnlockedFails
  <2>1. CASE Embed(c) \/ Acquire(c) \/ Look(c)
    <3>1. /\ pc[c] \notin Unfinished
          /\ present' = present /\ by' = by
          /\ \A d \in Calls : d # c => pc'[d] = pc[d] /\ hit'[d] = hit[d]
          /\ used' = used \/ Use("reconcile")
      BY <2>1 DEF Embed, Acquire, Look, At, Goto, store, TypeOK
    <3>2. used \subseteq {"reconcile"}
      BY <3>1 DEF Use
    <3>3. Succ
      BY <3>1, <3>2, <1>h
    <3>. QED BY <3>1, <3>3, <2>a
  <2>2. CASE Mark(c)
    <3>1. /\ present' = present /\ used' = used /\ hit' = hit
          /\ pc[c] = "marking" /\ pc' = [pc EXCEPT ![c] = "adding"]
          /\ by'[k] = by[k] \/ (k[1] = arg[c][1] /\ by'[k] = arg[c][2] /\ k[2] \in hit[c])
      BY <2>2, <1>a DEF Mark, Goto
    <3>2. pc'[c] = "adding"
      BY <3>1 DEF TypeOK
    <3>3. CASE by'[k] = by[k]
      <4>1. Succ
        BY <3>1, <3>3, <1>h
      <4>. QED BY <4>1, <3>1, <3>3, <2>a DEF TypeOK
    <3>4. CASE k[1] = arg[c][1] /\ by'[k] = arg[c][2] /\ k[2] \in hit[c]
      <4>1. arg'[c] = <<k[1], by'[k]>>
        BY <3>4, <2>a DEF Keys
      <4>. QED BY <4>1, <3>1, <3>2, <3>4
    <3>. QED BY <3>1, <3>3, <3>4
  <2>3. CASE Add(c) \/ AddUnlocked(c)
    <3>1. /\ present' = present \cup {arg[c]} /\ used' = used /\ hit' = hit
          /\ pc' = [pc EXCEPT ![c] = "done"]
          /\ (by'[k] = by[k] /\ k \in present) \/ by'[k] = Nobody
      BY <2>3, <1>a, <2>a DEF Add, AddUnlocked, Upsert, Goto, TypeOK
    <3>2. k \in present /\ by'[k] = by[k]
      BY <3>1, MarkerAssumption
    <3>3. Succ
      BY <3>1, <3>2, <1>h
    <3>. QED BY <3>1, <3>2, <3>3, <2>a DEF TypeOK
  <2>4. CASE EmbedFails(c) \/ SectionFails(c) \/ AddUnlockedFails(c)
    <3>1. /\ present' = present /\ by' = by /\ used' = used /\ hit' = hit
          /\ pc'[c] \in Unfinished /\ \A d \in Calls : d # c => pc'[d] = pc[d]
      BY <2>4 DEF EmbedFails, SectionFails, AddUnlockedFails, Goto, store, TypeOK
    <3>2. Succ
      BY <3>1, <1>h
    <3>. QED BY <3>1, <3>2, <2>a
  <2>. QED BY <1>1, <2>1, <2>2, <2>3, <2>4 DEF Step
<1>2. ASSUME NEW i \in Instances, NEW x \in Facts, Forget(i, x) PROVE FALSE
  BY <1>2 DEF Forget, Use
<1>3. ASSUME NEW i \in Instances, NEW x \in Facts, NEW m \in Markers, Supersede(i, x, m)
      PROVE  FALSE
  BY <1>3 DEF Supersede, Use
<1>4. CASE UNCHANGED vars
  <2>1. Succ
    BY <1>4, <1>h DEF vars, store
  <2>. QED BY <1>4, <2>1 DEF vars, store, call
<1>. QED BY <1>1, <1>2, <1>3, <1>4 DEF Next

(* For all constants, several Memory objects included: as long as nothing   *)
(* is forgotten or marked by hand, no chunk is hidden in favour of one that *)
(* is not there, unless the call that hid it has raised.                   *)
THEOREM Successors == Spec => []HiddenHasSuccessor
<1>1. Init => HiddenHasSuccessor
  BY DEF Init, HiddenHasSuccessor
<1>2. TypeOK /\ HiddenHasSuccessor /\ [Next]_vars => HiddenHasSuccessor'
  BY SuccessorStep
<1>. QED BY <1>1, <1>2, TypeCorrect, PTL DEF Spec

-----------------------------------------------------------------------------

(* The rest is about the order of the calls' steps. *)

(* Only the call itself changes where it is. *)
LEMMA StepMoves ==
  ASSUME TypeOK, NEW c \in Calls, Step(c)
  PROVE  /\ arg' = arg
         /\ pc[c] # "done"
         /\ \A d \in Calls \ {c} : pc'[d] = pc[d] /\ hit'[d] = hit[d]
         /\ pc'[c] = "locked" => Acquire(c)
         /\ pc'[c] = "marking" => Look(c)
         /\ pc'[c] = "adding" => Mark(c)
         /\ pc'[c] = "retry" => SectionFails(c)
<1>1. arg' = arg /\ \E place \in {"embedded", "locked", "marking", "adding", "retry",
                                "done", "failed"} : pc' = [pc EXCEPT ![c] = place]
  BY DEF Step, Embed, EmbedFails, Acquire, Look, Mark, Add, SectionFails, AddUnlocked,
         AddUnlockedFails, Goto
<1>2. \A d \in Calls \ {c} : hit'[d] = hit[d]
  BY DEF Step, Embed, EmbedFails, Acquire, Look, Mark, Add, SectionFails, AddUnlocked,
         AddUnlockedFails, TypeOK
<1>3. /\ pc'[c] = "locked" => Acquire(c)
      /\ pc'[c] = "marking" => Look(c)
      /\ pc'[c] = "adding" => Mark(c)
      /\ pc'[c] = "retry" => SectionFails(c)
  BY DEF Step, Embed, EmbedFails, Acquire, Look, Mark, Add, SectionFails, AddUnlocked,
         AddUnlockedFails, Goto, TypeOK
<1>4. pc[c] # "done"
  BY DEF Step, Embed, EmbedFails, Acquire, Look, Mark, Add, SectionFails, AddUnlocked,
         AddUnlockedFails, At, Holds
<1>. QED BY <1>1, <1>2, <1>3, <1>4 DEF TypeOK

(* An object has one lock, so one call at a time on it is between query and *)
(* upsert.                                                                 *)
LEMMA HolderStep ==
  ASSUME TypeOK, OneHolder, [Next]_vars
  PROVE  OneHolder'
<1>1. ASSUME NEW c \in Calls, Step(c) PROVE OneHolder'
  <2>1. Holds(c)' => Holds(c) \/ Acquire(c)
    BY <1>1, StepMoves DEF Holds, Look, At, Mark
  <2>2. \A d \in Calls \ {c} : Holds(d)' <=> Holds(d)
    BY <1>1, StepMoves DEF Holds
  <2>3. Acquire(c) => \A d \in Calls : Instance[d] = Instance[c] => ~Holds(d)
    BY DEF Acquire
  <2>. QED BY <2>1, <2>2, <2>3 DEF OneHolder
<1>2. CASE UNCHANGED pc
  BY <1>2 DEF OneHolder, Holds
<1>. QED BY <1>1, <1>2 DEF Next, vars, call, Forget, Supersede

(* A retry has seen a failure. *)
LEMMA RetryStep ==
  ASSUME TypeOK, RetryFailed, [Next]_vars
  PROVE  RetryFailed' /\ (faults' = 0 => faults = 0) /\ used \subseteq used'
<1>1. ASSUME NEW c \in Calls, Step(c)
      PROVE RetryFailed' /\ faults' >= faults /\ used \subseteq used'
  <2>1. /\ faults' \in Nat /\ faults' >= faults
        /\ SectionFails(c) => faults' > 0
    BY <1>1 DEF Step, Embed, EmbedFails, Acquire, Look, Mark, Add, SectionFails,
                AddUnlocked, AddUnlockedFails, TypeOK
  <2>2. used \subseteq used'
    BY <1>1 DEF Step, Embed, EmbedFails, Acquire, Look, Mark, Add, SectionFails,
                AddUnlocked, AddUnlockedFails, Use
  <2>. QED BY <1>1, <2>1, <2>2, StepMoves DEF RetryFailed, TypeOK
<1>2. CASE UNCHANGED <<pc, faults>> /\ used \subseteq used'
  BY <1>2 DEF RetryFailed, TypeOK
<1>3. ASSUME NEW i \in Instances, NEW x \in Facts, NEW m \in Markers,
             Forget(i, x) \/ Supersede(i, x, m)
      PROVE  UNCHANGED <<pc, faults>> /\ used \subseteq used'
  BY <1>3 DEF Forget, Supersede, Use, call
<1>4. CASE UNCHANGED vars
  BY <1>4, <1>2 DEF vars, call
<1>. QED BY <1>1, <1>2, <1>3, <1>4 DEF TypeOK, Next

(* An upsert makes a chunk that was not there the youngest of all. *)
LEMMA UpsertBorn ==
  ASSUME TypeOK, Born, NEW k \in Keys, Upsert(k)
  PROVE  /\ Born'
         /\ present' = present \cup {k}
         /\ \A j \in present : by'[j] = by[j] /\ born'[j] = born[j]
         /\ k \notin present =>
              by'[k] = Nobody /\ \A j \in present : born[j] < born'[k]
<1>1. CASE k \in present
  BY <1>1 DEF Upsert, Born
<1>2. CASE k \notin present
  <2>1. /\ present' = present \cup {k} /\ by'[k] = Nobody /\ born'[k] = clock + 1
        /\ clock' = clock + 1
        /\ \A j \in present : by'[j] = by[j] /\ born'[j] = born[j]
    BY <1>2 DEF Upsert, TypeOK
  <2>2. \A j \in present : born[j] \in Nat /\ born[j] <= clock
    BY DEF Born, TypeOK
  <2>3. Born'
    BY <2>1, <2>2 DEF Born, TypeOK
  <2>. QED BY <2>1, <2>2, <2>3, <1>2 DEF TypeOK
<1>. QED BY <1>1, <1>2

\* No row is of a later time than the clock.
LEMMA BornStep ==
  ASSUME TypeOK, Born, [Next]_vars
  PROVE  Born'
<1>1. ASSUME NEW c \in Calls, Step(c) PROVE Born'
  <2>1. CASE Add(c) \/ AddUnlocked(c)
    BY <2>1, UpsertBorn DEF Add, AddUnlocked, TypeOK
  <2>2. CASE UNCHANGED <<present, born, clock>>
    BY <2>2 DEF Born
  <2>. QED BY <1>1, <2>1, <2>2 DEF Step, Embed, EmbedFails, Acquire, Look, Mark,
              SectionFails, AddUnlockedFails, store
<1>2. CASE present' \subseteq present /\ UNCHANGED <<born, clock>>
  BY <1>2 DEF Born
<1>3. [Next]_vars => (\E c \in Calls : Step(c))
                     \/ (present' \subseteq present /\ UNCHANGED <<born, clock>>)
  BY DEF Next, vars, store, Forget, Supersede
<1>. QED BY <1>1, <1>2, <1>3

(* While a call is between the query and the update nothing else uses the   *)
(* loop.                                                                   *)
LEMMA QuietLoop ==
  ASSUME OneInstance, NEW d \in Calls, pc[d] = "marking",
         NEW i \in Instances, LoopFree(i)
  PROVE  FALSE
BY DEF OneInstance, LoopFree

(* A chunk is there because a call has put it there, and ended.             *)
LEMMA StoredStep ==
  ASSUME TypeOK, Stored, [Next]_vars
  PROVE  Stored'
<1>1. ASSUME NEW c \in Calls, Step(c) PROVE Stored'
  <2>1. arg' = arg /\ pc[c] # "done" /\ \A d \in Calls \ {c} : pc'[d] = pc[d]
    BY <1>1, StepMoves
  <2>2. CASE Add(c) \/ AddUnlocked(c)
    <3>1. present' = present \cup {arg[c]} /\ pc'[c] = "done"
      BY <2>2 DEF Add, AddUnlocked, Upsert, Goto, TypeOK
    <3>. QED BY <3>1, <2>1 DEF Stored
  <2>3. CASE UNCHANGED present
    BY <2>1, <2>3 DEF Stored
  <2>. QED BY <1>1, <2>2, <2>3 DEF Step, Embed, EmbedFails, Acquire, Look, Mark,
              SectionFails, AddUnlockedFails, store
<1>2. CASE present' \subseteq present /\ UNCHANGED <<arg, pc>>
  BY <1>2 DEF Stored
<1>3. [Next]_vars => (\E c \in Calls : Step(c))
                     \/ (present' \subseteq present /\ UNCHANGED <<arg, pc>>)
  BY DEF Next, vars, store, call, Forget, Supersede
<1>. QED BY <1>1, <1>2, <1>3

(* A chunk is marked by one that is younger: the query that chose it saw    *)
(* that the new one was not there, and whoever stores that one meanwhile    *)
(* stores it later.  If the new one was there, some call had stored it, and *)
(* the chosen one is of the same text or named by a reconcile model.        *)
LEMMA AgeStep ==
  ASSUME TypeOK, RetryFailed, Born, Stored, HitsAreOlder, SupersederIsYounger,
         [Next]_vars
  PROVE  HitsAreOlder' /\ SupersederIsYounger'
<1>. SUFFICES ASSUME InOrder' PROVE HitsAreOlder' /\ SupersederIsYounger'
  BY DEF HitsAreOlder, SupersederIsYounger
<1>u. InOrder
  BY RetryStep DEF InOrder
<1>. DEFINE Older(c, y) == \/ MayCircle(y, arg[c])
                           \/ /\ <<arg[c][1], y>> \in present
                              /\ arg[c] \in present => born[<<arg[c][1], y>>] < born[arg[c]]
            Aged(k) == <<k[1], by[k]>> \in present =>
                         born[k] < born[<<k[1], by[k]>>] \/ MayCircle(k[2], <<k[1], by[k]>>)
<1>h. \A c \in Calls : pc[c] = "marking" => \A y \in hit[c] : Older(c, y)
  BY <1>u DEF HitsAreOlder
<1>s. \A k \in present : Aged(k)
  BY <1>u DEF SupersederIsYounger
<1>g. SUFFICES /\ \A c \in Calls : pc'[c] = "marking" => \A y \in hit'[c] : Older(c, y)'
               /\ \A k \in present' : Aged(k)'
  BY DEF HitsAreOlder, SupersederIsYounger
<1>. DEFINE Goal == /\ \A c \in Calls : pc'[c] = "marking" => \A y \in hit'[c] : Older(c, y)'
                    /\ \A k \in present' : Aged(k)'
<1>m. ASSUME arg' = arg PROVE \A x, k : MayCircle(x, k)' <=> MayCircle(x, k)
  BY <1>m DEF MayCircle, Restated, SameText
<1>1. ASSUME NEW c \in Calls, Step(c) PROVE Goal
  <2>a. /\ arg[c] \in Keys /\ arg' = arg
        /\ \A d \in Calls \ {c} : pc'[d] = pc[d] /\ hit'[d] = hit[d]
        /\ pc'[c] = "marking" => Look(c)
    BY <1>1, StepMoves DEF TypeOK
  <2>m. \A x, k : MayCircle(x, k)' <=> MayCircle(x, k)
    BY <2>a, <1>m
  <2>1. CASE Look(c)
    <3>1. UNCHANGED store /\ pc[c] = "locked"
      BY <2>1 DEF Look, At
    <3>2. PICK first \in SUBSET Nearest(arg[c]), verdicts \in SUBSET Candidates(arg[c]) :
            hit' = [hit EXCEPT ![c] =
                      {y \in first : NearDuplicate(arg[c], y)} \cup verdicts]
      BY <2>1, LookFinds
    <3>3. ASSUME NEW y \in hit'[c] PROVE Older(c, y)
      <4>1. \/ y \in Nearest(arg[c]) /\ NearDuplicate(arg[c], y)
            \/ y \in Candidates(arg[c])
        BY <3>2, <3>3 DEF TypeOK
      <4>2. y \in Facts /\ <<arg[c][1], y>> \in present
        BY <4>1 DEF Nearest, Others, Candidates
      <4>3. CASE arg[c] \in present
        <5>1. PICK d \in Calls : arg[d] = arg[c] /\ pc[d] = "done"
          BY <4>3 DEF Stored
        <5>2. Restated(arg[c])
          BY <5>1, <3>1 DEF Restated
        <5>3. Dist[<<arg[c][2], y>>] \in Nat /\ Dist[<<arg[c][2], arg[c][2]>>] = 0
          BY <2>a, <4>2, DistAssumption
        <5>4. y \in Nearest(arg[c]) => Dist[<<arg[c][2], y>>] <= 0
          BY <4>3, <5>3, <2>a DEF Nearest, Others
        <5>5. y \in Nearest(arg[c]) /\ NearDuplicate(arg[c], y) => SameText(arg[c][2], y)
          BY <5>3, <5>4 DEF NearDuplicate, SameText
        <5>6. y \in Candidates(arg[c]) => Dist[<<arg[c][2], y>>] >= Near
          BY <5>3 DEF Candidates
        <5>. QED BY <4>1, <5>2, <5>5, <5>6 DEF MayCircle
      <4>. QED BY <4>2, <4>3
    <3>4. \A k \in present' : Aged(k)'
      BY <3>1, <2>m, <1>s DEF store
    <3>5. \A d \in Calls : pc'[d] = "marking" => \A y \in hit'[d] : Older(d, y)'
      BY <3>1, <3>3, <2>a, <2>m, <1>h DEF store
    <3>. QED BY <3>4, <3>5
  <2>2. CASE Mark(c)
    <3>1. /\ UNCHANGED <<present, born>> /\ pc[c] = "marking"
          /\ \A k \in present : by'[k] = by[k] \/
               (\E y \in hit[c] : k = <<arg[c][1], y>> /\ by'[k] = arg[c][2])
      BY <2>2 DEF Mark, TypeOK
    <3>2. \A k \in present' : Aged(k)'
      <4>1. ASSUME NEW k \in present, NEW y \in hit[c], k = <<arg[c][1], y>>,
                   by'[k] = arg[c][2], <<k[1], by'[k]>> \in present
            PROVE  born[k] < born[<<k[1], by'[k]>>] \/ MayCircle(k[2], <<k[1], by'[k]>>)
        <5>1. arg[c] = <<k[1], by'[k]>>
          BY <4>1, <2>a
        <5>. QED BY <4>1, <5>1, <3>1, <1>h
      <4>. QED BY <3>1, <4>1, <2>m, <1>s
    <3>3. ~Look(c)
      BY <3>1 DEF Look, At
    <3>4. \A d \in Calls : pc'[d] = "marking" => \A y \in hit'[d] : Older(d, y)'
      BY <3>1, <3>3, <2>a, <2>m, <1>h
    <3>. QED BY <3>2, <3>4
  <2>3. CASE Add(c) \/ AddUnlocked(c)
    <3>1. Upsert(arg[c]) /\ ~Look(c)
      BY <2>3 DEF Add, AddUnlocked, Look, At
    <3>2. /\ present' = present \cup {arg[c]}
          /\ \A j \in present : by'[j] = by[j] /\ born'[j] = born[j]
          /\ arg[c] \notin present =>
               by'[arg[c]] = Nobody /\ \A j \in present : born[j] < born'[arg[c]]
      BY <3>1, <2>a, UpsertBorn
    <3>3. \A k \in present' : Aged(k)'
      <4>1. <<arg[c][1], Nobody>> \notin present'
        BY TypeStep, MarkerAssumption DEF TypeOK
      <4>. QED BY <3>2, <4>1, <2>m, <1>s
    <3>4. \A d \in Calls : pc'[d] = "marking" => \A y \in hit'[d] : Older(d, y)'
      BY <3>1, <3>2, <2>a, <2>m, <1>h
    <3>. QED BY <3>3, <3>4
  <2>4. CASE UNCHANGED store /\ ~Look(c)
    <3>1. \A k \in present' : Aged(k)'
      BY <2>4, <2>m, <1>s DEF store
    <3>2. \A d \in Calls : pc'[d] = "marking" => \A y \in hit'[d] : Older(d, y)'
      BY <2>4, <2>a, <2>m, <1>h DEF store
    <3>. QED BY <3>1, <3>2
  <2>. QED BY <1>1, <2>1, <2>2, <2>3, <2>4 DEF Step, Embed, EmbedFails, Acquire,
              SectionFails, AddUnlockedFails
<1>2. ASSUME NEW i \in Instances, NEW x \in Facts, Forget(i, x) PROVE Goal
  <2>1. /\ present' \subseteq present /\ UNCHANGED <<by, born, pc, arg>>
        /\ LoopFree(i) /\ OneInstance
    BY <1>2 DEF Forget, Use, call, InOrder
  <2>2. \A d \in Calls : pc'[d] = "marking" => \A y \in hit'[d] : Older(d, y)'
    BY <2>1, QuietLoop
  <2>. QED BY <2>1, <2>2, <1>m, <1>s
<1>3. ASSUME NEW i \in Instances, NEW x \in Facts, NEW m \in Markers, Supersede(i, x, m)
      PROVE  FALSE
  BY <1>3 DEF Supersede, Use, InOrder
<1>4. CASE UNCHANGED vars
  BY <1>4, <1>h, <1>s, <1>m DEF vars, store, call
<1>. QED BY <1>1, <1>2, <1>3, <1>4 DEF Next

(* With no failed write and no forget, only other objects add chunks between*)
(* the query of the holder of a lock and its upsert, and a query that does  *)
(* not return a near duplicate returns one that screens it.                 *)
LEMMA TwinStep ==
  ASSUME TypeOK, OneHolder, Born, RetryFailed, TwinsSeen, NoVisibleTwins, [Next]_vars
  PROVE  TwinsSeen' /\ NoVisibleTwins'
<1>. SUFFICES ASSUME faults' = 0, "forget" \notin used'
              PROVE  TwinsSeen' /\ NoVisibleTwins'
  BY DEF TwinsSeen, NoVisibleTwins
<1>u. faults = 0 /\ "forget" \notin used
  BY RetryStep
<1>. DEFINE Twin(k, y) == /\ Dist[<<k[2], y>>] < Near /\ Visible(<<k[1], y>>)
                          /\ SameObject(<<k[1], y>>, k)
            Seen(c) == pc[c] \in {"marking", "adding"} /\ arg[c] \notin present =>
                         \A y \in Facts : Twin(arg[c], y) =>
                           (pc[c] = "marking" /\ y \in hit[c]) \/ Screened(arg[c], y)
            Apart(j, k) == (/\ Visible(j) /\ Visible(k) /\ j[1] = k[1]
                            /\ Dist[<<k[2], j[2]>>] < Near
                            /\ SameObject(j, k) /\ born[j] < born[k]) =>
                             \E z \in Others(k) \ {j[2], k[2]} :
                               /\ born[<<k[1], z>>] < born[k]
                               /\ Dist[<<k[2], z>>] <= Dist[<<k[2], j[2]>>]
            Goal == /\ \A d \in Calls : Seen(d)'
                    /\ \A j, k \in present' : Apart(j, k)'
<1>h. \A c \in Calls : Seen(c)
  BY <1>u DEF TwinsSeen
<1>s. \A j, k \in present : Apart(j, k)
  BY <1>u DEF NoVisibleTwins
<1>g. SUFFICES Goal
  BY DEF TwinsSeen, NoVisibleTwins
<1>o. ASSUME UNCHANGED present PROVE \A k, y : (Others(k)' = Others(k)) /\ (Screened(k, y)' <=> Screened(k, y))
  BY <1>o DEF Others, Screened
<1>v. ASSUME UNCHANGED present, \A k \in present : by'[k] = by[k] \/ by'[k] # Nobody
      PROVE  \A k : Visible(k)' => Visible(k)
  BY <1>v DEF Visible
<1>q. ASSUME UNCHANGED arg PROVE \A j, k : SameObject(j, k)' <=> SameObject(j, k)
  BY <1>q DEF SameObject
<1>w. ASSUME UNCHANGED <<present, born, arg>>,
             \A k \in present : by'[k] = by[k] \/ by'[k] # Nobody
      PROVE  \A j, k \in present' : Apart(j, k)'
  BY <1>w, <1>o, <1>v, <1>q, <1>s
<1>x. ASSUME UNCHANGED <<present, arg>>, NEW d \in Calls, pc'[d] = pc[d], hit'[d] = hit[d],
             \A k \in present : by'[k] = by[k] \/ by'[k] # Nobody
      PROVE  Seen(d)'
  BY <1>x, <1>o, <1>v, <1>q, <1>h
<1>1. ASSUME NEW c \in Calls, Step(c) PROVE Goal
  <2>a. /\ arg[c] \in Keys /\ arg' = arg
        /\ \A d \in Calls \ {c} : pc'[d] = pc[d] /\ hit'[d] = hit[d]
        /\ pc'[c] = "marking" => Look(c)
        /\ pc'[c] = "adding" => Mark(c)
    BY <1>1, StepMoves DEF TypeOK
  <2>1. CASE Look(c)
    <3>1. UNCHANGED store /\ pc[c] = "locked" /\ pc' = [pc EXCEPT ![c] = "marking"]
      BY <2>1 DEF Look, At, Goto
    <3>2. PICK first \in SUBSET Nearest(arg[c]) :
            /\ (first = {}) = (Nearest(arg[c]) = {})
            /\ {y \in first : NearDuplicate(arg[c], y)} \subseteq hit'[c]
      <4>1. PICK first \in SUBSET Nearest(arg[c]), verdicts \in SUBSET Candidates(arg[c]) :
              /\ (first = {}) = (Nearest(arg[c]) = {})
              /\ hit' = [hit EXCEPT ![c] =
                           {y \in first : NearDuplicate(arg[c], y)} \cup verdicts]
        BY <2>1, LookFinds
      <4>2. hit'[c] = {y \in first : NearDuplicate(arg[c], y)} \cup verdicts
        BY <4>1 DEF TypeOK
      <4>. QED BY <4>1, <4>2
    <3>3. ASSUME arg[c] \notin present, NEW y \in Facts, Twin(arg[c], y)
          PROVE  y \in hit'[c] \/ Screened(arg[c], y)
      <4>1. y \in Others(arg[c])
        BY <3>3 DEF Visible, Others
      <4>2. Others(arg[c]) \subseteq Facts /\ arg[c][2] \notin Others(arg[c])
        BY <3>3, <2>a DEF Others
      <4>3. y \in first => y \in hit'[c]
        BY <4>1, <4>2, <3>2, <3>3 DEF NearDuplicate, Visible
      <4>4. ASSUME NEW z \in first, z # y PROVE Screened(arg[c], y)
        BY <4>4, <4>1, <4>2 DEF Nearest, Screened
      <4>5. CASE first = {}
        <5>1. Nearest(arg[c]) = {}
          BY <4>5, <3>2
        <5>2. ASSUME y \notin Nearest(arg[c]) PROVE Screened(arg[c], y)
          <6>1. PICK z \in Others(arg[c]) : ~(Dist[<<arg[c][2], y>>] <= Dist[<<arg[c][2], z>>])
            BY <5>2, <4>1 DEF Nearest
          <6>2. /\ Dist[<<arg[c][2], y>>] \in Nat /\ Dist[<<arg[c][2], z>>] \in Nat
            BY <4>2, <2>a, DistAssumption
          <6>3. Dist[<<arg[c][2], z>>] <= Dist[<<arg[c][2], y>>] /\ z # y
            BY <6>1, <6>2
          <6>. QED BY <6>3, <4>2 DEF Screened
        <5>. QED BY <5>1, <5>2
      <4>. QED BY <4>3, <4>4, <4>5
    <3>4. \A j, k \in present' : Apart(j, k)'
      BY <3>1, <2>a, <1>w DEF store
    <3>5. Seen(c)'
      <4>1. /\ \A k : Visible(k)' <=> Visible(k)
            /\ \A j, k : SameObject(j, k)' <=> SameObject(j, k)
            /\ \A k, y : Screened(k, y)' <=> Screened(k, y)
        BY <3>1, <2>a, <1>o, <1>q DEF store, Visible
      <4>2. pc'[c] = "marking"
        BY <3>1 DEF TypeOK
      <4>. QED BY <4>1, <4>2, <3>1, <3>3, <2>a DEF store
    <3>6. \A d \in Calls \ {c} : Seen(d)'
      BY <3>1, <2>a, <1>x DEF store
    <3>. QED BY <3>4, <3>5, <3>6
  <2>2. CASE Mark(c)
    <3>1. /\ UNCHANGED <<present, born>>
          /\ pc[c] = "marking" /\ pc' = [pc EXCEPT ![c] = "adding"]
          /\ \A k \in present : by'[k] = by[k] \/ by'[k] # Nobody
          /\ \A y \in hit[c] : <<arg[c][1], y>> \in present => by'[<<arg[c][1], y>>] # Nobody
      <4>1. arg[c][2] # Nobody
        BY <2>a, MarkerAssumption
      <4>2. \A k \in present : k \in Keys
        BY DEF TypeOK
      <4>. QED BY <2>2, <4>1, <4>2 DEF Mark, Goto
    <3>2. \A y \in hit[c] : ~Visible(<<arg[c][1], y>>)'
      BY <3>1, <2>a DEF Visible
    <3>3. \A j, k \in present' : Apart(j, k)'
      BY <3>1, <2>a, <1>w
    <3>4. Seen(c)'
      <4>1. \A k : Visible(k)' => Visible(k)
        BY <3>1, <1>v
      <4>2. pc'[c] = "adding"
        BY <3>1 DEF TypeOK
      <4>3. ASSUME arg[c] \notin present, NEW y \in Facts, Twin(arg[c], y)'
            PROVE  Screened(arg[c], y)
        <5>1. Twin(arg[c], y) /\ y \notin hit[c]
          BY <4>3, <4>1, <3>2, <2>a, <1>q
        <5>. QED BY <5>1, <4>3, <3>1, <1>h
      <4>. QED BY <4>2, <4>3, <3>1, <2>a, <1>o
    <3>5. \A d \in Calls \ {c} : Seen(d)'
      BY <3>1, <2>a, <1>x
    <3>. QED BY <3>3, <3>4, <3>5
  <2>3. CASE Add(c)
    <3>1. /\ pc[c] = "adding" /\ pc' = [pc EXCEPT ![c] = "done"] /\ Upsert(arg[c])
      BY <2>3 DEF Add, Goto
    <3>2. /\ present' = present \cup {arg[c]}
          /\ arg[c] \in present => UNCHANGED <<by, born>>
          /\ \A j \in present : by'[j] = by[j] /\ born'[j] = born[j]
          /\ arg[c] \notin present => \A j \in present : born[j] < born'[arg[c]]
      BY <3>1, <2>a, UpsertBorn DEF Upsert
    <3>3. \A k \in present : Visible(k)' <=> Visible(k)
      BY <3>2 DEF Visible
    <3>4. \A k, y : Others(k) \subseteq Others(k)' /\ (Screened(k, y) => Screened(k, y)')
      BY <3>2 DEF Others, Screened
    <3>5. \A j, k : SameObject(j, k)' <=> SameObject(j, k)
      BY <2>a, <1>q
    <3>6. \A j, k \in present' : Apart(j, k)'
      <4>1. \A j, k \in present : Apart(j, k)'
        <5>1. SUFFICES ASSUME NEW j \in present, NEW k \in present,
                              Visible(j), Visible(k), j[1] = k[1], Dist[<<k[2], j[2]>>] < Near,
                              SameObject(j, k), born[j] < born[k]
                       PROVE  \E z \in Others(k)' \ {j[2], k[2]} :
                                 /\ born'[<<k[1], z>>] < born'[k]
                                 /\ Dist[<<k[2], z>>] <= Dist[<<k[2], j[2]>>]
          BY <3>2, <3>3, <3>5
        <5>2. PICK z \in Others(k) \ {j[2], k[2]} :
                 born[<<k[1], z>>] < born[k] /\ Dist[<<k[2], z>>] <= Dist[<<k[2], j[2]>>]
          BY <5>1, <1>s
        <5>3. <<k[1], z>> \in present
          BY <5>2 DEF Others
        <5>. QED BY <5>2, <5>3, <3>2, <3>4
      <4>2. CASE arg[c] \in present
        BY <4>1, <4>2, <3>2
      <4>3. CASE arg[c] \notin present
        <5>1. \A k \in present : ~(born'[arg[c]] < born'[k])
          <6>1. \A k \in present \cup {arg[c]} : born'[k] \in Nat
            BY TypeStep, <2>a DEF TypeOK
          <6>. QED BY <6>1, <4>3, <3>2
        <5>3. ~(born'[arg[c]] < born'[arg[c]])
          <6>1. born'[arg[c]] \in Nat
            BY TypeStep, <2>a DEF TypeOK
          <6>. QED BY <6>1
        <5>4. ASSUME NEW j \in present, Visible(j), j[1] = arg[c][1],
                     Dist[<<arg[c][2], j[2]>>] < Near, SameObject(j, arg[c])
              PROVE  \E z \in Others(arg[c])' \ {j[2], arg[c][2]} :
                       /\ born'[<<arg[c][1], z>>] < born'[arg[c]]
                       /\ Dist[<<arg[c][2], z>>] <= Dist[<<arg[c][2], j[2]>>]
          <6>1. j = <<arg[c][1], j[2]>> /\ j[2] \in Facts
            BY <5>4 DEF TypeOK
          <6>2. Screened(arg[c], j[2])
            BY <6>1, <5>4, <4>3, <3>1, <1>h
          <6>3. PICK z \in Others(arg[c]) \ {j[2], arg[c][2]} :
                   Dist[<<arg[c][2], z>>] <= Dist[<<arg[c][2], j[2]>>]
            BY <6>2 DEF Screened
          <6>4. <<arg[c][1], z>> \in present
            BY <6>3 DEF Others
          <6>5. z \in Others(arg[c])' /\ born'[<<arg[c][1], z>>] < born'[arg[c]]
            BY <6>3, <6>4, <4>3, <3>2, <3>4, <2>a
          <6>. QED BY <6>3, <6>5, <2>a
        <5>7. ASSUME NEW j \in present', NEW k \in present' PROVE Apart(j, k)'
          <6>1. CASE j \in present /\ k \in present
            BY <6>1, <4>1
          <6>2. CASE j = arg[c] /\ k \in present
            BY <6>2, <5>1
          <6>3. CASE j \in present /\ k = arg[c]
            BY <6>3, <5>4, <3>3, <3>5, <2>a
          <6>4. CASE j = arg[c] /\ k = arg[c]
            BY <6>4, <5>3
          <6>. QED BY <6>1, <6>2, <6>3, <6>4, <3>2
        <5>. QED BY <5>7
      <4>. QED BY <4>2, <4>3
    <3>7. ASSUME NEW d \in Calls PROVE Seen(d)'
      <4>1. CASE d = c
        BY <4>1, <3>1 DEF TypeOK
      <4>2. CASE d # c /\ pc'[d] \in {"marking", "adding"} /\ arg[d] \notin present'
        <5>1. pc'[d] = pc[d] /\ hit'[d] = hit[d] /\ arg[d] \notin present /\ arg[d] # arg[c]
          BY <4>2, <3>2, <2>a
        <5>2. Instance[d] # Instance[c]
          BY <4>2, <5>1, <3>1 DEF OneHolder, Holds
        <5>3. ASSUME NEW y \in Facts, Twin(arg[d], y)'
              PROVE  Twin(arg[d], y)
          <6>1. <<arg[d][1], y>> # arg[c]
            <7>1. SameObject(<<arg[d][1], y>>, arg[d])
              BY <5>3, <3>5, <2>a
            <7>. QED BY <7>1, <5>2 DEF SameObject
          <6>2. Visible(<<arg[d][1], y>>)
            BY <6>1, <5>3, <3>2, <2>a DEF Visible
          <6>. QED BY <6>2, <5>3, <3>5, <2>a
        <5>. QED BY <5>1, <5>3, <3>4, <1>h, <2>a
      <4>. QED BY <4>1, <4>2, <2>a
    <3>. QED BY <3>6, <3>7
  <2>4. CASE AddUnlocked(c) \/ EmbedFails(c) \/ SectionFails(c) \/ AddUnlockedFails(c)
    BY <2>4, <1>u DEF AddUnlocked, EmbedFails, SectionFails, AddUnlockedFails, RetryFailed
  <2>5. CASE Embed(c) \/ Acquire(c)
    <3>1. UNCHANGED store /\ pc'[c] \notin {"marking", "adding"}
      BY <2>5 DEF Embed, Acquire, Goto, TypeOK
    <3>2. \A d \in Calls \ {c} : Seen(d)'
      BY <3>1, <2>a, <1>x DEF store
    <3>3. \A j, k \in present' : Apart(j, k)'
      BY <3>1, <2>a, <1>w DEF store
    <3>. QED BY <3>1, <3>2, <3>3
  <2>. QED BY <1>1, <2>1, <2>2, <2>3, <2>4, <2>5 DEF Step
<1>2. ASSUME NEW i \in Instances, NEW x \in Facts, Forget(i, x) PROVE FALSE
  BY <1>2 DEF Forget, Use
<1>3. ASSUME NEW i \in Instances, NEW x \in Facts, NEW m \in Markers \ {Nobody},
             Supersede(i, x, m)
      PROVE  Goal
  <2>1. /\ UNCHANGED <<present, born, pc, arg, hit>>
        /\ \A k \in Keys : by'[k] = by[k] \/ by'[k] # Nobody
    BY <1>3 DEF Supersede, call, TypeOK
  <2>2. \A k \in present : k \in Keys
    BY DEF TypeOK
  <2>. QED BY <2>1, <2>2, <1>w, <1>x
<1>4. CASE UNCHANGED vars
  <2>1. UNCHANGED <<present, by, born, pc, arg, hit>>
    BY <1>4 DEF vars, store, call
  <2>. QED BY <2>1, <1>w, <1>x
<1>. QED BY <1>1, <1>2, <1>3, <1>4 DEF Next

(* Every step keeps the inductive invariant.                                *)
LEMMA Induction ==
  ASSUME IndInv, [Next]_vars
  PROVE  IndInv'
BY TypeStep, HolderStep, RetryStep, BornStep, StoredStep, AgeStep, TwinStep DEF IndInv

(* The inductive invariant holds in the first states.                       *)
LEMMA FirstStates == Init => IndInv
BY TypeInit DEF Init, IndInv, OneHolder, Holds, Born, Stored, RetryFailed, HitsAreOlder,
                SupersederIsYounger, TwinsSeen, NoVisibleTwins

(* For all facts, distances, objects and calls, whatever fails: only when a  *)
(* statement is remembered again, with an equal text of another source or a *)
(* reconcile model, can a mark lead to a chunk that is not younger.          *)
THEOREM Acyclic == Spec => []SupersederIsYounger
<1>1. IndInv => SupersederIsYounger
  BY DEF IndInv
<1>. QED BY <1>1, FirstStates, Induction, PTL DEF Spec

(* For all facts, distances, objects and calls: of two near duplicates that  *)
(* one object stored and nothing screens, at most one is visible.            *)
THEOREM OneVersion == Spec => []NoVisibleTwins
<1>1. IndInv => NoVisibleTwins
  BY DEF IndInv
<1>. QED BY <1>1, FirstStates, Induction, PTL DEF Spec
=============================================================================
