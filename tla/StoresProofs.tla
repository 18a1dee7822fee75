---------------------------- MODULE StoresProofs ----------------------------
(***************************************************************************)
(* Proofs about the stores of MCStores, for any value of their constants.   *)
(* A step is one of a single part: each part has an invariant of its own,   *)
(* which the steps of the others cannot disturb.                            *)
(***************************************************************************)
EXTENDS MCStores, FiniteSetTheorems, SequenceTheorems, WellFoundedInduction, TLAPS

-----------------------------------------------------------------------------
(* Functions defined by recursion on an index.  What they compute is shown  *)
(* by the least index at which it would fail.                               *)

\* Numbers are well-founded: a set of them has a least one.
LEMMA LeastNumber == ASSUME NEW I \in SUBSET Nat, I # {} PROVE \E i \in I : \A j \in I : i <= j
<1> DEFINE R == OpToRel(<, Nat)
<1>1. IsWellFoundedOn(R, Nat)
  BY NatLessThanWellFounded
<1>2. \A i, j \in Nat : j < i => <<j, i>> \in R
  BY DEF OpToRel
<1> HIDE DEF R
<1>3. \E i \in I : \A j \in I : ~ (<<j, i>> \in R)
  BY <1>1, WFMin, Zenon
<1>4. \A i, j \in Nat : <<j, i>> \notin R => i <= j
  BY <1>2
<1> QED
  BY <1>3, <1>4

\* What holds at 0, and at each number up to n if at the one before, holds up
\* to n.
LEMMA Upward ==
  ASSUME NEW n \in Nat, NEW Good, 0 \in Good, \A i \in 1 .. n : i - 1 \in Good => i \in Good
  PROVE  \A i \in 0 .. n : i \in Good
<1> DEFINE Bad == {i \in 0 .. n : i \notin Good}
<1> SUFFICES ASSUME Bad # {} PROVE FALSE
  OBVIOUS
<1>1. Bad \in SUBSET Nat
  OBVIOUS
<1>2. PICK m \in Bad : \A i \in Bad : m \leq i
  BY <1>1, LeastNumber
<1>3. m \in 1 .. n /\ m - 1 \in 0 .. n /\ m - 1 \notin Bad
  BY <1>2
<1> QED
  BY <1>2, <1>3

Recursed(V, b, n, turn) ==
  \E g \in [0 .. n -> V] : g[0] = b /\ \A i \in 1 .. n : g[i] = turn[i][g[i - 1]]

\* A function defined by recursion is there: b at 0, and at i what turn i
\* makes of the value at i - 1.
LEMMA Recursion ==
  ASSUME NEW V, NEW b \in V, NEW n \in Nat, NEW turn \in [1 .. n -> [V -> V]]
  PROVE  Recursed(V, b, n, turn)
<1> DEFINE Upto(k, g) == g[0] = b /\ \A i \in 1 .. k : g[i] = turn[i][g[i - 1]]
           Good == {k \in 0 .. n : \E g \in [0 .. k -> V] : Upto(k, g)}
<1>1. 0 \in Good
  <2>1. [i \in 0 .. 0 |-> b] \in [0 .. 0 -> V] /\ Upto(0, [i \in 0 .. 0 |-> b])
    OBVIOUS
  <2> HIDE DEF Upto
  <2>2. \E g \in [0 .. 0 -> V] : Upto(0, g)
    BY <2>1
  <2> QED
    BY <2>2
<1>2. ASSUME NEW k \in Nat, k \in Good, k + 1 \leq n PROVE \E h \in [0 .. k + 1 -> V] : Upto(k + 1, h)
  <2>1. PICK g \in [0 .. k -> V] : Upto(k, g)
    BY <1>2
  <2> DEFINE h == [i \in 0 .. k + 1 |-> IF i = k + 1 THEN turn[k + 1][g[k]] ELSE g[i]]
  <2>2. k + 1 \in 1 .. n /\ k \in 0 .. k
    BY <1>2
  <2>3. turn[k + 1] \in [V -> V] /\ g[k] \in V
    BY <2>2
  <2>4. turn[k + 1][g[k]] \in V
    BY <2>3
  <2>5. h \in [0 .. k + 1 -> V]
    BY <2>4
  <2>6. h[0] = b
    BY <2>1
  <2>7. ASSUME NEW i \in 1 .. k + 1 PROVE h[i] = turn[i][h[i - 1]]
    <3>1. CASE i = k + 1
      <4>1. h[i] = turn[k + 1][g[k]] /\ h[i - 1] = g[k]
        BY <3>1
      <4> QED
        BY <4>1, <3>1
    <3>2. CASE i # k + 1
      <4>1. i \in 1 .. k /\ h[i] = g[i] /\ h[i - 1] = g[i - 1]
        BY <3>2
      <4> QED
        BY <4>1, <2>1
    <3> QED
      BY <3>1, <3>2
  <2> QED
    BY <2>5, <2>6, <2>7
<1>3. n \in Good
  <2>1. ASSUME NEW i \in 1 .. n, i - 1 \in Good PROVE i \in Good
    <3>1. i - 1 \in Nat /\ (i - 1) + 1 = i /\ i \leq n /\ i \in 0 .. n
      OBVIOUS
    <3> HIDE DEF Upto
    <3>2. \E h \in [0 .. i -> V] : Upto(i, h)
      BY <1>2, <2>1, <3>1
    <3> QED
      BY <3>1, <3>2
  <2> HIDE DEF Good
  <2>2. \A i \in 0 .. n : i \in Good
    BY <1>1, <2>1, Upward
  <2> QED
    BY <2>2
<1> QED
  BY <1>3 DEF Recursed

-----------------------------------------------------------------------------
(* Memory blocks.                                                           *)

BlocksInv == B!BlocksTypeOK /\ B!RecordIsContent /\ B!Unwritten /\ B!UpdatesRead

\* The invariant holds in the first states.
LEMMA BlocksStart == B!BlocksInit => BlocksInv
<1> SUFFICES ASSUME B!BlocksInit PROVE BlocksInv
  OBVIOUS
<1>1. B!BlocksTypeOK
  BY DEF B!BlocksInit, B!BlocksTypeOK, B!ReqKinds, B!Contents
<1>2. B!RecordIsContent /\ B!Unwritten /\ B!UpdatesRead
  BY DEF B!BlocksInit, B!RecordIsContent, B!Unwritten, B!UpdatesRead
<1> QED
  BY <1>1, <1>2 DEF BlocksInv

\* A step within a request: neither block nor history changes.
LEMMA BlocksMove ==
  ASSUME BlocksInv, NEW r \in Writers, UNCHANGED <<content, history, req>>,
         NEW p \in {"look", "write", "create", "insert", "update", "readback", "done", "error", "unread"},
         place[r] \notin {"readback", "done", "unread"} \/ p \in {"readback", "done", "unread"},
         B!Goto(r, p),
         UNCHANGED plan \/ \E x \in B!Contents : /\ plan' = [plan EXCEPT ![r] = x]
                                                  /\ x \subseteq content \cup {r} /\ content # Absent,
         UNCHANGED read \/ read' = [read EXCEPT ![r] = content],
         p = "update" => read'[r] # Absent,
         queue' \in Seq(Writers)
  PROVE  BlocksInv'
<1>0. /\ content \in B!Contents \cup {Absent} /\ plan \in [Writers -> B!Contents]
      /\ read \in [Writers -> B!Contents \cup {Absent}]
      /\ place \in [Writers -> {"new", "look", "write", "create", "insert", "update",
                                "readback", "done", "error", "unread"}]
  BY DEF BlocksInv, B!BlocksTypeOK
<1>1. B!BlocksTypeOK'
  <2>1. plan' \in [Writers -> B!Contents] /\ read' \in [Writers -> B!Contents \cup {Absent}]
    BY <1>0
  <2>2. place' \in [Writers -> {"new", "look", "write", "create", "insert", "update",
                                "readback", "done", "error", "unread"}]
    BY <1>0 DEF B!Goto
  <2> QED
    BY <2>1, <2>2 DEF BlocksInv, B!BlocksTypeOK
<1>2. B!RecordIsContent'
  BY DEF BlocksInv, B!RecordIsContent
<1>3. B!Unwritten'
  <2> SUFFICES ASSUME NEW u \in Writers, place'[u] \notin {"readback", "done", "unread"}
               PROVE  /\ content = Absent \/ u \notin content
                      /\ \A i \in DOMAIN history : u \notin history[i].new
                      /\ \A q \in Writers \ {u} : u \notin plan'[q]
    BY DEF B!Unwritten
  <2>1. place[u] \notin {"readback", "done", "unread"}
    BY <1>0 DEF B!Goto
  <2>2. /\ content = Absent \/ u \notin content
        /\ \A i \in DOMAIN history : u \notin history[i].new
        /\ \A q \in Writers \ {u} : u \notin plan[q]
    BY <2>1 DEF BlocksInv, B!Unwritten
  <2> QED
    BY <1>0, <2>2
<1>4. B!UpdatesRead'
  BY <1>0 DEF BlocksInv, B!UpdatesRead, B!Goto
<1> QED
  BY <1>1, <1>2, <1>3, <1>4 DEF BlocksInv

\* A row and its history row are written together.
LEMMA BlocksWrite ==
  ASSUME BlocksInv, NEW r \in Writers, NEW old \in B!Contents \cup {NoOne},
         content' = plan[r], history' = Append(history, [old |-> old, new |-> plan[r]]),
         B!Goto(r, B!After(r)), UNCHANGED <<req, plan, read, queue>>,
         place[r] \notin {"readback", "done", "unread"}
  PROVE  BlocksInv'
<1>0. /\ content \in B!Contents \cup {Absent} /\ plan \in [Writers -> B!Contents]
      /\ history \in Seq([old : B!Contents \cup {NoOne}, new : B!Contents])
      /\ place \in [Writers -> {"new", "look", "write", "create", "insert", "update",
                                "readback", "done", "error", "unread"}]
      /\ B!After(r) \in {"readback", "done"}
  BY DEF BlocksInv, B!BlocksTypeOK, B!After
<1> DEFINE row == [old |-> old, new |-> plan[r]]
<1>1. row \in [old : B!Contents \cup {NoOne}, new : B!Contents] /\ row.new = plan[r]
  BY <1>0
<1> HIDE DEF row
<1>2. /\ history' \in Seq([old : B!Contents \cup {NoOne}, new : B!Contents])
      /\ Len(history') = Len(history) + 1 /\ history' # <<>>
      /\ history'[Len(history')] = row
      /\ \A i \in DOMAIN history' : (i \in DOMAIN history /\ history'[i] = history[i]) \/ history'[i] = row
  BY <1>0, <1>1 DEF row
<1>3. B!BlocksTypeOK'
  BY <1>0, <1>2 DEF BlocksInv, B!BlocksTypeOK, B!Goto
<1>4. B!RecordIsContent'
  <2>1. content' # Absent
    BY <1>0, BlocksAssumption DEF B!Contents
  <2> QED
    BY <1>1, <1>2, <2>1 DEF B!RecordIsContent, B!Last
<1>5. B!Unwritten'
  <2> SUFFICES ASSUME NEW u \in Writers, place'[u] \notin {"readback", "done", "unread"}
               PROVE  /\ content' = Absent \/ u \notin content'
                      /\ \A i \in DOMAIN history' : u \notin history'[i].new
                      /\ \A q \in Writers \ {u} : u \notin plan'[q]
    BY DEF B!Unwritten
  <2>1. u # r /\ place[u] \notin {"readback", "done", "unread"}
    BY <1>0 DEF B!Goto
  <2>2. /\ \A i \in DOMAIN history : u \notin history[i].new
        /\ \A q \in Writers \ {u} : u \notin plan[q]
    BY <2>1 DEF BlocksInv, B!Unwritten
  <2> QED
    BY <1>1, <1>2, <2>1, <2>2
<1>6. B!UpdatesRead'
  BY <1>0 DEF BlocksInv, B!UpdatesRead, B!Goto
<1> QED
  BY <1>3, <1>4, <1>5, <1>6 DEF BlocksInv

\* Every step keeps it.
LEMMA BlocksStep == BlocksInv /\ B!BlocksNext => BlocksInv'
<1> SUFFICES ASSUME BlocksInv, NEW r \in Writers,
                    \/ B!Begin(r) \/ B!Look(r) \/ B!Reread(r) \/ B!CheckNew(r) \/ B!Insert(r)
                    \/ B!Update(r) \/ B!ReadBack(r) \/ B!Delete(r) \/ B!Refused(r) \/ B!Rethink(r)
             PROVE  BlocksInv'
  BY DEF B!BlocksNext
<1>0. /\ content \in B!Contents \cup {Absent} /\ queue \in Seq(Writers)
      /\ read \in [Writers -> B!Contents \cup {Absent}]
      /\ place \in [Writers -> {"new", "look", "write", "create", "insert", "update",
                                "readback", "done", "error", "unread"}]
  BY DEF BlocksInv, B!BlocksTypeOK
<1>1. CASE B!Begin(r)
  BY <1>0, <1>1, BlocksMove DEF B!Begin
<1>2. CASE B!Look(r)
  <2>1. CASE UNCHANGED plan
    BY <1>0, <1>2, <2>1, BlocksMove DEF B!Look
  <2>2. CASE \E x \in B!Contents : /\ plan' = [plan EXCEPT ![r] = x]
                                   /\ x \subseteq content \cup {r} /\ content # Absent
    BY <1>0, <1>2, <2>2, BlocksMove DEF B!Look
  <2>3. CASE content # Absent /\ plan' = [plan EXCEPT ![r] = content \cup {r}]
    BY <1>0, <2>2, <2>3 DEF B!Contents
  <2>4. CASE content # Absent /\ \E t \in content : plan' = [plan EXCEPT ![r] = (content \ {t}) \cup {r}]
    <3>1. PICK t \in content : plan' = [plan EXCEPT ![r] = (content \ {t}) \cup {r}]
      BY <2>4
    <3>2. (content \ {t}) \cup {r} \in B!Contents /\ (content \ {t}) \cup {r} \subseteq content \cup {r}
      BY <1>0, <2>4 DEF B!Contents
    <3> QED
      BY <2>2, <2>4, <3>1, <3>2
  <2> QED
    BY <1>2, <2>1, <2>3, <2>4 DEF B!Look
<1>3. CASE B!Reread(r)
  BY <1>0, <1>3, BlocksMove DEF B!Reread
<1>4. CASE B!CheckNew(r)
  BY <1>0, <1>4, BlocksMove DEF B!CheckNew
<1>5. CASE B!Insert(r)
  <2>1. CASE content = Absent
    BY <1>0, <1>5, <2>1, BlocksWrite DEF B!Insert
  <2>2. CASE content # Absent
    BY <1>0, <1>5, <2>2, BlocksMove DEF B!Insert
  <2> QED
    BY <2>1, <2>2
<1>6. CASE B!Update(r)
  <2>1. CASE content # Absent
    <3>1. read[r] \in B!Contents
      BY <1>0, <1>6 DEF B!Update, BlocksInv, B!UpdatesRead
    <3> QED
      BY <1>0, <1>6, <2>1, <3>1, BlocksWrite DEF B!Update
  <2>2. CASE content = Absent
    BY <1>0, <1>6, <2>2, BlocksMove DEF B!Update
  <2> QED
    BY <2>1, <2>2
<1>7. CASE B!ReadBack(r)
  BY <1>0, <1>7, BlocksMove DEF B!ReadBack
<1>8. CASE B!Delete(r)
  <2>1. /\ content' = Absent /\ history' = <<>> /\ UNCHANGED <<req, plan, read, queue>>
        /\ B!Goto(r, "done")
    BY <1>8 DEF B!Delete
  <2>2. B!BlocksTypeOK'
    BY <1>0, <2>1 DEF BlocksInv, B!BlocksTypeOK, B!Goto
  <2>3. B!RecordIsContent' /\ B!Unwritten' /\ B!UpdatesRead'
    BY <1>0, <2>1 DEF BlocksInv, B!RecordIsContent, B!Unwritten, B!UpdatesRead, B!Goto
  <2> QED
    BY <2>2, <2>3 DEF BlocksInv
<1>9. CASE B!Refused(r)
  BY <1>0, <1>9, BlocksMove DEF B!Refused
<1>10. CASE B!Rethink(r)
  BY <1>0, <1>10, BlocksMove DEF B!Rethink
<1> QED
  BY <1>1, <1>2, <1>3, <1>4, <1>5, <1>6, <1>7, <1>8, <1>9, <1>10

\* A step that leaves these variables alone keeps it.
LEMMA BlocksStutter == BlocksInv /\ UNCHANGED blockVars => BlocksInv'
  BY DEF blockVars, BlocksInv, B!BlocksTypeOK, B!RecordIsContent, B!Unwritten, B!UpdatesRead

\* It holds in every behaviour.
LEMMA BlocksAlways == Spec => []BlocksInv
<1>1. Init => BlocksInv
  BY BlocksStart DEF Init
<1>2. BlocksInv /\ [Next]_<<part, blockVars, graphVars, skillVars, archiveVars,
                            transferVars, chainVars, mirrorVars>> => BlocksInv'
  BY BlocksStep, BlocksStutter DEF Next
<1> QED
  BY <1>1, <1>2, PTL DEF Spec

\* However requests from several connections interleave, the history of a block
\* ends with what it holds (blocks.py:160), and one that fails has left its text
\* nowhere (base.py:1126).
THEOREM BlocksHoldAlways == Spec => []BlocksHold
<1>1. BlocksInv => BlocksHold
  BY DEF BlocksInv, BlocksHold, B!Unwritten, B!FailureLeavesNoTrace
<1> QED
  BY <1>1, BlocksAlways, PTL

-----------------------------------------------------------------------------
(* Archives.                                                                *)

ArchiveInv == A!ArchiveTypeOK /\ A!CommandOK /\ A!Applying

\* Doing nothing is a command.
LEMMA IdleOK == A!Idle \in A!Commands /\ A!Idle.name = "none"
<1>1. A!Nothing \in A!Files /\ 0 \in 0 .. MaxArchives
  BY ArchiveAssumption DEF A!Nothing, A!Files, A!Contents
<1> QED
  BY <1>1 DEF A!Idle, A!Commands

\* The invariant holds in the first states.
LEMMA ArchiveStart == A!ArchiveInit => ArchiveInv
<1> SUFFICES ASSUME A!ArchiveInit PROVE ArchiveInv
  OBVIOUS
<1>1. /\ A!Nothing \in A!Files /\ 0 \in 0 .. MaxWrites /\ 0 \in 0 .. MaxCrashes
      /\ 0 \in 0 .. MaxArchives
  BY ArchiveAssumption DEF A!Nothing, A!Files, A!Contents
<1>2. A!ArchiveTypeOK
  BY <1>1 DEF A!ArchiveInit, A!ArchiveTypeOK
<1>3. A!CommandOK /\ A!Applying
  BY IdleOK DEF A!ArchiveInit, A!CommandOK, A!Applying
<1> QED
  BY <1>2, <1>3 DEF ArchiveInv

\* Steps that leave the archives, the command and what is applied alone.
LEMMA ArchiveWrite ==
  ASSUME ArchiveInv, NEW p \in Parts, writes < MaxWrites, writes' = writes + 1,
         live' = [live EXCEPT ![p] = writes + 1], newer' = newer \cup {p},
         UNCHANGED <<archives, temp, cmd, crashes, aim>>
  PROVE  ArchiveInv'
<1>1. writes + 1 \in 0 .. MaxWrites /\ writes + 1 \in A!Contents
  BY ArchiveAssumption DEF ArchiveInv, A!ArchiveTypeOK, A!Contents
<1>2. live \in [Parts -> A!Contents] /\ live' \in [Parts -> A!Contents] /\ newer' \subseteq Parts
  BY <1>1 DEF ArchiveInv, A!ArchiveTypeOK, A!Files
<1>3. A!ArchiveTypeOK'
  BY <1>1, <1>2 DEF ArchiveInv, A!ArchiveTypeOK, A!Files
<1>4. A!CommandOK' /\ A!Applying'
  BY <1>2 DEF ArchiveInv, A!CommandOK, A!Applying
<1> QED
  BY <1>3, <1>4 DEF ArchiveInv

\* Steps that change the command and no content.
LEMMA ArchiveCommand ==
  ASSUME ArchiveInv, cmd' \in A!Commands, archives' \in Seq(A!Archives),
         cmd'.name = "backup" => cmd'.step \in A!Places /\ cmd'.n \in DOMAIN archives',
         UNCHANGED <<live, writes, newer>>,
         crashes' \in 0 .. MaxCrashes, temp' \in A!Files \cup {Void}, aim' \in {aim, temp, Void},
         aim' # Void => temp' = aim',
         cmd'.name = "restore" =>
           temp' \in A!Files /\ cmd'.step \notin {"clear", "copy"}
  PROVE  ArchiveInv'
<1>1. A!ArchiveTypeOK'
  BY DEF ArchiveInv, A!ArchiveTypeOK
<1>2. A!CommandOK' /\ A!Applying'
  BY DEF ArchiveInv, A!CommandOK, A!Applying
<1> QED
  BY <1>1, <1>2 DEF ArchiveInv

\* Every step keeps it.
LEMMA ArchiveStep == ArchiveInv /\ A!ArchiveNext => ArchiveInv'
<1> SUFFICES ASSUME ArchiveInv, A!ArchiveNext PROVE ArchiveInv'
  OBVIOUS
<1>0. /\ live \in A!Files /\ writes \in 0 .. MaxWrites /\ archives \in Seq(A!Archives)
      /\ cmd \in A!Commands /\ A!Idle \in A!Commands /\ A!Idle.name = "none"
      /\ newer \subseteq Parts /\ temp \in A!Files \cup {Void} /\ aim \in A!Files \cup {Void}
      /\ crashes \in 0 .. MaxCrashes /\ (aim # Void => temp = aim)
  BY IdleOK DEF ArchiveInv, A!ArchiveTypeOK, A!CommandOK, A!Applying
<1>01. A!Idle.name # "backup" /\ A!Idle.name # "restore"
  BY <1>0
<1>1. ASSUME NEW p \in Parts, A!Write(p) PROVE ArchiveInv'
  BY <1>1, ArchiveWrite DEF A!Write
<1>2. ASSUME NEW k \in {"zip", "tar"}, NEW p \in A!Places \ {"deleted"}, A!BackupOpen(k, p)
      PROVE  ArchiveInv'
  <2> DEFINE a == [place |-> IF k = "zip" THEN p ELSE "deleted", kind |-> k,
                   whole |-> FALSE, files |-> A!Nothing]
  <2>1. a \in A!Archives
    BY DEF A!Nothing, A!Files, A!Contents, A!Places, A!Archives
  <2>2. archives' = Append(archives, a)
    BY <1>2 DEF A!BackupOpen
  <2>3. archives' \in Seq(A!Archives) /\ Len(archives') = Len(archives) + 1 /\ Len(archives) \in Nat
    BY <1>0, <2>1, <2>2, AppendProperties
  <2>4. Len(archives) + 1 \in 0 .. MaxArchives /\ Len(archives) + 1 \in DOMAIN archives'
    BY <1>2, <2>3, ArchiveAssumption DEF A!BackupOpen
  <2>5. cmd' = [A!Idle EXCEPT !.name = "backup", !.step = p, !.n = Len(archives) + 1,
                !.todo = A!Kept(live)]
    BY <1>2 DEF A!BackupOpen
  <2>6. cmd' \in A!Commands /\ cmd'.name = "backup" /\ cmd'.step = p /\ cmd'.n = Len(archives) + 1
    BY <1>0, <2>4, <2>5 DEF A!Commands, A!Kept
  <2> QED
    BY <1>0, <1>2, <2>3, <2>4, <2>6, ArchiveCommand DEF A!BackupOpen
<1>3. CASE A!BackupFile
  <2>1. PICK p \in cmd.todo :
          \/ cmd' = [cmd EXCEPT !.todo = @ \ {p}, !.files[p] = live[p]]
          \/ cmd' = [cmd EXCEPT !.todo = @ \ {p}] \/ cmd' = A!Idle
    BY <1>3 DEF A!BackupFile
  <2>2. /\ p \in Parts /\ cmd.name = "backup" /\ live[p] \in A!Contents
        /\ cmd.step \in A!Places /\ cmd.n \in DOMAIN archives
    BY <1>0, <1>3 DEF A!BackupFile, A!Commands, A!Files, ArchiveInv, A!CommandOK
  <2>3. /\ cmd' \in A!Commands
        /\ \/ cmd'.name = "none"
           \/ cmd'.name = "backup" /\ cmd'.step = cmd.step /\ cmd'.n = cmd.n
    <3>1. CASE cmd' = A!Idle
      BY IdleOK, <3>1
    <3>2. CASE cmd' = [cmd EXCEPT !.todo = @ \ {p}]
      BY <1>0, <2>2, <3>2 DEF A!Commands
    <3>3. CASE cmd' = [cmd EXCEPT !.todo = @ \ {p}, !.files[p] = live[p]]
      <4>1. [cmd.files EXCEPT ![p] = live[p]] \in A!Files
        BY <1>0, <2>2 DEF A!Commands, A!Files
      <4>2. cmd' = [cmd EXCEPT !.todo = cmd.todo \ {p}, !.files = [cmd.files EXCEPT ![p] = live[p]]]
        BY <3>3
      <4> QED
        BY <1>0, <2>2, <4>1, <4>2 DEF A!Commands
    <3> QED
      BY <2>1, <3>1, <3>2, <3>3
  <2> QED
    BY <1>0, <1>3, <2>2, <2>3, ArchiveCommand DEF A!BackupFile
<1>4. CASE A!BackupClose
  <2>1. cmd.step \in A!Places /\ cmd.n \in DOMAIN archives /\ cmd.files \in A!Files
    BY <1>0, <1>4 DEF A!BackupClose, ArchiveInv, A!CommandOK, A!Commands
  <2>2. archives[cmd.n] \in A!Archives
    BY <1>0, <2>1, ElementOfSeq
  <2> DEFINE a == [archives[cmd.n] EXCEPT !.place = cmd.step, !.whole = TRUE, !.files = cmd.files]
  <2>3. a \in A!Archives
    BY <2>1, <2>2 DEF A!Archives
  <2>4. archives' = [archives EXCEPT ![cmd.n] = a]
    BY <1>4 DEF A!BackupClose
  <2>5. archives' \in Seq(A!Archives)
    <3> HIDE DEF a
    <3> QED
      BY <1>0, <2>1, <2>3, <2>4, ExceptSeq
  <2> QED
    BY <1>0, <1>01, <1>4, <2>5, ArchiveCommand DEF A!BackupClose
<1>5. ASSUME NEW n \in 1 .. MaxArchives, NEW f \in BOOLEAN, A!RestoreExtract(n, f)
      PROVE  ArchiveInv'
  <2>1. archives[n] \in A!Archives
    BY <1>0, <1>5, ElementOfSeq DEF A!RestoreExtract
  <2>2. archives[n].files \in A!Files /\ temp' = archives[n].files
    BY <1>5, <2>1 DEF A!Archives, A!RestoreExtract
  <2>3. cmd' = [A!Idle EXCEPT !.name = "restore", !.step = "check", !.n = n, !.force = f]
    BY <1>5 DEF A!RestoreExtract
  <2>4. cmd' \in A!Commands /\ cmd'.name = "restore" /\ cmd'.step = "check" /\ n \in 0 .. MaxArchives
    <3>1. n \in 0 .. MaxArchives
      BY ArchiveAssumption
    <3>2. "restore" \in {"none", "backup", "restore", "reset"} /\ "check" \in {"", "check", "clear", "copy"}
      OBVIOUS
    <3> QED
      BY <3>1, <3>2, <2>3, IdleOK DEF A!Commands
  <2>5. UNCHANGED <<live, writes, archives, crashes>> /\ newer' = {} /\ aim' = Void
    BY <1>5 DEF A!RestoreExtract
  <2>6. A!ArchiveTypeOK'
    BY <1>0, <2>2, <2>5 DEF A!ArchiveTypeOK
  <2>7. A!CommandOK' /\ A!Applying'
    BY <2>2, <2>4, <2>5 DEF A!CommandOK, A!Applying
  <2> QED
    BY <2>6, <2>7 DEF ArchiveInv
<1>6. ASSUME NEW n \in 1 .. MaxArchives, NEW f \in BOOLEAN, A!ScriptRestore(n, f)
      PROVE  ArchiveInv'
  BY <1>6, ArchiveWrite, ArchiveAssumption DEF A!ScriptRestore
<1>7. CASE A!RestoreCheck
  <2>1. CASE cmd' = A!Idle /\ UNCHANGED aim
    BY <1>0, <1>01, <1>7, <2>1, ArchiveCommand DEF A!RestoreCheck
  <2>2. CASE cmd' = [cmd EXCEPT !.step = "clear"] /\ aim' = temp
    <3>1. cmd.name = "restore" /\ temp \in A!Files
      BY <1>7 DEF A!RestoreCheck, ArchiveInv, A!Applying
    <3>2. cmd' \in A!Commands /\ cmd'.name = "restore" /\ cmd'.step = "clear"
      BY <1>0, <2>2, <3>1 DEF A!Commands
    <3>3. UNCHANGED <<live, writes, archives, temp, crashes, newer>>
      BY <1>7 DEF A!RestoreCheck
    <3>4. A!ArchiveTypeOK'
      BY <1>0, <2>2, <3>1, <3>3 DEF A!ArchiveTypeOK
    <3>5. A!CommandOK' /\ A!Applying'
      BY <2>2, <3>1, <3>2, <3>3 DEF A!CommandOK, A!Applying
    <3> QED
      BY <3>4, <3>5 DEF ArchiveInv
  <2> QED
    BY <1>7, <2>1, <2>2 DEF A!RestoreCheck
<1>8. CASE A!RestoreClear
  <2>0. /\ cmd.name = "restore" /\ cmd.step = "clear" /\ temp \in A!Files /\ aim = temp
        /\ UNCHANGED <<writes, temp, crashes, aim, newer>>
    BY <1>8 DEF A!RestoreClear, ArchiveInv, A!Applying
  <2>1. ASSUME NEW p \in A!Kept(live), live' = [live EXCEPT ![p] = Void], UNCHANGED <<archives, cmd>>
        PROVE  ArchiveInv'
    <3>1. live' \in A!Files
      BY <1>0, <2>1 DEF A!Files, A!Contents, A!Kept
    <3>2. A!ArchiveTypeOK'
      BY <1>0, <2>0, <2>1, <3>1 DEF A!ArchiveTypeOK
    <3>3. A!CommandOK' /\ A!Applying'
      BY <2>0, <2>1 DEF ArchiveInv, A!CommandOK, A!Applying
    <3> QED
      BY <3>2, <3>3 DEF ArchiveInv
  <2>2. ASSUME NEW n \in A!Here, archives' = [archives EXCEPT ![n].place = "deleted"],
               UNCHANGED <<live, cmd>>
        PROVE  ArchiveInv'
    <3> DEFINE a == [archives[n] EXCEPT !.place = "deleted"]
    <3>1. n \in DOMAIN archives
      BY DEF A!Here
    <3>2. archives[n] \in A!Archives
      BY <1>0, <3>1, ElementOfSeq
    <3>3. a \in A!Archives
      BY <3>2 DEF A!Archives, A!Places
    <3>4. archives' = [archives EXCEPT ![n] = a]
      BY <2>2
    <3>5. archives' \in Seq(A!Archives)
      <4> HIDE DEF a
      <4> QED
        BY <1>0, <3>1, <3>3, <3>4, ExceptSeq
    <3>6. A!ArchiveTypeOK'
      BY <1>0, <2>0, <2>2, <3>5 DEF A!ArchiveTypeOK
    <3>7. A!CommandOK' /\ A!Applying'
      BY <2>0, <2>2 DEF ArchiveInv, A!CommandOK, A!Applying
    <3> QED
      BY <3>6, <3>7 DEF ArchiveInv
  <2>3. CASE /\ A!Kept(live) \subseteq newer /\ UNCHANGED <<live, archives>>
             /\ cmd' = [cmd EXCEPT !.step = "copy", !.todo = A!Kept(temp)]
    <3>1. cmd' \in A!Commands /\ cmd'.name = "restore" /\ cmd'.step = "copy" /\ cmd'.todo = A!Kept(temp)
      BY <1>0, <2>0, <2>3 DEF A!Kept, A!Commands
    <3>2. \A p \in Parts \ newer : p \notin A!Kept(temp) => live[p] = temp[p]
      BY <2>3 DEF A!Kept
    <3>3. A!ArchiveTypeOK'
      BY <1>0, <2>0, <2>3 DEF A!ArchiveTypeOK
    <3>4. A!CommandOK' /\ A!Applying'
      BY <2>0, <2>3, <3>1, <3>2 DEF A!CommandOK, A!Applying
    <3> QED
      BY <3>3, <3>4 DEF ArchiveInv
  <2> QED
    BY <1>8, <2>1, <2>2, <2>3 DEF A!RestoreClear
<1>9. CASE A!RestoreCopy
  <2>1. PICK p \in cmd.todo : /\ live' = [live EXCEPT ![p] = temp[p]] /\ newer' = newer \ {p}
                              /\ cmd' = [cmd EXCEPT !.todo = @ \ {p}]
    BY <1>9 DEF A!RestoreCopy
  <2>2. /\ p \in Parts /\ temp \in A!Files /\ aim = temp /\ cmd.name = "restore" /\ cmd.step = "copy"
        /\ UNCHANGED <<writes, archives, temp, crashes, aim>>
        /\ \A q \in Parts \ newer : q \notin cmd.todo => live[q] = temp[q]
    BY <1>0, <1>9 DEF A!RestoreCopy, A!Commands, ArchiveInv, A!Applying
  <2>3. live' \in A!Files /\ newer' \subseteq Parts
    BY <1>0, <2>1, <2>2 DEF A!Files
  <2>4. /\ cmd' \in A!Commands /\ cmd'.name = "restore" /\ cmd'.step = "copy"
        /\ cmd'.todo = cmd.todo \ {p}
    BY <1>0, <2>1, <2>2 DEF A!Commands
  <2>5. \A q \in Parts \ newer' : q \notin cmd'.todo => live'[q] = temp'[q]
    BY <1>0, <2>1, <2>2, <2>4 DEF A!Files
  <2>6. A!ArchiveTypeOK'
    BY <1>0, <2>2, <2>3 DEF A!ArchiveTypeOK
  <2>7. A!CommandOK' /\ A!Applying'
    BY <2>2, <2>4, <2>5 DEF A!CommandOK, A!Applying
  <2> QED
    BY <2>6, <2>7 DEF ArchiveInv
<1>10. CASE A!RestoreEnd
  BY <1>0, <1>01, <1>10, ArchiveCommand DEF A!RestoreEnd
<1>11. CASE A!ResetCheck
  <2>1. cmd' \in A!Commands /\ cmd'.name = "reset"
    BY <1>0, <1>11 DEF A!ResetCheck, A!Commands
  <2> QED
    BY <1>0, <1>11, <2>1, ArchiveCommand DEF A!ResetCheck
<1>12. CASE A!ResetWipe
  <2>1. live' \in A!Files
    BY <1>0, <1>12, ArchiveAssumption DEF A!ResetWipe, A!Files, A!Contents
  <2>2. cmd.name = "reset" /\ cmd' \in {cmd, A!Idle} /\ UNCHANGED <<writes, archives, temp, crashes, aim, newer>>
    BY <1>12 DEF A!ResetWipe
  <2>3. cmd' \in A!Commands /\ cmd'.name # "backup" /\ cmd'.name # "restore"
    BY <1>0, <1>01, <2>2
  <2>4. A!ArchiveTypeOK'
    BY <1>0, <2>1, <2>2 DEF A!ArchiveTypeOK
  <2>5. A!CommandOK' /\ A!Applying'
    BY <1>0, <2>2, <2>3 DEF A!CommandOK, A!Applying
  <2> QED
    BY <2>4, <2>5 DEF ArchiveInv
<1>13. CASE A!Kill
  <2>1. crashes' \in 0 .. MaxCrashes
    BY <1>0, <1>13, ArchiveAssumption DEF A!Kill
  <2> QED
    BY <1>0, <1>01, <1>13, <2>1, ArchiveCommand DEF A!Kill
<1> QED
  BY <1>1, <1>2, <1>3, <1>4, <1>5, <1>6, <1>7, <1>8, <1>9, <1>10, <1>11, <1>12, <1>13 DEF A!ArchiveNext

\* A step that leaves these variables alone keeps it.
LEMMA ArchiveStutter == ArchiveInv /\ UNCHANGED archiveVars => ArchiveInv'
  BY DEF archiveVars, ArchiveInv, A!ArchiveTypeOK, A!CommandOK, A!Applying

\* It holds in every behaviour.
LEMMA ArchiveAlways == Spec => []ArchiveInv
<1>1. Init => ArchiveInv
  BY ArchiveStart DEF Init
<1>2. ArchiveInv /\ [Next]_<<part, blockVars, graphVars, skillVars, archiveVars,
                             transferVars, chainVars, mirrorVars>> => ArchiveInv'
  BY ArchiveStep, ArchiveStutter DEF Next
<1> QED
  BY <1>1, <1>2, PTL DEF Spec

\* A restore ends only by RestoreEnd, unless it is killed.
LEMMA RestoreApplies ==
  ASSUME ArchiveInv, A!ArchiveNext, cmd.name = "restore", cmd.step = "copy", cmd' = A!Idle,
         crashes' = crashes
  PROVE  \A p \in Parts \ newer : live[p] = aim[p]
<1>0. A!Idle.name = "none" /\ cmd # A!Idle /\ crashes \in Nat /\ cmd \in A!Commands
  BY IdleOK, ArchiveAssumption DEF ArchiveInv, A!ArchiveTypeOK, A!CommandOK
<1>1. ASSUME NEW p, cmd' = [cmd EXCEPT !.todo = @ \ {p}] PROVE FALSE
  <2>1. cmd'.name = "restore"
    BY <1>0, <1>1 DEF A!Commands
  <2> QED
    BY <1>0, <2>1
<1>2. CASE A!RestoreEnd
  BY <1>2 DEF A!RestoreEnd, ArchiveInv, A!Applying
<1>3. CASE A!RestoreCopy
  BY <1>1, <1>3 DEF A!RestoreCopy
<1>4. ~ A!RestoreCheck /\ ~ A!RestoreClear /\ ~ A!BackupFile /\ ~ A!BackupClose /\ ~ A!ResetWipe
  BY DEF A!RestoreCheck, A!RestoreClear, A!BackupFile, A!BackupClose, A!ResetWipe
<1>5. ~ A!Kill
  BY <1>0 DEF A!Kill
<1>6. ASSUME cmd' = cmd \/ cmd = A!Idle PROVE FALSE
  BY <1>0, <1>6
<1> QED
  BY <1>2, <1>3, <1>4, <1>5, <1>6
  DEF A!ArchiveNext, A!Write, A!BackupOpen, A!RestoreExtract, A!ScriptRestore, A!ResetCheck

\* Whatever writes and kills come between, what a restore was to bring is on disk
\* in one place (cli.py:1207), and is what data/ holds when it ends (cli.py:1209).
THEOREM RestoreHoldsAlways == Spec => RestoreHolds
<1>1. ArchiveInv' => A!SomeCopyRemains'
  BY DEF ArchiveInv, A!Applying, A!SomeCopyRemains
<1>2. ASSUME ArchiveInv, [Next]_<<part, blockVars, graphVars, skillVars, archiveVars,
                                  transferVars, chainVars, mirrorVars>>
      PROVE  [cmd.name = "restore" /\ cmd.step = "copy" /\ cmd' = A!Idle /\ crashes' = crashes =>
                \A p \in Parts \ newer : live[p] = aim[p]]_A!archiveVars
  <2>1. A!ArchiveNext \/ UNCHANGED A!archiveVars
    BY <1>2 DEF Next, archiveVars, A!archiveVars
  <2> QED
    BY <1>2, <2>1, RestoreApplies
<1>3. Spec => [][A!SomeCopyRemains']_archiveVars
  BY <1>1, ArchiveAlways, PTL
<1>4. Spec => A!AppliedIsArchived
  BY <1>2, ArchiveAlways, PTL DEF Spec, A!AppliedIsArchived
<1> QED
  BY <1>3, <1>4 DEF RestoreHolds

-----------------------------------------------------------------------------
(* Skills.                                                                  *)

SkillsInv ==
  S!SkillsTypeOK /\ S!PromotedHasFile /\ S!Underway /\ S!InTurn /\ S!NoOrphan

\* The invariant holds in the first states.
LEMMA SkillsStart == S!SkillsInit => SkillsInv
<1> SUFFICES ASSUME S!SkillsInit PROVE SkillsInv
  OBVIOUS
<1>1. S!SkillsTypeOK
  <2>1. edits \in 0 .. MaxEdits
    BY SkillsAssumption DEF S!SkillsInit
  <2>2. overlap \in BOOLEAN
    BY Zenon DEF S!SkillsInit
  <2> QED
    BY <2>1, <2>2 DEF S!SkillsInit, S!SkillsTypeOK
<1>2. S!PromotedHasFile /\ S!Underway /\ S!InTurn /\ S!NoOrphan
  BY DEF S!SkillsInit, S!PromotedHasFile, S!Underway, S!InTurn, S!NoOrphan, S!Active
<1> QED
  BY <1>1, <1>2 DEF SkillsInv

\* A request ends, or goes on with nothing that others see.
LEMMA SkillsMove ==
  ASSUME SkillsInv, NEW p \in Promotions, NEW w \in {"check", "file", "done", "refused", "dead"},
         S!Active(p), where[p] # "mark" \/ overlap', overlap => overlap',
         overlap' \in BOOLEAN, S!Move(p, w),
         w = "file" => where[p] = "check",
         IF w = "check"
           THEN /\ where[p] = "recover"
                /\ called' = [called EXCEPT ![p] = IF title[seen[p]] = NoTitle THEN @ ELSE title[seen[p]]]
           ELSE UNCHANGED called,
         UNCHANGED <<mark, title, of, force, seen, edits>>
  PROVE  SkillsInv'
<1>0. /\ S!SkillsTypeOK /\ S!PromotedHasFile /\ S!Underway /\ S!InTurn /\ S!NoOrphan
      /\ SlugOf \in [Titles -> Slugs] /\ NoTitle \notin Titles /\ MaxEdits \in Nat
  BY SkillsAssumption DEF SkillsInv
<1>1. /\ where' = [where EXCEPT ![p] = w]
      /\ where \in [Promotions -> {"new", "recover", "check", "file", "mark", "done", "refused", "dead"}]
  BY <1>0 DEF S!Move, S!SkillsTypeOK
<1>2. /\ called' \in [Promotions -> Titles]
      /\ \A q \in Promotions \ {p} : called'[q] = called[q]
  <2>1. CASE w = "check"
    <3>1. seen[p] \in Slugs
      BY <1>0, <2>1 DEF S!Underway, S!SkillsTypeOK
    <3> QED
      BY <1>0, <2>1, <3>1 DEF S!SkillsTypeOK
  <2> QED
    BY <1>0, <2>1 DEF S!SkillsTypeOK
<1>3. S!SkillsTypeOK'
  BY <1>0, <1>1, <1>2 DEF S!SkillsTypeOK
<1>4. \A q \in Promotions : where'[q] = "mark" => q # p /\ where[q] = "mark" /\ S!Path(q)' = S!Path(q)
  BY <1>1, <1>2 DEF S!Path
<1>5. S!PromotedHasFile' /\ S!Underway'
  BY <1>0, <1>1, <1>4 DEF S!PromotedHasFile, S!Underway
<1>6. S!InTurn'
  <2>1. \A q \in Promotions : S!Active(q)' => S!Active(q)
    BY <1>1 DEF S!Active
  <2>2. (edits = 0 => \A s \in Slugs : title[s] # NoTitle => SlugOf[title[s]] = s)'
    BY <1>0 DEF S!InTurn
  <2>3. (~ overlap => \A q \in Promotions : S!Active(q) =>
           /\ seen[q] = mark[of[q]]
           /\ \A u \in Promotions \ {q} : S!Active(u) => of[u] # of[q])'
    BY <1>0, <2>1 DEF S!InTurn
  <2>4. ASSUME edits' = 0, ~ overlap', NEW q \in Promotions,
               where'[q] \in {"check", "file", "mark"}, seen'[q] # NoSlug
        PROVE  S!Path(q)' = seen'[q]
    <3>0. edits = 0 /\ ~ overlap /\ seen[q] \in Slugs
      BY <1>0, <2>4 DEF S!SkillsTypeOK
    <3>1. CASE q = p /\ w = "check"
      <4>1. seen[p] = mark[of[p]] /\ of[p] \in Chunks
        BY <1>0, <3>0 DEF S!InTurn, S!SkillsTypeOK
      <4>2. title[seen[p]] # NoTitle
        BY <1>0, <2>4, <3>1, <4>1 DEF S!PromotedHasFile
      <4>3. called'[p] = title[seen[p]] /\ SlugOf[title[seen[p]]] = seen[p]
        BY <1>0, <3>0, <3>1, <4>2 DEF S!InTurn, S!SkillsTypeOK
      <4> QED
        BY <3>1, <4>3 DEF S!Path
    <3>2. CASE ~ (q = p /\ w = "check")
      <4>1. called'[q] = called[q] /\ where[q] \in {"check", "file", "mark"}
        BY <1>1, <1>2, <2>4, <3>2
      <4> QED
        BY <1>0, <2>4, <3>0, <4>1 DEF S!InTurn, S!Path
    <3> QED
      BY <3>1, <3>2
  <2> QED
    BY <2>2, <2>3, <2>4 DEF S!InTurn
<1>7. S!NoOrphan'
  <2> SUFFICES ASSUME edits = 0, ~ overlap', NEW s \in Slugs, title[s] # NoTitle
               PROVE  \/ \E c \in Chunks : mark[c] = s
                      \/ \E q \in Promotions : where'[q] = "mark" /\ S!Path(q)' = s
    BY DEF S!NoOrphan
  <2>1. CASE \E c \in Chunks : mark[c] = s
    BY <2>1
  <2>2. CASE \E q \in Promotions : where[q] = "mark" /\ S!Path(q) = s
    <3>1. PICK q \in Promotions : where[q] = "mark" /\ S!Path(q) = s
      BY <2>2
    <3>2. q # p /\ where'[q] = "mark" /\ S!Path(q)' = s
      BY <1>1, <1>2, <3>1 DEF S!Path
    <3> QED
      BY <3>2
  <2> QED
    BY <1>0, <2>1, <2>2 DEF S!NoOrphan
<1> QED
  BY <1>3, <1>5, <1>6, <1>7 DEF SkillsInv

\* Every step keeps it.
LEMMA SkillsStep == SkillsInv /\ S!SkillsNext => SkillsInv'
<1> SUFFICES ASSUME SkillsInv, S!SkillsNext PROVE SkillsInv'
  OBVIOUS
<1>0. /\ S!SkillsTypeOK /\ S!PromotedHasFile /\ S!Underway /\ S!InTurn /\ S!NoOrphan
      /\ SlugOf \in [Titles -> Slugs] /\ NoTitle \notin Titles /\ MaxEdits \in Nat
  BY SkillsAssumption DEF SkillsInv
<1>01. where \in [Promotions -> {"new", "recover", "check", "file", "mark", "done", "refused", "dead"}]
  BY <1>0 DEF S!SkillsTypeOK
<1>02. \A p \in Promotions : S!Path(p) \in Slugs
  BY <1>0 DEF S!SkillsTypeOK, S!Path
<1>1. ASSUME NEW p \in Promotions, S!ReadMark(p) PROVE SkillsInv'
  <2>0. /\ where[p] = "new" /\ seen' = [seen EXCEPT ![p] = mark[of[p]]]
        /\ where' = [where EXCEPT ![p] = IF mark[of[p]] = NoSlug THEN "check"
                                         ELSE IF force[p] THEN "recover" ELSE "refused"]
        /\ overlap' = (overlap \/ \E q \in Promotions \ {p} : of[q] = of[p] /\ S!Active(q))
        /\ UNCHANGED <<mark, title, of, called, force, edits>>
        /\ mark[of[p]] \in Slugs \cup {NoSlug}
    BY <1>0, <1>1 DEF S!ReadMark, S!Move, S!SkillsTypeOK
  <2>1. S!SkillsTypeOK'
    BY <1>0, <2>0 DEF S!SkillsTypeOK
  <2>2. \A q \in Promotions \ {p} : where'[q] = where[q] /\ seen'[q] = seen[q]
    BY <1>0, <1>01, <2>0 DEF S!SkillsTypeOK
  <2>3. /\ seen'[p] = mark[of[p]] /\ where'[p] # "mark"
        /\ where'[p] = "recover" => seen'[p] # NoSlug
        /\ where'[p] \in {"check", "file"} => seen'[p] = NoSlug
    BY <1>0, <1>01, <2>0 DEF S!SkillsTypeOK
  <2>4. S!PromotedHasFile' /\ S!Underway'
    BY <1>0, <2>0, <2>2, <2>3 DEF S!PromotedHasFile, S!Underway, S!Path
  <2>5. S!InTurn'
    <3>1. \A q \in Promotions \ {p} : S!Active(q)' <=> S!Active(q)
      BY <2>2 DEF S!Active
    <3>2. (~ overlap => \A q \in Promotions : S!Active(q) =>
             /\ seen[q] = mark[of[q]]
             /\ \A u \in Promotions \ {q} : S!Active(u) => of[u] # of[q])'
      BY <1>0, <2>0, <2>2, <2>3, <3>1 DEF S!InTurn
    <3>3. (edits = 0 /\ ~ overlap => \A q \in Promotions :
             where[q] \in {"check", "file", "mark"} /\ seen[q] # NoSlug => S!Path(q) = seen[q])'
      BY <1>0, <2>0, <2>2, <2>3 DEF S!InTurn, S!Path
    <3> QED
      BY <1>0, <2>0, <3>2, <3>3 DEF S!InTurn
  <2>6. S!NoOrphan'
    <3>1. \A q \in Promotions : where[q] = "mark" => where'[q] = "mark" /\ S!Path(q)' = S!Path(q)
      BY <2>0, <2>2 DEF S!Path
    <3>2. ~ overlap' => ~ overlap
      BY <2>0
    <3> QED
      BY <1>0, <2>0, <3>1, <3>2 DEF S!NoOrphan
  <2> QED
    BY <2>1, <2>4, <2>5, <2>6 DEF SkillsInv
<1>2. ASSUME NEW p \in Promotions, S!Recover(p) PROVE SkillsInv'
  BY <1>0, <1>2, SkillsMove DEF S!Recover, S!Active, S!SkillsTypeOK
<1>3. ASSUME NEW p \in Promotions, S!CheckFile(p) PROVE SkillsInv'
  BY <1>0, <1>3, SkillsMove DEF S!CheckFile, S!Active, S!SkillsTypeOK
<1>4. ASSUME NEW p \in Promotions, S!Unwritable(p) PROVE SkillsInv'
  BY <1>0, <1>4, SkillsMove DEF S!Unwritable, S!Active, S!SkillsTypeOK
<1>5. ASSUME NEW p \in Promotions, S!Dies(p) PROVE SkillsInv'
  BY <1>0, <1>5, SkillsMove DEF S!Dies, S!SkillsTypeOK
<1>6. ASSUME NEW p \in Promotions, S!WriteFile(p) PROVE SkillsInv'
  <2>0. /\ where[p] = "file" /\ title' = [title EXCEPT ![S!Path(p)] = called[p]]
        /\ where' = [where EXCEPT ![p] = "mark"]
        /\ UNCHANGED <<mark, of, called, force, seen, edits, overlap>>
        /\ called[p] \in Titles /\ called[p] # NoTitle /\ S!Path(p) = SlugOf[called[p]]
        /\ title \in [Slugs -> Titles \cup {NoTitle}]
    BY <1>0, <1>6 DEF S!WriteFile, S!Move, S!SkillsTypeOK, S!Path
  <2>1. S!SkillsTypeOK'
    BY <1>0, <1>02, <2>0 DEF S!SkillsTypeOK
  <2>2. \A s \in Slugs : title'[s] = IF s = S!Path(p) THEN called[p] ELSE title[s]
    BY <1>02, <2>0
  <2>3. \A q \in Promotions : S!Path(q)' = S!Path(q)
    BY <2>0 DEF S!Path
  <2>4. \A q \in Promotions : where'[q] = IF q = p THEN "mark" ELSE where[q]
    BY <1>01, <2>0
  <2>5. S!PromotedHasFile'
    BY <1>0, <2>0, <2>2 DEF S!PromotedHasFile, S!SkillsTypeOK
  <2>6. S!Underway'
    BY <1>0, <1>02, <2>0, <2>2, <2>3, <2>4 DEF S!Underway
  <2>7. S!InTurn'
    <3>1. \A q \in Promotions : S!Active(q)' <=> S!Active(q)
      BY <2>0, <2>4 DEF S!Active
    <3>2. (edits = 0 => \A s \in Slugs : title[s] # NoTitle => SlugOf[title[s]] = s)'
      BY <1>0, <2>0, <2>2 DEF S!InTurn
    <3>3. (~ overlap => \A q \in Promotions : S!Active(q) =>
             /\ seen[q] = mark[of[q]]
             /\ \A u \in Promotions \ {q} : S!Active(u) => of[u] # of[q])'
      BY <1>0, <2>0, <3>1 DEF S!InTurn
    <3>4. (edits = 0 /\ ~ overlap => \A q \in Promotions :
             where[q] \in {"check", "file", "mark"} /\ seen[q] # NoSlug => S!Path(q) = seen[q])'
      BY <1>0, <2>0, <2>3, <2>4 DEF S!InTurn
    <3> QED
      BY <3>2, <3>3, <3>4 DEF S!InTurn
  <2>8. S!NoOrphan'
    <3> SUFFICES ASSUME edits = 0, ~ overlap, NEW s \in Slugs, title'[s] # NoTitle
                 PROVE  \/ \E c \in Chunks : mark[c] = s
                        \/ \E q \in Promotions : where'[q] = "mark" /\ S!Path(q)' = s
      BY <2>0 DEF S!NoOrphan
    <3>1. CASE s = S!Path(p)
      BY <2>3, <2>4, <3>1
    <3>2. CASE s # S!Path(p)
      <4>1. title[s] # NoTitle
        BY <2>2, <3>2
      <4> QED
        BY <1>0, <2>3, <2>4, <4>1 DEF S!NoOrphan
    <3> QED
      BY <3>1, <3>2
  <2> QED
    BY <2>1, <2>5, <2>6, <2>7, <2>8 DEF SkillsInv
<1>7. ASSUME NEW p \in Promotions, S!Mark(p) PROVE SkillsInv'
  <2>0. /\ where[p] = "mark" /\ mark' = [mark EXCEPT ![of[p]] = S!Path(p)]
        /\ where' = [where EXCEPT ![p] = "done"]
        /\ UNCHANGED <<title, of, called, force, seen, edits, overlap>>
        /\ of[p] \in Chunks /\ mark \in [Chunks -> Slugs \cup {NoSlug}]
    BY <1>0, <1>7 DEF S!Mark, S!Move, S!SkillsTypeOK
  <2>1. S!SkillsTypeOK'
    BY <1>0, <1>02, <2>0 DEF S!SkillsTypeOK
  <2>2. \A c \in Chunks : mark'[c] = IF c = of[p] THEN S!Path(p) ELSE mark[c]
    BY <2>0
  <2>3. \A q \in Promotions : S!Path(q)' = S!Path(q)
    BY <2>0 DEF S!Path
  <2>4. \A q \in Promotions : where'[q] = IF q = p THEN "done" ELSE where[q]
    BY <1>01, <2>0
  <2>5. S!PromotedHasFile'
    BY <1>0, <2>0, <2>2 DEF S!PromotedHasFile, S!Underway
  <2>6. S!Underway'
    BY <1>0, <2>0, <2>3, <2>4 DEF S!Underway
  <2>7. S!InTurn'
    <3>1. \A q \in Promotions : S!Active(q)' => q # p /\ S!Active(q)
      BY <2>4 DEF S!Active
    <3>2. S!Active(p)
      BY <2>0 DEF S!Active
    <3>3. ASSUME ~ overlap, NEW q \in Promotions, S!Active(q)'
          PROVE  seen[q] = mark'[of[q]] /\ \A u \in Promotions \ {q} : S!Active(u)' => of[u] # of[q]
      BY <1>0, <2>0, <2>2, <3>1, <3>2, <3>3 DEF S!InTurn, S!SkillsTypeOK
    <3>4. (edits = 0 /\ ~ overlap => \A q \in Promotions :
             where[q] \in {"check", "file", "mark"} /\ seen[q] # NoSlug => S!Path(q) = seen[q])'
      BY <1>0, <2>0, <2>3, <2>4 DEF S!InTurn
    <3> QED
      BY <1>0, <2>0, <3>3, <3>4 DEF S!InTurn
  <2>8. S!NoOrphan'
    <3> SUFFICES ASSUME edits = 0, ~ overlap, NEW s \in Slugs, title[s] # NoTitle
                 PROVE  \/ \E c \in Chunks : mark'[c] = s
                        \/ \E q \in Promotions : where'[q] = "mark" /\ S!Path(q)' = s
      BY <2>0 DEF S!NoOrphan
    <3>1. CASE \E c \in Chunks : mark[c] = s
      <4>1. PICK c \in Chunks : mark[c] = s
        BY <3>1
      <4>2. ASSUME c = of[p] PROVE S!Path(p) = s
        <5>1. seen[p] = s
          BY <1>0, <2>0, <4>1, <4>2 DEF S!InTurn, S!Active
        <5>2. S!PromotedHasFile /\ mark[c] = s
          BY <1>0, <4>1
        <5>3. CASE seen[p] # NoSlug
          BY <1>0, <2>0, <5>1, <5>3 DEF S!InTurn
        <5>4. CASE seen[p] = NoSlug
          BY <5>1, <5>4, SkillsAssumption
        <5> QED
          BY <5>3, <5>4
      <4> QED
        BY <2>2, <4>1, <4>2
    <3>2. CASE \E q \in Promotions : where[q] = "mark" /\ S!Path(q) = s
      <4>1. PICK q \in Promotions : where[q] = "mark" /\ S!Path(q) = s
        BY <3>2
      <4>2. CASE q = p
        BY <2>0, <2>2, <4>1, <4>2
      <4>3. CASE q # p
        BY <2>3, <2>4, <4>1, <4>3
      <4> QED
        BY <4>2, <4>3
    <3> QED
      BY <1>0, <3>1, <3>2 DEF S!NoOrphan
  <2> QED
    BY <2>1, <2>5, <2>6, <2>7, <2>8 DEF SkillsInv
<1>8. ASSUME NEW s \in Slugs, S!EditTitle(s) PROVE SkillsInv'
  <2>1. PICK t \in Titles \ {title[s]} : title' = [title EXCEPT ![s] = t]
    BY <1>8 DEF S!EditTitle
  <2>2. /\ edits' = edits + 1 /\ edits < MaxEdits /\ edits \in 0 .. MaxEdits
        /\ UNCHANGED <<mark, of, called, force, where, seen, overlap>>
        /\ title \in [Slugs -> Titles \cup {NoTitle}]
    BY <1>0, <1>8 DEF S!EditTitle, S!SkillsTypeOK
  <2>3. edits' \in 0 .. MaxEdits /\ edits' # 0
    BY <1>0, <2>2
  <2>4. S!SkillsTypeOK'
    BY <1>0, <2>1, <2>2, <2>3 DEF S!SkillsTypeOK
  <2>5. \A x \in Slugs : title[x] # NoTitle => title'[x] # NoTitle
    BY <1>0, <2>1, <2>2
  <2>6. \A q \in Promotions : S!Path(q)' = S!Path(q)
    BY <2>2 DEF S!Path
  <2>7. S!PromotedHasFile' /\ S!Underway'
    BY <1>0, <1>02, <2>2, <2>5, <2>6 DEF S!PromotedHasFile, S!Underway, S!SkillsTypeOK
  <2>8. S!InTurn' /\ S!NoOrphan'
    <3>1. \A q \in Promotions : S!Active(q)' <=> S!Active(q)
      BY <2>2 DEF S!Active
    <3> QED
      BY <1>0, <2>2, <2>3, <3>1 DEF S!InTurn, S!NoOrphan
  <2> QED
    BY <2>4, <2>7, <2>8 DEF SkillsInv
<1> QED
  BY <1>1, <1>2, <1>3, <1>4, <1>5, <1>6, <1>7, <1>8 DEF S!SkillsNext

\* A step that leaves these variables alone keeps it.
LEMMA SkillsStutter == SkillsInv /\ UNCHANGED skillVars => SkillsInv'
  BY DEF skillVars, SkillsInv, S!SkillsTypeOK, S!PromotedHasFile, S!Underway, S!InTurn, S!NoOrphan,
         S!Active, S!Path

\* It holds in every behaviour.
LEMMA SkillsAlways == Spec => []SkillsInv
<1>1. Init => SkillsInv
  BY SkillsStart DEF Init
<1>2. SkillsInv /\ [Next]_<<part, blockVars, graphVars, skillVars, archiveVars,
                            transferVars, chainVars, mirrorVars>> => SkillsInv'
  BY SkillsStep, SkillsStutter DEF Next
<1> QED
  BY <1>1, <1>2, PTL DEF Spec

-----------------------------------------------------------------------------
(* Coding memory.                                                           *)

\* The least of some numbers is one of them.
LEMMA LeastIsMember == ASSUME NEW I \in SUBSET Nat, I # {} PROVE C!Min(I) \in I
  BY LeastNumber DEF C!Min

ChainInv ==
  /\ C!ChainTypeOK /\ C!OwnTexts /\ C!Walking /\ C!Links
  /\ C!NoGaps /\ C!Knowing /\ C!StoredOnce

\* What is taken for the files of a commit is a sequence of names.
LEMMA FilesAre == ASSUME NEW c \in C!Commits PROVE C!FilesOf(c) \in Seq(STRING)
<1>1. /\ Touched[c] \in Seq(STRING) /\ Message[c].later \in Seq(STRING)
      /\ Message[c].pathlike \in Seq(STRING)
  BY ChainAssumption DEF C!Commits
<1>2. Message[c].later \o Touched[c] \in Seq(STRING)
  BY <1>1, ConcatProperties
<1> QED
  BY <1>1, <1>2 DEF C!FilesOf

\* Commits are numbered, and what is distilled of them is told apart.
LEMMA CommitsAre ==
  /\ C!Commits = 1 .. Len(Touched) /\ Len(Touched) \in Nat
  /\ \A c \in C!Commits : /\ c \in Nat \ {0} /\ c # C!None
                          /\ Subject[c] \in C!AllTexts /\ Distilled[c] \in C!AllTexts
                          /\ DOMAIN C!FilesOf(c) = 1 .. Len(C!FilesOf(c))
  /\ \A c, d \in C!Commits : Distilled[c] # Subject[d] /\ (Distilled[c] = Distilled[d] => c = d)
<1>1. \A c \in C!Commits : DOMAIN C!FilesOf(c) = 1 .. Len(C!FilesOf(c))
  BY FilesAre, LenProperties
<1> QED
  BY <1>1, ChainAssumption DEF C!Commits, C!None, C!AllTexts

\* The invariant holds in the first states.
LEMMA ChainStart == C!ChainInit => ChainInv
<1> SUFFICES ASSUME C!ChainInit PROVE ChainInv
  OBVIOUS
<1>0. 0 \in 0 .. Len(Touched) /\ 0 \in 0 .. MaxMishaps /\ 1 \in Nat
  BY ChainAssumption
<1>1. records \in [C!AllTexts -> [commit : {C!None} \cup C!Commits, prev : {C!None} \cup C!Commits]]
  BY DEF C!ChainInit, C!NoRecord
<1>2. log \in [Runs -> Seq(C!Commits)]
  BY DEF C!ChainInit
<1>3. last \in [Runs -> [C!Files -> {C!None} \cup C!Commits]]
  BY DEF C!ChainInit
<1>4. writer \in BOOLEAN
  BY Zenon DEF C!ChainInit
<1>5. C!ChainTypeOK
  BY <1>0, <1>1, <1>2, <1>3, <1>4 DEF C!ChainInit, C!ChainTypeOK
<1>6. C!OwnTexts /\ C!Links
  BY DEF C!ChainInit, C!OwnTexts, C!Links, C!NoRecord
<1>7. C!Walking /\ C!NoGaps /\ C!Knowing /\ C!StoredOnce
  BY DEF C!ChainInit, C!Walking, C!NoGaps, C!Knowing, C!StoredOnce, C!NoRecord
<1> QED
  BY <1>5, <1>6, <1>7 DEF ChainInv

\* A commit with words of its own, as subject or distilled, has a record there.
LEMMA RecordedIsKnown ==
  ASSUME ChainInv, NEW c \in C!Recorded
  PROVE  c \in C!Commits /\ C!HasRecord(c)
<1>1. PICK t \in C!AllTexts : records[t].commit = c /\ c # C!None
  BY DEF C!Recorded
<1>2. c \in C!Commits
  BY <1>1 DEF ChainInv, C!ChainTypeOK
<1>3. t \in {Subject[c], Distilled[c]} /\ records[t] # C!NoRecord
  BY <1>1 DEF ChainInv, C!OwnTexts, C!NoRecord
<1> QED
  BY <1>2, <1>3 DEF C!HasRecord

\* A commit that alone has its text is recorded when it has a record.
LEMMA AloneIsRecorded ==
  ASSUME ChainInv, NEW c \in C!Commits, C!HasRecord(c), C!Alone(c)
  PROVE  c \in C!Recorded
<1>1. PICK t \in {Subject[c], Distilled[c]} : records[t] # C!NoRecord
  BY DEF C!HasRecord
<1>2. t \in C!AllTexts
  BY <1>1, CommitsAre
<1> DEFINE d == records[t].commit
<1>3. d # C!None /\ t \in {Subject[d], Distilled[d]}
  BY <1>1, <1>2 DEF ChainInv, C!OwnTexts
<1>4. d \in C!Commits
  BY <1>2, <1>3 DEF ChainInv, C!ChainTypeOK
<1>5. d = c
  BY <1>1, <1>3, <1>4, CommitsAre DEF C!Alone
<1> QED
  BY <1>2, <1>3, <1>5 DEF C!Recorded

\* What a run links a commit to.
LEMMA PreviousLeads ==
  ASSUME ChainInv, NEW r \in Runs, at[r] = "walk",
         NEW c \in C!Commits, c = log[r][pos[r]], C!Previous(r, c) # C!None
  PROVE  LET q == C!Previous(r, c) IN
           /\ q \in C!Commits /\ C!HasRecord(q) /\ q < c
           /\ C!ToSet(C!FilesOf(q)) \cap C!ToSet(C!FilesOf(c)) # {}
<1> DEFINE I == {i \in 1 .. Len(C!FilesOf(c)) : last[r][C!FilesOf(c)[i]] # C!None}
<1>1. C!Previous(r, c) = (LET i == IF I # {} THEN C!Min(I) ELSE 0
                          IN  IF i = 0 THEN C!None ELSE last[r][C!FilesOf(c)[i]])
  BY DEF C!Previous, C!SelectInSeq
<1>2. I # {}
  BY <1>1
<1>3. C!Min(I) \in I
  <2>1. I \in SUBSET Nat
    OBVIOUS
  <2> HIDE DEF I
  <2> QED
    BY <1>2, <2>1, LeastIsMember
<1>4. PICK i \in 1 .. Len(C!FilesOf(c)) : /\ last[r][C!FilesOf(c)[i]] # C!None
                                        /\ C!Previous(r, c) = last[r][C!FilesOf(c)[i]]
  BY <1>1, <1>2, <1>3
<1> DEFINE f == C!FilesOf(c)[i]
<1>5. f \in C!ToSet(C!FilesOf(c)) /\ f \in C!Files
  BY CommitsAre DEF C!ToSet, C!Files
<1>6. last[r][f] \in C!Commits
  BY <1>4, <1>5 DEF ChainInv, C!ChainTypeOK
<1>7. f \in C!ToSet(C!FilesOf(last[r][f])) /\ C!HasRecord(last[r][f]) /\ last[r][f] < c
  BY <1>4, <1>5 DEF ChainInv, C!Walking
<1> QED
  BY <1>4, <1>5, <1>6, <1>7

\* Storing a commit overwrites no record without leaving one.
LEMMA ChainStore ==
  ASSUME ChainInv, NEW c \in C!Commits, NEW q \in {C!None} \cup C!Commits,
         q # C!None => /\ C!HasRecord(q) /\ q < c
                       /\ C!ToSet(C!FilesOf(q)) \cap C!ToSet(C!FilesOf(c)) # {},
         NEW text \in {Subject[c], Distilled[c]},
         records' = [records EXCEPT ![text] = [commit |-> c, prev |-> IF q = C!None THEN @.prev ELSE q]]
  PROVE  /\ records' \in [C!AllTexts -> [commit : {C!None} \cup C!Commits, prev : {C!None} \cup C!Commits]]
         /\ C!OwnTexts' /\ C!Links' /\ C!HasRecord(c)'
         /\ \A d \in C!Commits : C!HasRecord(d) => C!HasRecord(d)'
<1> DEFINE new == [commit |-> c, prev |-> IF q = C!None THEN records[text].prev ELSE q]
<1>0. /\ text \in C!AllTexts /\ c # C!None
      /\ records \in [C!AllTexts -> [commit : {C!None} \cup C!Commits, prev : {C!None} \cup C!Commits]]
  BY CommitsAre DEF ChainInv, C!ChainTypeOK
<1>1. /\ new \in [commit : {C!None} \cup C!Commits, prev : {C!None} \cup C!Commits]
      /\ records' = [records EXCEPT ![text] = new]
      /\ new # C!NoRecord
  BY <1>0 DEF C!NoRecord
<1>2. \A t \in C!AllTexts : records'[t] = IF t = text THEN new ELSE records[t]
  BY <1>0, <1>1
<1>3. \A d \in C!Commits : C!HasRecord(d) => C!HasRecord(d)'
  BY <1>1, <1>2, CommitsAre DEF C!HasRecord
<1>4. C!HasRecord(c)'
  BY <1>0, <1>1, <1>2 DEF C!HasRecord
<1>5. C!OwnTexts'
  BY <1>0, <1>2 DEF ChainInv, C!OwnTexts
<1>6. C!Links'
  <2> DEFINE Known(d) == \E x \in {Subject[d], Distilled[d]} : records'[x] # C!NoRecord
             Leads(p, d) == C!Alone(d) => p < d /\ C!ToSet(C!FilesOf(p)) \cap C!ToSet(C!FilesOf(d)) # {}
  <2>01. \A d \in C!Commits : C!HasRecord(d) => Known(d)
    BY <1>3 DEF C!HasRecord
  <2> HIDE DEF Known
  <2> SUFFICES ASSUME NEW t \in C!AllTexts, records'[t].prev # C!None
               PROVE  Known(records'[t].prev) /\ Leads(records'[t].prev, records'[t].commit)
    BY DEF C!Links, C!HasRecord, Known, C!Alone
  <2>1. CASE t # text
    <3>1. records'[t] = records[t] /\ records[t].prev \in C!Commits
      BY <1>0, <1>2, <2>1
    <3> QED
      BY <2>01, <3>1 DEF ChainInv, C!Links
  <2>2. CASE t = text /\ q # C!None
    <3>1. records'[t].prev = q /\ records'[t].commit = c /\ q \in C!Commits
      BY <1>2, <2>2
    <3> QED
      BY <2>01, <2>2, <3>1
  <2>3. CASE t = text /\ q = C!None
    <3>1. records'[t].prev = records[t].prev /\ records'[t].commit = c
      BY <1>2, <2>3
    <3>2. records[t].prev \in C!Commits /\ C!HasRecord(records[t].prev)
      BY <1>0, <3>1 DEF ChainInv, C!Links
    <3>3. ASSUME C!Alone(c) PROVE records[t].commit = c
      <4> DEFINE d == records[t].commit
      <4>1. d # C!None /\ t \in {Subject[d], Distilled[d]}
        BY <3>1 DEF ChainInv, C!OwnTexts, C!NoRecord
      <4>2. d \in C!Commits
        BY <1>0, <4>1
      <4> QED
        BY <2>3, <3>3, <4>1, <4>2, CommitsAre DEF C!Alone
    <3>4. C!Alone(c) => /\ records[t].prev < c
                        /\ C!ToSet(C!FilesOf(records[t].prev)) \cap C!ToSet(C!FilesOf(c)) # {}
      BY <3>1, <3>3 DEF ChainInv, C!Links
    <3> QED
      BY <2>01, <3>1, <3>2, <3>4
  <2> QED
    BY <2>1, <2>2, <2>3
<1> QED
  BY <1>1, <1>0, <1>3, <1>4, <1>5, <1>6

\* Steps that leave the records and the walks alone.
LEMMA ChainRest ==
  ASSUME ChainInv, UNCHANGED <<records, log, already, pos, last, walked, together>>,
         head' \in 0 .. Len(Touched), writer' \in BOOLEAN, mishaps' \in 0 .. MaxMishaps, UNCHANGED at
  PROVE  ChainInv'
<1>1. C!ChainTypeOK'
  BY DEF ChainInv, C!ChainTypeOK
<1>2. C!OwnTexts' /\ C!Links' /\ C!NoGaps' /\ C!StoredOnce'
  BY DEF ChainInv, C!OwnTexts, C!Links, C!NoGaps, C!StoredOnce, C!HasRecord
<1>3. C!Walking' /\ C!Knowing'
  BY DEF ChainInv, C!Walking, C!Knowing, C!Recorded, C!HasRecord
<1> QED
  BY <1>1, <1>2, <1>3 DEF ChainInv

\* What a run that is over leaves: nothing of its own, all of the others'.
LEMMA RunOver ==
  ASSUME ChainInv, NEW r \in Runs, C!Over(r)
  PROVE  /\ at' \in [Runs -> {"idle", "walk"}] /\ pos' \in [Runs -> Nat]
         /\ log' \in [Runs -> Seq(C!Commits)] /\ already' \in [Runs -> SUBSET C!Commits]
         /\ last' \in [Runs -> [C!Files -> {C!None} \cup C!Commits]]
         /\ at'[r] = "idle" /\ already'[r] = {}
         /\ \A u \in Runs \ {r} : /\ at'[u] = at[u] /\ pos'[u] = pos[u] /\ log'[u] = log[u]
                                  /\ already'[u] = already[u] /\ last'[u] = last[u]
<1>1. /\ at \in [Runs -> {"idle", "walk"}] /\ pos \in [Runs -> Nat]
      /\ log \in [Runs -> Seq(C!Commits)] /\ already \in [Runs -> SUBSET C!Commits]
      /\ last \in [Runs -> [C!Files -> {C!None} \cup C!Commits]]
  BY DEF ChainInv, C!ChainTypeOK
<1>2. <<>> \in Seq(C!Commits)
  OBVIOUS
<1> QED
  BY <1>1, <1>2 DEF C!Over

\* A run that dies keeps the invariant.
LEMMA ChainDies == ASSUME ChainInv, NEW r \in Runs, C!Dies(r) PROVE ChainInv'
<1>1. C!Over(r) /\ UNCHANGED <<head, records, writer, walked, together>> /\ mishaps' \in 0 .. MaxMishaps
  BY ChainAssumption DEF C!Dies, ChainInv, C!ChainTypeOK
<1>2. /\ at' \in [Runs -> {"idle", "walk"}] /\ pos' \in [Runs -> Nat]
      /\ log' \in [Runs -> Seq(C!Commits)] /\ already' \in [Runs -> SUBSET C!Commits]
      /\ last' \in [Runs -> [C!Files -> {C!None} \cup C!Commits]]
      /\ at'[r] = "idle" /\ already'[r] = {}
      /\ \A u \in Runs \ {r} : /\ at'[u] = at[u] /\ pos'[u] = pos[u] /\ log'[u] = log[u]
                               /\ already'[u] = already[u] /\ last'[u] = last[u]
  BY <1>1, RunOver
<1>3. C!ChainTypeOK'
  BY <1>1, <1>2 DEF ChainInv, C!ChainTypeOK
<1>4. C!OwnTexts' /\ C!Links' /\ C!NoGaps' /\ C!StoredOnce'
  BY <1>1 DEF ChainInv, C!OwnTexts, C!Links, C!NoGaps, C!StoredOnce, C!HasRecord
<1>5. C!Walking'
  <2> SUFFICES ASSUME NEW u \in Runs
      PROVE /\ \A c \in already'[u] : C!HasRecord(c)
            /\ at'[u] = "walk" =>
                 /\ pos'[u] \in 1 .. Len(log'[u])
                 /\ \A i, j \in 1 .. Len(log'[u]) : i < j => log'[u][i] < log'[u][j]
                 /\ \A f \in C!Files : last'[u][f] # C!None =>
                      /\ f \in C!ToSet(C!FilesOf(last'[u][f])) /\ C!HasRecord(last'[u][f])
                      /\ last'[u][f] < log'[u][pos'[u]]
    BY <1>1 DEF C!Walking, C!HasRecord
  <2>1. CASE u = r
    BY <1>2, <2>1
  <2>2. CASE u # r
    BY <1>2, <2>2 DEF ChainInv, C!Walking
  <2> QED
    BY <2>1, <2>2
<1>6. C!Knowing'
  <2> SUFFICES ASSUME ~ together, NEW u \in Runs, at'[u] = "walk"
               PROVE  C!Recorded' \subseteq already'[u] /\ \A q \in Runs : at'[q] = "walk" => q = u
    BY <1>1 DEF C!Knowing
  <2>1. u # r /\ at[u] = "walk" /\ already'[u] = already[u]
    BY <1>2
  <2>2. C!Recorded' = C!Recorded
    BY <1>1 DEF C!Recorded
  <2>3. \A q \in Runs : at'[q] = "walk" => at[q] = "walk"
    BY <1>2
  <2> QED
    BY <2>1, <2>2, <2>3 DEF ChainInv, C!Knowing
<1> QED
  BY <1>3, <1>4, <1>5, <1>6 DEF ChainInv

\* A walk that begins keeps the invariant.
LEMMA ChainBegin == ASSUME ChainInv, NEW r \in Runs, C!Begin(r) PROVE ChainInv'
<1> DEFINE n == IF head < Limit THEN head ELSE Limit
<1>0. /\ head \in 1 .. Len(Touched) /\ n \in 1 .. head
      /\ UNCHANGED <<head, records, writer, mishaps, walked>>
      /\ together' = (together \/ \E q \in Runs : at[q] = "walk")
      /\ at' = [at EXCEPT ![r] = "walk"] /\ pos' = [pos EXCEPT ![r] = 1]
      /\ log' = [log EXCEPT ![r] = C!iter_commits]
      /\ already' = [already EXCEPT ![r] = C!Recorded]
      /\ last' = [last EXCEPT ![r] = [f \in C!Files |-> C!None]]
  BY ChainAssumption DEF C!Begin, ChainInv, C!ChainTypeOK
<1>1. /\ at \in [Runs -> {"idle", "walk"}] /\ pos \in [Runs -> Nat]
      /\ log \in [Runs -> Seq(C!Commits)] /\ already \in [Runs -> SUBSET C!Commits]
      /\ last \in [Runs -> [C!Files -> {C!None} \cup C!Commits]]
  BY DEF ChainInv, C!ChainTypeOK
<1>2. C!iter_commits = [i \in 1 .. n |-> head - n + i]
  BY DEF C!iter_commits
<1> HIDE DEF n
<1>3. /\ C!iter_commits \in Seq(C!Commits) /\ Len(C!iter_commits) = n
      /\ \A i \in 1 .. n : C!iter_commits[i] = head - n + i
  <2>1. \A i \in 1 .. n : head - n + i \in C!Commits
    BY <1>0, CommitsAre
  <2>2. n \in Nat
    BY <1>0
  <2>3. C!iter_commits \in [1 .. n -> C!Commits]
    BY <1>2, <2>1
  <2> QED
    BY <1>2, <2>2, <2>3, LenProperties
<1>4. C!Recorded \subseteq C!Commits /\ \A c \in C!Recorded : C!HasRecord(c)
  BY RecordedIsKnown
<1>5. C!ChainTypeOK'
  <2>1. log' \in [Runs -> Seq(C!Commits)]
    BY <1>0, <1>1, <1>3
  <2>2. already' \in [Runs -> SUBSET C!Commits] /\ pos' \in [Runs -> Nat] /\ at' \in [Runs -> {"idle", "walk"}]
    BY <1>0, <1>1, <1>4
  <2>3. last' \in [Runs -> [C!Files -> {C!None} \cup C!Commits]]
    BY <1>0, <1>1
  <2>4. together' \in BOOLEAN
    BY <1>0
  <2> QED
    BY <1>0, <2>1, <2>2, <2>3, <2>4 DEF ChainInv, C!ChainTypeOK
<1>61. C!Knowing'
  <2> SUFFICES ASSUME ~ together', NEW u \in Runs, at'[u] = "walk"
               PROVE  C!Recorded' \subseteq already'[u] /\ \A q \in Runs : at'[q] = "walk" => q = u
    BY DEF C!Knowing
  <2>1. \A q \in Runs : at[q] # "walk"
    BY <1>0
  <2>2. \A q \in Runs : at'[q] = "walk" => q = r
    BY <1>0, <1>1, <2>1
  <2>3. C!Recorded' = C!Recorded
    BY <1>0 DEF C!Recorded
  <2> QED
    BY <1>0, <1>1, <2>2, <2>3
<1>6. C!OwnTexts' /\ C!Links' /\ C!NoGaps' /\ C!StoredOnce'
  BY <1>0 DEF ChainInv, C!OwnTexts, C!Links, C!NoGaps, C!StoredOnce, C!HasRecord
<1>7. C!Walking'
  <2> DEFINE Walks(u) ==
        /\ \A c \in already'[u] : C!HasRecord(c)
        /\ at'[u] = "walk" =>
             /\ pos'[u] \in 1 .. Len(log'[u])
             /\ \A i, j \in 1 .. Len(log'[u]) : i < j => log'[u][i] < log'[u][j]
             /\ \A f \in C!Files : last'[u][f] # C!None =>
                  /\ f \in C!ToSet(C!FilesOf(last'[u][f])) /\ C!HasRecord(last'[u][f])
                  /\ last'[u][f] < log'[u][pos'[u]]
  <2>1. ASSUME NEW u \in Runs, u # r
        PROVE  /\ already'[u] = already[u] /\ at'[u] = at[u] /\ pos'[u] = pos[u]
               /\ log'[u] = log[u] /\ last'[u] = last[u]
    BY <1>0, <1>1, <2>1
  <2>2. /\ already'[r] = C!Recorded /\ pos'[r] = 1 /\ log'[r] = C!iter_commits
        /\ \A f \in C!Files : last'[r][f] = C!None
    BY <1>0, <1>1
  <2>3. /\ pos'[r] \in 1 .. Len(log'[r])
        /\ \A i, j \in 1 .. Len(log'[r]) : i < j => log'[r][i] < log'[r][j]
    BY <1>0, <1>3, <2>2
  <2>4. Walks(r)
    BY <1>4, <2>2, <2>3
  <2>5. ASSUME NEW u \in Runs, u # r PROVE Walks(u)
    BY <2>1, <2>5 DEF ChainInv, C!Walking
  <2>6. \A u \in Runs : Walks(u)
    BY <2>4, <2>5
  <2> QED
    BY <1>0, <2>6 DEF C!Walking, C!HasRecord
<1> QED
  BY <1>5, <1>6, <1>61, <1>7 DEF ChainInv

\* A step of a walk keeps it.
LEMMA ChainWalk == ASSUME ChainInv, NEW r \in Runs, C!Step(r) PROVE ChainInv'
<1>0. /\ at \in [Runs -> {"idle", "walk"}] /\ pos \in [Runs -> Nat]
      /\ log \in [Runs -> Seq(C!Commits)] /\ already \in [Runs -> SUBSET C!Commits]
      /\ last \in [Runs -> [C!Files -> {C!None} \cup C!Commits]]
  BY DEF ChainInv, C!ChainTypeOK
<1>1. /\ at[r] = "walk" /\ pos[r] \in 1 .. Len(log[r])
      /\ \A i, j \in 1 .. Len(log[r]) : i < j => log[r][i] < log[r][j]
      /\ \A f \in C!Files : last[r][f] # C!None =>
           /\ f \in C!ToSet(C!FilesOf(last[r][f])) /\ C!HasRecord(last[r][f])
           /\ last[r][f] < log[r][pos[r]]
  BY DEF C!Step, ChainInv, C!Walking
<1>2. PICK c \in C!Commits : c = log[r][pos[r]] /\ c # C!None
  <2>1. log[r] \in Seq(C!Commits)
    BY <1>0
  <2>2. log[r][pos[r]] \in C!Commits
    BY <1>1, <2>1, ElementOfSeq
  <2> QED
    BY <2>2, CommitsAre
<1>3. /\ \/ c \in already[r] /\ UNCHANGED records
         \/ c \notin already[r] /\ C!Store(r, c)
      /\ walked' = walked \cup {c} /\ UNCHANGED <<head, writer, mishaps, together>>
      /\ \/ C!Over(r)
         \/ /\ pos[r] # Len(log[r])
            /\ already' = [already EXCEPT ![r] = @ \cup {c}]
            /\ last' = [last EXCEPT ![r] = [f \in C!Files |-> IF f \in C!ToSet(C!FilesOf(c)) THEN c ELSE @[f]]]
            /\ pos' = [pos EXCEPT ![r] = @ + 1]
            /\ UNCHANGED <<at, log>>
  BY <1>2 DEF C!Step
<1>31. /\ at' \in [Runs -> {"idle", "walk"}] /\ pos' \in [Runs -> Nat]
       /\ log' \in [Runs -> Seq(C!Commits)] /\ already' \in [Runs -> SUBSET C!Commits]
       /\ last' \in [Runs -> [C!Files -> {C!None} \cup C!Commits]]
       /\ already'[r] \subseteq already[r] \cup {c}
       /\ \A u \in Runs \ {r} : /\ at'[u] = at[u] /\ pos'[u] = pos[u] /\ log'[u] = log[u]
                                /\ already'[u] = already[u] /\ last'[u] = last[u]
       /\ at'[r] = "walk" => /\ pos[r] # Len(log[r]) /\ pos'[r] = pos[r] + 1 /\ log'[r] = log[r]
                             /\ already'[r] = already[r] \cup {c}
                             /\ \A f \in C!Files :
                                  last'[r][f] = IF f \in C!ToSet(C!FilesOf(c)) THEN c ELSE last[r][f]
  <2>1. CASE C!Over(r)
    BY <2>1, RunOver
  <2>2. CASE /\ pos[r] # Len(log[r])
             /\ already' = [already EXCEPT ![r] = @ \cup {c}]
             /\ last' = [last EXCEPT ![r] = [f \in C!Files |-> IF f \in C!ToSet(C!FilesOf(c)) THEN c ELSE @[f]]]
             /\ pos' = [pos EXCEPT ![r] = @ + 1]
             /\ UNCHANGED <<at, log>>
    BY <1>0, <1>2, <2>2
  <2> QED
    BY <1>3, <2>1, <2>2
<1> DEFINE Known(d) == \E x \in {Subject[d], Distilled[d]} : records'[x] # C!NoRecord
<1>4. /\ records' \in [C!AllTexts -> [commit : {C!None} \cup C!Commits, prev : {C!None} \cup C!Commits]]
      /\ C!OwnTexts' /\ C!Links' /\ Known(c)
      /\ \A d \in C!Commits : C!HasRecord(d) => Known(d)
  <2>1. CASE c \in already[r] /\ UNCHANGED records
    <3>1. C!HasRecord(c)
      BY <2>1 DEF ChainInv, C!Walking
    <3> QED
      BY <2>1, <3>1 DEF ChainInv, C!ChainTypeOK, C!OwnTexts, C!Links, C!HasRecord
  <2>2. CASE C!Store(r, c)
    <3> DEFINE q == C!Previous(r, c)
    <3>1. q # C!None => /\ q \in C!Commits /\ C!HasRecord(q) /\ q < c
                        /\ C!ToSet(C!FilesOf(q)) \cap C!ToSet(C!FilesOf(c)) # {}
      BY <1>1, <1>2, PreviousLeads
    <3>2. PICK text \in {Subject[c], Distilled[c]} :
            records' = [records EXCEPT ![text] = [commit |-> c, prev |-> IF q = C!None THEN @.prev ELSE q]]
      BY <2>2 DEF C!Store
    <3> HIDE DEF q
    <3> QED
      BY <1>2, <3>1, <3>2, ChainStore DEF C!HasRecord
  <2> QED
    BY <1>3, <2>1, <2>2
<1> HIDE DEF Known
<1>5. C!ChainTypeOK'
  <2>1. walked' \subseteq C!Commits
    BY <1>2, <1>3 DEF ChainInv, C!ChainTypeOK
  <2> QED
    BY <1>3, <1>31, <1>4, <2>1 DEF ChainInv, C!ChainTypeOK
<1>6. C!NoGaps'
  <2>1. \A d \in walked : d \in C!Commits /\ C!HasRecord(d)
    BY DEF ChainInv, C!NoGaps, C!ChainTypeOK
  <2> QED
    BY <1>3, <1>4, <2>1 DEF C!NoGaps, C!HasRecord, Known
<1>7. C!Walking'
  <2>1. ASSUME NEW u \in Runs, NEW d \in already'[u] PROVE Known(d)
    <3>1. d \in already[u] \/ d = c
      BY <1>31, <2>1
    <3>2. d \in already[u] => d \in C!Commits /\ C!HasRecord(d)
      BY <1>0 DEF ChainInv, C!Walking
    <3> QED
      BY <1>4, <3>1, <3>2
  <2>2. ASSUME NEW u \in Runs, at'[u] = "walk"
        PROVE  /\ pos'[u] \in 1 .. Len(log'[u])
               /\ \A i, j \in 1 .. Len(log'[u]) : i < j => log'[u][i] < log'[u][j]
               /\ \A f \in C!Files : last'[u][f] # C!None =>
                    /\ f \in C!ToSet(C!FilesOf(last'[u][f])) /\ Known(last'[u][f])
                    /\ last'[u][f] < log'[u][pos'[u]]
    <3>1. CASE u # r
      <4>1. at'[u] = at[u] /\ pos'[u] = pos[u] /\ log'[u] = log[u] /\ last'[u] = last[u]
        BY <1>31, <3>1
      <4>2. \A f \in C!Files : last[u][f] # C!None => last[u][f] \in C!Commits
        BY <1>0
      <4>3. /\ pos[u] \in 1 .. Len(log[u])
            /\ \A i, j \in 1 .. Len(log[u]) : i < j => log[u][i] < log[u][j]
            /\ \A f \in C!Files : last[u][f] # C!None =>
                 /\ f \in C!ToSet(C!FilesOf(last[u][f])) /\ C!HasRecord(last[u][f])
                 /\ last[u][f] < log[u][pos[u]]
        BY <2>2, <4>1 DEF ChainInv, C!Walking
      <4> QED
        BY <1>4, <4>1, <4>2, <4>3
    <3>2. CASE u = r
      <4>1. pos[r] # Len(log[r]) /\ pos'[r] = pos[r] + 1 /\ log'[r] = log[r]
        BY <1>31, <2>2, <3>2
      <4>2. Len(log[r]) \in Nat /\ pos[r] + 1 \in 1 .. Len(log[r])
        BY <1>0, <1>1, <4>1, LenProperties
      <4>3. c < log[r][pos[r] + 1] /\ log[r][pos[r] + 1] \in C!Commits
        BY <1>0, <1>1, <4>2, <1>2, ElementOfSeq
      <4>4. \A f \in C!Files : last'[r][f] = IF f \in C!ToSet(C!FilesOf(c)) THEN c ELSE last[r][f]
        BY <1>31, <2>2, <3>2
      <4>5. ASSUME NEW f \in C!Files, last'[r][f] # C!None
            PROVE  /\ f \in C!ToSet(C!FilesOf(last'[r][f])) /\ Known(last'[r][f])
                   /\ last'[r][f] < log[r][pos[r] + 1]
        <5>1. CASE f \in C!ToSet(C!FilesOf(c))
          BY <1>4, <4>3, <4>4, <5>1
        <5>2. CASE f \notin C!ToSet(C!FilesOf(c))
          <6>1. last'[r][f] = last[r][f] /\ last[r][f] \in C!Commits
            BY <1>0, <4>4, <4>5, <5>2
          <6>2. f \in C!ToSet(C!FilesOf(last[r][f])) /\ C!HasRecord(last[r][f]) /\ last[r][f] < c
            BY <1>1, <1>2, <4>5, <6>1
          <6>3. last[r][f] < log[r][pos[r] + 1]
            BY <1>2, <4>3, <6>1, <6>2, CommitsAre
          <6> QED
            BY <1>4, <6>1, <6>2, <6>3
        <5> QED
          BY <5>1, <5>2
      <4> QED
        BY <1>1, <3>2, <4>1, <4>2, <4>5
    <3> QED
      BY <3>1, <3>2
  <2> QED
    BY <2>1, <2>2 DEF C!Walking, C!HasRecord, Known
<1>8. C!Recorded' \subseteq C!Recorded \cup {c} /\ C!StoredOnce'
  <2>1. CASE c \in already[r] /\ UNCHANGED records
    BY <1>3, <2>1 DEF C!Recorded, ChainInv, C!StoredOnce
  <2>2. CASE c \notin already[r] /\ C!Store(r, c)
    <3>1. PICK text \in {Subject[c], Distilled[c]} :
            records' = [records EXCEPT ![text] =
              [commit |-> c, prev |-> IF C!Previous(r, c) = C!None THEN @.prev ELSE C!Previous(r, c)]]
      BY <2>2 DEF C!Store
    <3>2. /\ records \in [C!AllTexts -> [commit : {C!None} \cup C!Commits, prev : {C!None} \cup C!Commits]]
          /\ text \in C!AllTexts
      BY <1>2, CommitsAre DEF ChainInv, C!ChainTypeOK
    <3>3. \A t \in C!AllTexts : records'[t].commit = IF t = text THEN c ELSE records[t].commit
      BY <3>1, <3>2
    <3>4. C!Recorded' \subseteq C!Recorded \cup {c}
      BY <3>3 DEF C!Recorded
    <3>5. ~ together => \A t \in C!AllTexts : records[t].commit # c
      BY <1>1, <1>2, <2>2 DEF ChainInv, C!Knowing, C!Recorded
    <3>6. C!StoredOnce'
      BY <1>3, <3>3, <3>5 DEF ChainInv, C!StoredOnce
    <3> QED
      BY <3>4, <3>6
  <2> QED
    BY <1>3, <2>1, <2>2
<1>9. C!Knowing'
  <2> SUFFICES ASSUME ~ together, NEW u \in Runs, at'[u] = "walk"
               PROVE  C!Recorded' \subseteq already'[u] /\ \A q \in Runs : at'[q] = "walk" => q = u
    BY <1>3 DEF C!Knowing
  <2>1. \A q \in Runs : at'[q] = "walk" => at[q] = "walk"
    BY <1>1, <1>31
  <2>2. u = r /\ C!Recorded \subseteq already[r] /\ \A q \in Runs : at[q] = "walk" => q = r
    BY <1>1, <2>1 DEF ChainInv, C!Knowing
  <2>3. already[r] \cup {c} \subseteq already'[r]
    BY <1>31, <2>2
  <2> QED
    BY <1>8, <2>1, <2>2, <2>3
<1> QED
  BY <1>4, <1>5, <1>6, <1>7, <1>8, <1>9 DEF ChainInv

\* Every step keeps it.
LEMMA ChainStep == ChainInv /\ C!ChainNext => ChainInv'
<1> SUFFICES ASSUME ChainInv, C!ChainNext PROVE ChainInv'
  OBVIOUS
<1>0. /\ head \in 0 .. Len(Touched) /\ at \in [Runs -> {"idle", "walk"}] /\ writer \in BOOLEAN
      /\ mishaps \in 0 .. MaxMishaps /\ Len(Touched) \in Nat /\ MaxMishaps \in Nat
  BY ChainAssumption DEF ChainInv, C!ChainTypeOK
<1>1. CASE C!Commit
  BY <1>0, <1>1, ChainRest DEF C!Commit
<1>2. CASE C!WriterChanges
  <2>1. writer' \in BOOLEAN
    BY <1>2, Zenon DEF C!WriterChanges
  <2> QED
    BY <1>0, <1>2, <2>1, ChainRest DEF C!WriterChanges
<1> QED
  BY <1>1, <1>2, ChainBegin, ChainWalk, ChainDies DEF C!ChainNext

\* A step that leaves these variables alone keeps it.
LEMMA ChainStutter == ChainInv /\ UNCHANGED chainVars => ChainInv'
  BY DEF chainVars, ChainInv, C!ChainTypeOK, C!OwnTexts, C!Walking, C!Links, C!NoGaps, C!HasRecord,
         C!Knowing, C!StoredOnce, C!Recorded

\* It holds in every behaviour.
LEMMA ChainAlways == Spec => []ChainInv
<1>1. Init => ChainInv
  BY ChainStart DEF Init
<1>2. ChainInv /\ [Next]_<<part, blockVars, graphVars, skillVars, archiveVars,
                           transferVars, chainVars, mirrorVars>> => ChainInv'
  BY ChainStep, ChainStutter DEF Next
<1> QED
  BY <1>1, <1>2, PTL DEF Spec

\* Whoever dies and however promotions and walks interleave, a chunk marked as
\* promoted has its SKILL.md (skill_pipeline.py:391) and promoting again leaves no
\* orphan (skill_pipeline.py:320); what a walk has been past has a record, and
\* links lead back to one (coding.py:126).
THEOREM WorkIsKeptAlways == Spec => []WorkIsKept
<1>1. ChainInv => C!LinksLead
  <2> SUFFICES ASSUME ChainInv, NEW t \in C!AllTexts, records[t].prev # C!None,
                      C!Alone(records[t].commit)
               PROVE  /\ records[t].prev < records[t].commit
                      /\ C!ToSet(C!FilesOf(records[t].prev)) \cap C!ToSet(C!FilesOf(records[t].commit)) # {}
                      /\ C!Plain(records[t].prev) /\ C!Plain(records[t].commit) =>
                           C!ToSet(Touched[records[t].prev]) \cap C!ToSet(Touched[records[t].commit]) # {}
                      /\ C!Alone(records[t].prev) => records[t].prev \in C!Recorded
    BY DEF C!LinksLead
  <2>1. records[t].prev \in C!Commits /\ records[t].commit \in C!Commits
    BY DEF ChainInv, C!ChainTypeOK, C!OwnTexts, C!NoRecord
  <2>2. ASSUME NEW c \in C!Commits, C!Plain(c) PROVE C!FilesOf(c) = Touched[c]
    <3>1. Touched[c] \in Seq(STRING)
      BY ChainAssumption DEF C!Commits
    <3> QED
      BY <2>2, <3>1, ConcatEmptySeq DEF C!Plain, C!FilesOf
  <2> QED
    BY <2>1, <2>2, AloneIsRecorded DEF ChainInv, C!Links
<1>2. SkillsInv /\ ChainInv => WorkIsKept
  BY <1>1 DEF SkillsInv, ChainInv, WorkIsKept
<1> QED
  BY <1>2, SkillsAlways, ChainAlways, PTL

-----------------------------------------------------------------------------
(* The knowledge graph.                                                     *)

GraphInv ==
  /\ G!GraphTypeOK /\ G!EndsAreThere
  /\ G!OldestStays /\ G!ToldIsMade
  /\ G!ReadIsThere /\ G!ListedAliasResolves

\* What a job's program has where.
LEMMA Programs ==
  ASSUME NEW j \in G!Jobs
  PROVE  /\ j.tool = "tell" =>
              G!Program(j) = <<G!Op("upsert", j.from, {}, 1), G!Op("upsert", j.to, {}, 2),
                               G!Op("edge", j.from, {}, 1)>>
         /\ j.tool = "feed" =>
              G!Program(j) =
                <<G!Op("missing", j.from, j.aliases, 1), G!Op("upsert", j.from, j.aliases, 1),
                  G!Op("missing", j.to, {}, 2), G!Op("upsert", j.to, {}, 2),
                  G!Op("find", j.from, {}, 1), G!Op("find", j.to, {}, 2),
                  G!Op("fill", j.from, {}, 1), G!Op("fill", j.to, {}, 2), G!Op("edge", j.from, {}, 1)>>
         /\ j.tool = "cognify" =>
              G!Program(j) = <<G!Op("duplicates", j.from, {}, 1), G!Op("merge", j.from, {}, 1),
                               G!Op("namesakes", j.from, {}, 1), G!Op("unlist", j.from, {}, 1)>>
         /\ j.tool = "reconcile" => G!Program(j) = <<G!Op("loops", j.from, {}, 1)>>
         /\ j.tool \in {"tell", "feed", "cognify", "reconcile"}
         /\ j.from \in Names /\ j.to \in Names /\ j.aliases \subseteq Names
  BY DEF G!Program, G!Jobs

\* What the operations of a program are, by the tool.
LEMMA Ops ==
  ASSUME NEW j \in G!Jobs, NEW s \in Nat \ {0}, s <= Len(G!Program(j))
  PROVE  LET o == G!Program(j)[s] IN
           /\ o.end \in {1, 2} /\ o.name \in Names /\ o.aliases \subseteq Names
           /\ j.tool = "tell" =>
                (o.what = "upsert" /\ s = o.end) \/ (o.what = "edge" /\ s = 3)
           /\ j.tool = "feed" =>
                \/ o.what = "missing" /\ s \in {1, 3}
                \/ o.what = "upsert" /\ s \in {2, 4}
                \/ o.what = "find" /\ s = 4 + o.end
                \/ o.what = "fill" /\ s = 6 + o.end
                \/ o.what = "edge" /\ s = 9
           /\ j.tool \in {"cognify", "reconcile"} =>
                o.what \in {"duplicates", "merge", "namesakes", "unlist", "loops"}
<1>0. \A w, n, a, e : G!Op(w, n, a, e) = [what |-> w, name |-> n, aliases |-> a, end |-> e]
  BY DEF G!Op
<1>1. CASE j.tool = "tell"
  <2>1. Len(G!Program(j)) = 3
    BY <1>1, Programs
  <2>2. s \in {1, 2, 3}
    BY <2>1
  <2> QED
    BY <1>0, <1>1, <2>2, Programs
<1>2. CASE j.tool = "feed"
  <2>1. Len(G!Program(j)) = 9
    BY <1>2, Programs
  <2>2. s \in {1, 2, 3, 4, 5, 6, 7, 8, 9}
    BY <2>1
  <2> QED
    BY <1>0, <1>2, <2>2, Programs
<1>3. CASE j.tool = "cognify"
  <2>1. Len(G!Program(j)) = 4
    BY <1>3, Programs
  <2>2. s \in {1, 2, 3, 4}
    BY <2>1
  <2> QED
    BY <1>0, <1>3, <2>2, Programs
<1>4. CASE j.tool = "reconcile"
  <2>1. Len(G!Program(j)) = 1
    BY <1>4, Programs
  <2>2. s = 1
    BY <2>1
  <2> QED
    BY <1>0, <1>4, <2>2, Programs
<1> QED
  BY <1>1, <1>2, <1>3, <1>4, Programs

\* The rows of the two tables.
LEMMA Elements ==
  ASSUME G!GraphTypeOK
  PROVE  /\ DOMAIN entities = 1 .. Len(entities) /\ Len(entities) \in Nat /\ G!Ids = DOMAIN entities
         /\ \A e \in G!Ids : /\ entities[e] \in G!Rows /\ entities[e].name \in Names
                            /\ entities[e].aliases \subseteq Names /\ entities[e].table \subseteq Names
         /\ DOMAIN facts = 1 .. Len(facts) /\ Len(facts) \in Nat
         /\ \A f \in DOMAIN facts :
              /\ facts[f] \in G!Edges /\ facts[f].from \in G!Ids /\ facts[f].to \in G!Ids
              /\ facts[f].made \in Nat /\ facts[f].active \in BOOLEAN
<1>1. entities \in Seq(G!Rows) /\ facts \in Seq(G!Edges)
      /\ \A f \in DOMAIN facts : facts[f].from \in G!Ids /\ facts[f].to \in G!Ids
  BY DEF G!GraphTypeOK
<1>2. \A e \in DOMAIN entities : entities[e] \in G!Rows
  BY <1>1
<1>3. \A f \in DOMAIN facts : facts[f] \in G!Edges
  BY <1>1
<1>4. \A r \in G!Rows : r.name \in Names /\ r.aliases \subseteq Names /\ r.table \subseteq Names
  BY DEF G!Rows
<1>5. \A r \in G!Edges : r.made \in Nat /\ r.active \in BOOLEAN
  BY DEF G!Edges
<1> QED
  BY <1>1, <1>2, <1>3, <1>4, <1>5 DEF G!Ids

\* Where a client is, and what it has by then.
LEMMA Here ==
  ASSUME G!GraphTypeOK, G!EndsAreThere, NEW c \in Clients,
         job[c] # Nobody, step[c] <= Len(G!Program(job[c]))
  PROVE  /\ job[c] \in G!Jobs /\ step[c] \in Nat \ {0}
         /\ G!Now(c).end \in {1, 2} /\ G!Now(c).name \in Names /\ G!Now(c).aliases \subseteq Names
         /\ G!Now(c).what \in {"upsert", "fill", "missing", "find", "edge"} =>
              /\ job[c].tool \in {"tell", "feed"}
              /\ ends[c] \in (G!Ids \cup {Nobody}) \X (G!Ids \cup {Nobody})
         /\ G!Now(c).what = "edge" => ends[c][1] \in G!Ids /\ ends[c][2] \in G!Ids
         /\ G!Now(c).what \in {"duplicates", "merge", "namesakes", "unlist", "loops"} =>
              job[c].tool \in {"cognify", "reconcile"}
<1>1. job[c] \in G!Jobs /\ step[c] \in Nat \ {0}
  BY DEF G!GraphTypeOK
<1>2. job[c].tool \in {"tell", "feed", "cognify", "reconcile"}
  BY <1>1, Programs
<1>3. G!EndsAt(c)
  BY DEF G!EndsAreThere
<1>4. LET o == G!Now(c) IN
        /\ o.end \in {1, 2} /\ o.name \in Names /\ o.aliases \subseteq Names
        /\ job[c].tool = "tell" =>
             (o.what = "upsert" /\ step[c] = o.end) \/ (o.what = "edge" /\ step[c] = 3)
        /\ job[c].tool = "feed" =>
             \/ o.what = "missing" /\ step[c] \in {1, 3}
             \/ o.what = "upsert" /\ step[c] \in {2, 4}
             \/ o.what = "find" /\ step[c] = 4 + o.end
             \/ o.what = "fill" /\ step[c] = 6 + o.end
             \/ o.what = "edge" /\ step[c] = 9
        /\ job[c].tool \in {"cognify", "reconcile"} =>
             o.what \in {"duplicates", "merge", "namesakes", "unlist", "loops"}
  BY <1>1, Ops DEF G!Now
<1>5. job[c].tool \in {"tell", "feed"} =>
         LET first == IF job[c].tool = "tell" THEN 1 ELSE 7 IN
           /\ ends[c] \in (G!Ids \cup {Nobody}) \X (G!Ids \cup {Nobody})
           /\ step[c] > first => ends[c][1] \in G!Ids
           /\ step[c] > first + 1 => ends[c][2] \in G!Ids
  BY <1>3 DEF G!EndsAt
<1> QED
  BY <1>1, <1>2, <1>4, <1>5

\* Only client c moves.
Moves(c) ==
  /\ job' \in [Clients -> G!Jobs \cup {Nobody}] /\ step' \in [Clients -> Nat \ {0}]
  /\ mid' \in [Clients -> BOOLEAN] /\ DOMAIN held' = Clients /\ DOMAIN ends' = Clients
  /\ \A d \in Clients \ {c} :
       /\ job'[d] = job[d] /\ step'[d] = step[d] /\ mid'[d] = mid[d]
       /\ held'[d] = held[d] /\ ends'[d] = ends[d]

\* An action that changes what a client has changes it of one client.
LEMMA Moving ==
  ASSUME G!GraphTypeOK, NEW c \in Clients,
         job' = job \/ \E j \in G!Jobs : job' = [job EXCEPT ![c] = j],
         step' = step \/ \E n \in Nat \ {0} : step' = [step EXCEPT ![c] = n],
         mid' = mid \/ \E b \in BOOLEAN : mid' = [mid EXCEPT ![c] = b],
         held' = held \/ \E x : held' = [held EXCEPT ![c] = x],
         ends' = ends \/ \E x : ends' = [ends EXCEPT ![c] = x]
  PROVE  Moves(c)
<1>1. /\ job \in [Clients -> G!Jobs \cup {Nobody}] /\ step \in [Clients -> Nat \ {0}]
      /\ mid \in [Clients -> BOOLEAN] /\ DOMAIN held = Clients /\ DOMAIN ends = Clients
  BY DEF G!GraphTypeOK
<1>2. /\ job' \in [Clients -> G!Jobs \cup {Nobody}]
      /\ \A d \in Clients \ {c} : job'[d] = job[d]
  BY <1>1
<1>3. /\ step' \in [Clients -> Nat \ {0}]
      /\ \A d \in Clients \ {c} : step'[d] = step[d]
  BY <1>1
<1>4. /\ mid' \in [Clients -> BOOLEAN]
      /\ \A d \in Clients \ {c} : mid'[d] = mid[d]
  BY <1>1
<1>5. /\ DOMAIN held' = Clients
      /\ \A d \in Clients \ {c} : held'[d] = held[d]
  BY <1>1
<1>6. /\ DOMAIN ends' = Clients
      /\ \A d \in Clients \ {c} : ends'[d] = ends[d]
  BY <1>1
<1> QED
  BY <1>2, <1>3, <1>4, <1>5, <1>6 DEF Moves

\* Where the other clients are does not change.
LEMMA Others ==
  ASSUME NEW c \in Clients, Moves(c), NEW d \in Clients \ {c}
  PROVE  /\ G!Now(d)' = G!Now(d) /\ (G!Aliasing(d)' <=> G!Aliasing(d))
         /\ \A w : G!At(d, w)' <=> G!At(d, w)
<1>1. job'[d] = job[d] /\ step'[d] = step[d] /\ mid'[d] = mid[d]
  BY DEF Moves
<1>2. G!Now(d)' = G!Now(d)
  BY <1>1 DEF G!Now
<1>3. \A w : G!At(d, w)' <=> G!At(d, w)
  BY <1>1, <1>2 DEF G!At
<1> QED
  BY <1>1, <1>2, <1>3 DEF G!Aliasing

\* Every step keeps it.
LEMMA BaseStep ==
  ASSUME G!GraphTypeOK, G!EndsAreThere, NEW c \in Clients, Moves(c),
         DOMAIN entities \subseteq DOMAIN entities', stamps' \in Nat, stamps <= stamps',
         G!EndsAt(c)'
  PROVE  G!EndsAreThere'
<1> SUFFICES ASSUME NEW d \in Clients \ {c} PROVE G!EndsAt(d)'
  BY DEF G!EndsAreThere
<1>1. G!EndsAt(d)
  BY DEF G!EndsAreThere
<1>2. /\ job'[d] = job[d] /\ step'[d] = step[d] /\ mid'[d] = mid[d]
      /\ held'[d] = held[d] /\ ends'[d] = ends[d]
  BY DEF Moves
<1>3. /\ G!Now(d)' = G!Now(d) /\ (G!Aliasing(d)' <=> G!Aliasing(d))
      /\ \A w : G!At(d, w)' <=> G!At(d, w)
  BY Others
<1>4. stamps \in Nat /\ 0 .. stamps \subseteq 0 .. stamps' /\ G!Ids \subseteq G!Ids'
  BY DEF G!GraphTypeOK, G!Ids
<1>5. job[d] # Nobody /\ job[d].tool \in {"tell", "feed"} =>
         LET first == IF job[d].tool = "tell" THEN 1 ELSE 7 IN
           /\ ends[d] \in (G!Ids' \cup {Nobody}) \X (G!Ids' \cup {Nobody})
           /\ step[d] > first => ends[d][1] \in G!Ids'
           /\ step[d] > first + 1 => ends[d][2] \in G!Ids'
  BY <1>1, <1>4 DEF G!EndsAt
<1>6. mid[d] => job[d] # Nobody /\ step[d] <= Len(G!Program(job[d]))
  BY <1>1 DEF G!EndsAt
<1>7. G!At(d, "edge") /\ mid[d] => \E s \in 0 .. stamps' : held[d] = {s}
  BY <1>1, <1>4 DEF G!EndsAt
<1>8. G!Aliasing(d) => IF G!At(d, "unlist") THEN ends[d][2] \subseteq Names ELSE held[d] \subseteq Names
  BY <1>1 DEF G!EndsAt
<1> QED
  BY <1>2, <1>3, <1>5, <1>6, <1>7, <1>8 DEF G!EndsAt

\* An end that is bound leaves the other as it was.
LEMMA Rebound ==
  ASSUME NEW Ends, NEW p \in Ends \X Ends, NEW k \in {1, 2}, NEW e \in Ends
  PROVE  /\ [p EXCEPT ![k] = e] \in Ends \X Ends
         /\ [p EXCEPT ![k] = e][k] = e
         /\ \A i \in {1, 2} \ {k} : [p EXCEPT ![k] = e][i] = p[i]
<1>1. CASE k = 1
  BY <1>1
<1>2. CASE k = 2
  BY <1>2
<1> QED
  BY <1>1, <1>2

\* A client that has done an operation of its program ...
LEMMA Advances ==
  ASSUME G!GraphTypeOK, G!EndsAreThere, NEW c \in Clients,
         job[c] # Nobody, step[c] <= Len(G!Program(job[c])),
         job'[c] = job[c], ~ mid'[c],
         \/ step'[c] = step[c] + 1
         \/ step'[c] = step[c] + 2 /\ G!Now(c).what = "missing"
         \/ job[c].tool \notin {"tell", "feed"},
         DOMAIN entities \subseteq DOMAIN entities',
         \/ ends'[c] = ends[c]
         \/ /\ G!Now(c).what \in {"upsert", "fill", "find"}
            /\ \E e \in G!Ids' \cup {Nobody} : ends'[c] = [ends[c] EXCEPT ![G!Now(c).end] = e]
         \/ job[c].tool \notin {"tell", "feed"},
         G!Now(c).what \in {"upsert", "fill"} => ends'[c][G!Now(c).end] \in G!Ids'
  PROVE  G!EndsAt(c)'
<1>1. job[c] \in G!Jobs /\ step[c] \in Nat \ {0} /\ job[c].tool \in {"tell", "feed", "cognify", "reconcile"}
  BY Programs DEF G!GraphTypeOK
<1>2. LET o == G!Now(c) IN
        /\ o.end \in {1, 2}
        /\ job[c].tool = "tell" =>
             (o.what = "upsert" /\ step[c] = o.end) \/ (o.what = "edge" /\ step[c] = 3)
        /\ job[c].tool = "feed" =>
             \/ o.what = "missing" /\ step[c] \in {1, 3}
             \/ o.what = "upsert" /\ step[c] \in {2, 4}
             \/ o.what = "find" /\ step[c] = 4 + o.end
             \/ o.what = "fill" /\ step[c] = 6 + o.end
             \/ o.what = "edge" /\ step[c] = 9
  BY <1>1, Ops DEF G!Now
<1>3. job[c].tool \in {"tell", "feed"} =>
         LET first == IF job[c].tool = "tell" THEN 1 ELSE 7 IN
           /\ ends[c] \in (G!Ids \cup {Nobody}) \X (G!Ids \cup {Nobody})
           /\ step[c] > first => ends[c][1] \in G!Ids
           /\ step[c] > first + 1 => ends[c][2] \in G!Ids
  BY DEF G!EndsAt, G!EndsAreThere
<1>4. G!Ids \subseteq G!Ids'
  BY DEF G!Ids
<1>5. ASSUME job[c].tool \in {"tell", "feed"}
      PROVE  LET first == IF job[c].tool = "tell" THEN 1 ELSE 7 IN
           /\ ends'[c] \in (G!Ids' \cup {Nobody}) \X (G!Ids' \cup {Nobody})
           /\ step'[c] > first => ends'[c][1] \in G!Ids'
           /\ step'[c] > first + 1 => ends'[c][2] \in G!Ids'
  <2> DEFINE Ends == G!Ids' \cup {Nobody}
  <2>1. ends[c] \in Ends \X Ends
    BY <1>3, <1>4, <1>5
  <2>2. CASE ends'[c] = ends[c]
    <3>1. ends'[c] \in Ends \X Ends
      BY <2>1, <2>2
    <3>2. G!Now(c).what \in {"upsert", "fill"} => ends[c][G!Now(c).end] \in G!Ids'
      BY <2>2
    <3>3. CASE job[c].tool = "tell"
      BY <1>1, <1>2, <1>3, <1>4, <2>2, <3>1, <3>2, <3>3
    <3>4. CASE job[c].tool = "feed"
      <4>1. CASE G!Now(c).what \in {"missing", "upsert", "find"}
        BY <1>1, <1>2, <3>1, <3>4, <4>1
      <4>2. CASE G!Now(c).what = "fill"
        BY <1>1, <1>2, <1>3, <1>4, <2>2, <3>1, <3>2, <3>4, <4>2
      <4>3. CASE G!Now(c).what = "edge"
        BY <1>1, <1>2, <1>3, <1>4, <2>2, <3>1, <3>4, <4>3
      <4> QED
        BY <1>2, <3>4, <4>1, <4>2, <4>3
    <3> QED
      BY <1>5, <3>3, <3>4
  <2>3. CASE /\ G!Now(c).what \in {"upsert", "fill", "find"}
             /\ \E e \in Ends : ends'[c] = [ends[c] EXCEPT ![G!Now(c).end] = e]
    <3> DEFINE k == G!Now(c).end
    <3>1. /\ ends'[c] \in Ends \X Ends
          /\ \A i \in {1, 2} \ {k} : ends'[c][i] = ends[c][i]
      BY <1>2, <2>1, <2>3, Rebound
    <3> HIDE DEF Ends
    <3>2. CASE job[c].tool = "tell"
      BY <1>1, <1>2, <1>3, <1>4, <2>3, <3>1, <3>2 DEF Ends
    <3>3. CASE job[c].tool = "feed"
      BY <1>1, <1>2, <1>3, <1>4, <2>3, <3>1, <3>3 DEF Ends
    <3> QED
      BY <1>5, <3>2, <3>3
  <2> QED
    BY <1>5, <2>2, <2>3
<1> QED
  BY <1>5 DEF G!EndsAt, G!Aliasing

\* ... and one that is halfway through it.
LEMMA Halves ==
  ASSUME G!GraphTypeOK, G!EndsAreThere, NEW c \in Clients,
         job[c] # Nobody, step[c] <= Len(G!Program(job[c])),
         job'[c] = job[c], step'[c] = step[c],
         DOMAIN entities \subseteq DOMAIN entities',
         \/ ends'[c] = ends[c]
         \/ /\ G!Now(c).what \in {"upsert", "fill"}
            /\ \E e \in G!Ids' \cup {Nobody} : ends'[c] = [ends[c] EXCEPT ![G!Now(c).end] = e]
         \/ job[c].tool \notin {"tell", "feed"},
         G!Now(c).what = "edge" => \E s \in 0 .. stamps' : held'[c] = {s},
         G!Now(c).what \in {"upsert", "fill"} => held'[c] \subseteq Names,
         G!Now(c).what = "unlist" => ends'[c][2] \subseteq Names
  PROVE  G!EndsAt(c)'
<1>1. job[c] \in G!Jobs /\ step[c] \in Nat \ {0} /\ job[c].tool \in {"tell", "feed", "cognify", "reconcile"}
  BY Programs DEF G!GraphTypeOK
<1>2. LET o == G!Now(c) IN
        /\ o.end \in {1, 2}
        /\ job[c].tool = "tell" =>
             (o.what = "upsert" /\ step[c] = o.end) \/ (o.what = "edge" /\ step[c] = 3)
        /\ job[c].tool = "feed" =>
             \/ o.what = "missing" /\ step[c] \in {1, 3}
             \/ o.what = "upsert" /\ step[c] \in {2, 4}
             \/ o.what = "find" /\ step[c] = 4 + o.end
             \/ o.what = "fill" /\ step[c] = 6 + o.end
             \/ o.what = "edge" /\ step[c] = 9
  BY <1>1, Ops DEF G!Now
<1>3. job[c].tool \in {"tell", "feed"} =>
         LET first == IF job[c].tool = "tell" THEN 1 ELSE 7 IN
           /\ ends[c] \in (G!Ids \cup {Nobody}) \X (G!Ids \cup {Nobody})
           /\ step[c] > first => ends[c][1] \in G!Ids
           /\ step[c] > first + 1 => ends[c][2] \in G!Ids
  BY DEF G!EndsAt, G!EndsAreThere
<1>4. G!Ids \subseteq G!Ids'
  BY DEF G!Ids
<1>5. ASSUME job[c].tool \in {"tell", "feed"}
      PROVE  LET first == IF job[c].tool = "tell" THEN 1 ELSE 7 IN
           /\ ends'[c] \in (G!Ids' \cup {Nobody}) \X (G!Ids' \cup {Nobody})
           /\ step[c] > first => ends'[c][1] \in G!Ids'
           /\ step[c] > first + 1 => ends'[c][2] \in G!Ids'
  <2> DEFINE Ends == G!Ids' \cup {Nobody}
  <2>1. ends[c] \in Ends \X Ends
    BY <1>3, <1>4, <1>5
  <2>2. CASE ends'[c] = ends[c]
    BY <1>3, <1>4, <1>5, <2>1, <2>2
  <2>3. CASE /\ G!Now(c).what \in {"upsert", "fill"}
             /\ \E e \in Ends : ends'[c] = [ends[c] EXCEPT ![G!Now(c).end] = e]
    <3> DEFINE k == G!Now(c).end
    <3>1. /\ ends'[c] \in Ends \X Ends
          /\ \A i \in {1, 2} \ {k} : ends'[c][i] = ends[c][i]
      BY <1>2, <2>1, <2>3, Rebound
    <3> HIDE DEF Ends
    <3>2. CASE job[c].tool = "tell"
      BY <1>1, <1>2, <1>3, <1>4, <2>3, <3>1, <3>2 DEF Ends
    <3>3. CASE job[c].tool = "feed"
      BY <1>1, <1>2, <1>3, <1>4, <2>3, <3>1, <3>3 DEF Ends
    <3> QED
      BY <1>5, <3>2, <3>3
  <2> QED
    BY <1>5, <2>2, <2>3
<1>6. G!Now(c)' = G!Now(c) /\ \A w : G!At(c, w)' => G!Now(c).what = w
  BY DEF G!Now, G!At
<1>7. G!Aliasing(c)' => IF G!At(c, "unlist")' THEN ends'[c][2] \subseteq Names ELSE held'[c] \subseteq Names
  BY <1>6 DEF G!Aliasing
<1>8. (G!At(c, "edge") /\ mid[c] => \E s \in 0 .. stamps : held[c] = {s})'
  BY <1>6
<1> QED
  BY <1>5, <1>7, <1>8 DEF G!EndsAt

\* A step that leaves the tables alone keeps their types.
LEMMA TypesRest ==
  ASSUME G!GraphTypeOK, NEW c \in Clients, Moves(c),
         UNCHANGED <<entities, facts>>, stamps' \in Nat, told' \subseteq Names \X Names,
         raced' \in BOOLEAN, todo' \in Seq(G!Jobs)
  PROVE  G!GraphTypeOK'
<1>1. (\A f \in DOMAIN facts : facts[f].from \in G!Ids /\ facts[f].to \in G!Ids)'
  BY DEF G!GraphTypeOK, G!Ids
<1>2. entities' \in Seq(G!Rows) /\ facts' \in Seq(G!Edges)
  BY DEF G!GraphTypeOK
<1>3. raced' \in BOOLEAN
  OBVIOUS
<1>4. /\ job' \in [Clients -> G!Jobs \cup {Nobody}] /\ step' \in [Clients -> Nat \ {0}]
      /\ mid' \in [Clients -> BOOLEAN] /\ DOMAIN held' = Clients /\ DOMAIN ends' = Clients
  BY DEF Moves
<1> QED
  BY <1>1, <1>2, <1>3, <1>4 DEF G!GraphTypeOK

\* Whether a client races is yes or no.
LEMMA Racing == ASSUME G!GraphTypeOK, NEW c \in Clients PROVE G!Racing(c) \in BOOLEAN
  BY Zenon DEF G!Racing, G!GraphTypeOK

Kept(c) == Moves(c) /\ G!GraphTypeOK' /\ G!EndsAreThere'

\* An operation that only reads.
LEMMA ReadKept ==
  ASSUME G!GraphTypeOK, G!EndsAreThere, NEW c \in Clients,
         G!Missing(c) \/ G!Find(c) \/ G!Filled(c) \/ G!Duplicates(c) \/ G!Namesakes(c)
  PROVE  Kept(c) /\ ~ mid'[c] /\ step'[c] > step[c]
<1>0. /\ entities \in Seq(G!Rows) /\ stamps \in Nat /\ told \subseteq Names \X Names /\ raced \in BOOLEAN
      /\ todo \in Seq(G!Jobs) /\ job \in [Clients -> G!Jobs \cup {Nobody}]
      /\ step \in [Clients -> Nat \ {0}] /\ mid \in [Clients -> BOOLEAN]
      /\ DOMAIN held = Clients /\ DOMAIN ends = Clients
  BY DEF G!GraphTypeOK
<1>1. PICK n \in {1, 2} : /\ G!Advance(c, n) /\ (n = 2 => G!Missing(c))
                          /\ UNCHANGED <<entities, facts, stamps, todo, job, told, raced>>
  BY DEF G!Missing, G!Find, G!Filled, G!Duplicates, G!Namesakes
<1>2. /\ step' = [step EXCEPT ![c] = step[c] + n] /\ mid' = [mid EXCEPT ![c] = FALSE]
      /\ step[c] + n \in Nat \ {0}
  BY <1>0, <1>1 DEF G!Advance
<1>3. /\ job[c] # Nobody /\ step[c] <= Len(G!Program(job[c]))
      /\ G!Now(c).what \in {"missing", "find", "fill", "duplicates", "namesakes"}
      /\ G!Missing(c) => G!Now(c).what = "missing"
      /\ G!Find(c) => G!Now(c).what = "find"
      /\ G!Filled(c) => G!Now(c).what = "fill"
      /\ G!Duplicates(c) \/ G!Namesakes(c) => G!Now(c).what \in {"duplicates", "namesakes"}
  BY DEF G!Missing, G!Find, G!Filled, G!Duplicates, G!Namesakes, G!At
<1>4. \/ ends' = ends
      \/ G!Find(c) /\ \E e \in G!Ids \cup {Nobody} : ends' = [ends EXCEPT ![c] = [ends[c] EXCEPT ![G!Now(c).end] = e]]
  BY DEF G!Missing, G!Find, G!Filled, G!Duplicates, G!Namesakes, G!Bind, G!Found, G!Named
<1>5. held' = held \/ \E x : held' = [held EXCEPT ![c] = x]
  BY DEF G!Missing, G!Find, G!Filled, G!Duplicates, G!Namesakes
<1>6. Moves(c)
  BY <1>1, <1>2, <1>4, <1>5, Moving
<1>7. G!GraphTypeOK'
  BY <1>0, <1>1, <1>6, TypesRest
<1>8. G!EndsAt(c)'
  <2>1. G!Ids' = G!Ids /\ DOMAIN entities' = DOMAIN entities
    BY <1>1 DEF G!Ids
  <2>2. G!Now(c).end \in {1, 2} /\ (G!Now(c).what = "fill" => ends[c] \in (G!Ids \cup {Nobody}) \X (G!Ids \cup {Nobody}))
    BY <1>3, Here
  <2>3. G!Now(c).what = "fill" => ends'[c][G!Now(c).end] \in G!Ids'
    BY <1>3, <1>4, <2>1, <2>2 DEF G!Filled
  <2>4. \/ ends'[c] = ends[c]
        \/ /\ G!Now(c).what = "find"
           /\ \E e \in G!Ids' \cup {Nobody} : ends'[c] = [ends[c] EXCEPT ![G!Now(c).end] = e]
    BY <1>0, <1>3, <1>4, <2>1
  <2>5. job'[c] = job[c] /\ ~ mid'[c] /\ (step'[c] = step[c] + 1 \/ (step'[c] = step[c] + 2 /\ G!Now(c).what = "missing"))
    BY <1>0, <1>1, <1>2, <1>3
  <2> QED
    BY <1>3, <2>1, <2>3, <2>4, <2>5, Advances
<1>9. G!EndsAreThere'
  BY <1>0, <1>1, <1>6, <1>8, BaseStep
<1> QED
  BY <1>0, <1>1, <1>2, <1>6, <1>7, <1>9 DEF Kept

\* A client that starts a job is nowhere in it.
LEMMA StartKept ==
  ASSUME G!GraphTypeOK, G!EndsAreThere, NEW c \in Clients, G!Start(c)
  PROVE  Kept(c) /\ ~ mid[c] /\ ~ mid'[c]
<1>0. /\ entities \in Seq(G!Rows) /\ stamps \in Nat /\ told \subseteq Names \X Names /\ raced \in BOOLEAN
      /\ todo \in Seq(G!Jobs) /\ job \in [Clients -> G!Jobs \cup {Nobody}]
      /\ step \in [Clients -> Nat \ {0}] /\ mid \in [Clients -> BOOLEAN]
      /\ DOMAIN held = Clients /\ DOMAIN ends = Clients
  BY DEF G!GraphTypeOK
<1>1. Head(todo) \in G!Jobs /\ todo' \in Seq(G!Jobs) /\ 1 \in Nat \ {0}
  BY <1>0 DEF G!Start
<1>2. Moves(c)
  BY <1>1, Moving DEF G!Start
<1>3. G!GraphTypeOK'
  BY <1>0, <1>1, <1>2, TypesRest DEF G!Start
<1>4. ~ mid[c] /\ ~ mid'[c]
  <2>1. mid[c] => job[c] # Nobody /\ step[c] <= Len(G!Program(job[c]))
    BY DEF G!EndsAreThere, G!EndsAt
  <2>2. job[c] # Nobody => step[c] \in Nat /\ Len(G!Program(job[c])) \in Nat
    BY <1>0, Programs
  <2> QED
    BY <2>1, <2>2 DEF G!Start
<1>5. G!EndsAt(c)'
  <2>1. step'[c] = 1 /\ ends'[c] = <<Nobody, Nobody>>
    BY <1>0 DEF G!Start
  <2> QED
    BY <1>4, <2>1 DEF G!EndsAt, G!Aliasing
<1>6. G!EndsAreThere'
  BY <1>0, <1>2, <1>5, BaseStep DEF G!Start
<1> QED
  BY <1>2, <1>3, <1>4, <1>6 DEF Kept

\* A client that looks for an entity has found it or has none.
LEMMA UpsertFindKept ==
  ASSUME G!GraphTypeOK, G!EndsAreThere, NEW c \in Clients, G!UpsertFind(c)
  PROVE  Kept(c)
<1>0. /\ entities \in Seq(G!Rows) /\ stamps \in Nat /\ told \subseteq Names \X Names /\ raced \in BOOLEAN
      /\ todo \in Seq(G!Jobs) /\ job \in [Clients -> G!Jobs \cup {Nobody}]
      /\ step \in [Clients -> Nat \ {0}] /\ mid \in [Clients -> BOOLEAN]
      /\ DOMAIN held = Clients /\ DOMAIN ends = Clients
  BY DEF G!GraphTypeOK
<1>1. job[c] # Nobody /\ step[c] <= Len(G!Program(job[c])) /\ G!Now(c).what \in {"upsert", "fill"}
  BY DEF G!UpsertFind, G!Upserts, G!At
<1>2. PICK e \in G!Ids \cup {Nobody} :
        /\ ends' = [ends EXCEPT ![c] = [ends[c] EXCEPT ![G!Now(c).end] = e]]
        /\ held' = [held EXCEPT ![c] = IF e = Nobody THEN {} ELSE entities[e].aliases]
  BY DEF G!UpsertFind, G!Bind, G!Found, G!Named
<1>3. Moves(c)
  <2>1. \E x : held' = [held EXCEPT ![c] = x]
    BY <1>2
  <2>2. \E x : ends' = [ends EXCEPT ![c] = x]
    BY <1>2
  <2> QED
    BY <2>1, <2>2, Moving DEF G!UpsertFind, G!Halfway
<1>4. G!GraphTypeOK'
  BY <1>0, <1>3, Racing, TypesRest DEF G!UpsertFind, G!Halfway
<1>5. held'[c] \subseteq Names
  <2>1. \A i \in G!Ids : entities[i].aliases \subseteq Names
    BY Elements
  <2> QED
    BY <1>0, <1>2, <2>1
<1>6. G!EndsAt(c)'
  <2>1. G!Ids' = G!Ids /\ DOMAIN entities' = DOMAIN entities /\ job'[c] = job[c] /\ step'[c] = step[c]
    BY DEF G!Ids, G!UpsertFind, G!Halfway
  <2>2. ends'[c] = [ends[c] EXCEPT ![G!Now(c).end] = e]
    BY <1>0, <1>2
  <2> QED
    BY <1>1, <1>5, <2>1, <2>2, Halves
<1> QED
  BY <1>0, <1>3, <1>4, <1>6, BaseStep DEF Kept, G!UpsertFind

\* An entity that is put in or changed keeps its name and its place.
LEMMA UpsertPutKept ==
  ASSUME G!GraphTypeOK, G!EndsAreThere, NEW c \in Clients, G!UpsertPut(c)
  PROVE  /\ Kept(c) /\ ~ mid'[c]
         /\ DOMAIN entities \subseteq DOMAIN entities'
         /\ \A e \in G!Ids : entities'[e].name = entities[e].name
<1>0. /\ entities \in Seq(G!Rows) /\ stamps \in Nat /\ told \subseteq Names \X Names /\ raced \in BOOLEAN
      /\ todo \in Seq(G!Jobs) /\ job \in [Clients -> G!Jobs \cup {Nobody}]
      /\ step \in [Clients -> Nat \ {0}] /\ mid \in [Clients -> BOOLEAN]
      /\ DOMAIN held = Clients /\ DOMAIN ends = Clients /\ facts \in Seq(G!Edges)
      /\ \A f \in DOMAIN facts : facts[f].from \in G!Ids /\ facts[f].to \in G!Ids
  BY DEF G!GraphTypeOK
<1>1. /\ job[c] # Nobody /\ step[c] <= Len(G!Program(job[c])) /\ G!Now(c).what \in {"upsert", "fill"}
      /\ mid[c] /\ ~ G!At(c, "unlist")
  BY DEF G!UpsertPut, G!At
<1> DEFINE k == G!Now(c).end
           n == G!Now(c).name
           aliases == held[c] \cup G!Now(c).aliases
<1>2. k \in {1, 2} /\ n \in Names /\ ends[c] \in (G!Ids \cup {Nobody}) \X (G!Ids \cup {Nobody})
      /\ G!Now(c).aliases \subseteq Names
  BY <1>1, Here
<1>3. aliases \in SUBSET Names
  <2>1. G!Aliasing(c) /\ G!EndsAt(c)
    BY <1>1 DEF G!EndsAreThere, G!UpsertPut, G!Aliasing
  <2> QED
    BY <1>1, <1>2, <2>1 DEF G!EndsAt
<1>4. step' = [step EXCEPT ![c] = step[c] + 1] /\ mid' = [mid EXCEPT ![c] = FALSE]
  BY DEF G!UpsertPut, G!Advance
<1>5. /\ entities' \in Seq(G!Rows) /\ DOMAIN entities \subseteq DOMAIN entities'
      /\ \A e \in G!Ids : entities'[e].name = entities[e].name
      /\ ends'[c][k] \in DOMAIN entities'
      /\ ends'[c] = ends[c] \/ \E e \in DOMAIN entities' : ends'[c] = [ends[c] EXCEPT ![k] = e]
      /\ ends' = ends \/ \E x : ends' = [ends EXCEPT ![c] = x]
  <2>1. CASE ends[c][k] = Nobody
    <3>1. /\ entities' = Append(entities, [name |-> n, aliases |-> aliases, table |-> aliases])
          /\ ends' = [ends EXCEPT ![c] = [ends[c] EXCEPT ![k] = Len(entities) + 1]]
      BY <2>1 DEF G!UpsertPut, G!Bind
    <3>2. [name |-> n, aliases |-> aliases, table |-> aliases] \in G!Rows
      BY <1>2, <1>3 DEF G!Rows
    <3>3. /\ entities' \in Seq(G!Rows) /\ DOMAIN entities \subseteq DOMAIN entities'
          /\ Len(entities) + 1 \in DOMAIN entities'
          /\ \A e \in DOMAIN entities : entities'[e].name = entities[e].name
      <4> HIDE DEF n, aliases
      <4> QED
        BY <1>0, <3>1, <3>2, AppendProperties
    <3>4. ends'[c] = [ends[c] EXCEPT ![k] = Len(entities) + 1]
      BY <1>0, <3>1
    <3>5. ends'[c][k] = Len(entities) + 1
      BY <1>2, <3>3, <3>4, Rebound
    <3> QED
      BY <3>1, <3>3, <3>4, <3>5 DEF G!Ids
  <2>2. CASE ends[c][k] # Nobody
    <3> DEFINE i == ends[c][k]
    <3>1. i \in DOMAIN entities /\ entities[i] \in G!Rows
      BY <1>2, <2>2, Elements
    <3>2. ends' = ends /\ entities' = [entities EXCEPT ![i] = [[@ EXCEPT !.aliases = aliases] EXCEPT !.table = aliases]]
      BY <2>2 DEF G!UpsertPut
    <3>3. [[entities[i] EXCEPT !.aliases = aliases] EXCEPT !.table = aliases] \in G!Rows
      BY <1>3, <3>1 DEF G!Rows
    <3>4. /\ entities' \in Seq(G!Rows) /\ DOMAIN entities' = DOMAIN entities
          /\ \A e \in DOMAIN entities : entities'[e].name = entities[e].name
      BY <1>0, <3>1, <3>2, <3>3
    <3> QED
      BY <3>1, <3>2, <3>4 DEF G!Ids
  <2> QED
    BY <2>1, <2>2
<1>6. /\ UNCHANGED <<facts, stamps, todo, job, held, told, raced>>
      /\ step[c] + 1 \in Nat \ {0}
  BY <1>0 DEF G!UpsertPut
<1>7. Moves(c)
  BY <1>4, <1>5, <1>6, Moving
<1>8. G!GraphTypeOK'
  <2>1. (\A f \in DOMAIN facts : facts[f].from \in G!Ids /\ facts[f].to \in G!Ids)'
    BY <1>0, <1>5, <1>6 DEF G!Ids
  <2>2. raced' \in BOOLEAN
    BY <1>0, <1>6
  <2> QED
    BY <1>0, <1>5, <1>6, <1>7, <2>1, <2>2 DEF G!GraphTypeOK, Moves
<1>9. G!EndsAt(c)'
  <2>1. job'[c] = job[c] /\ ~ mid'[c] /\ step'[c] = step[c] + 1
    BY <1>0, <1>4, <1>6
  <2>2. /\ ends'[c][k] \in G!Ids'
        /\ ends'[c] = ends[c] \/ \E e \in G!Ids' \cup {Nobody} : ends'[c] = [ends[c] EXCEPT ![k] = e]
    BY <1>5 DEF G!Ids
  <2> QED
    BY <1>1, <1>5, <2>1, <2>2, Advances
<1>10. G!EndsAreThere'
  BY <1>0, <1>5, <1>6, <1>7, <1>9, BaseStep
<1> QED
  BY <1>0, <1>4, <1>5, <1>7, <1>8, <1>10 DEF Kept

\* A client that looks for a fact has its ends.
LEMMA EdgeLookKept ==
  ASSUME G!GraphTypeOK, G!EndsAreThere, NEW c \in Clients, G!EdgeLook(c)
  PROVE  Kept(c)
<1>0. /\ stamps \in Nat /\ told \subseteq Names \X Names /\ raced \in BOOLEAN
      /\ todo \in Seq(G!Jobs) /\ job \in [Clients -> G!Jobs \cup {Nobody}]
      /\ step \in [Clients -> Nat \ {0}] /\ mid \in [Clients -> BOOLEAN]
      /\ DOMAIN held = Clients /\ DOMAIN ends = Clients
  BY DEF G!GraphTypeOK
<1>1. /\ job[c] # Nobody /\ step[c] <= Len(G!Program(job[c])) /\ G!Now(c).what = "edge"
      /\ UNCHANGED <<entities, facts, todo, job, ends, raced>>
  BY DEF G!EdgeLook, G!At
<1>2. ends[c][1] \in G!Ids /\ ends[c][2] \in G!Ids
  BY <1>1, Here
<1>3. CASE G!Between(ends[c][1], ends[c][2]) # {}
  <2>1. /\ step' = [step EXCEPT ![c] = step[c] + 1] /\ mid' = [mid EXCEPT ![c] = FALSE]
        /\ told' = told \cup {<<entities[ends[c][1]].name, entities[ends[c][2]].name>>}
        /\ UNCHANGED <<stamps, held>>
    BY <1>3 DEF G!EdgeLook, G!Advance
  <2>2. Moves(c)
    <3>1. step[c] + 1 \in Nat \ {0}
      BY <1>0
    <3> QED
      BY <1>1, <2>1, <3>1, Moving
  <2>3. told' \subseteq Names \X Names
    BY <1>0, <1>2, <2>1, Elements
  <2>4. G!GraphTypeOK'
    BY <1>0, <1>1, <2>1, <2>2, <2>3, TypesRest
  <2>5. job'[c] = job[c] /\ ~ mid'[c] /\ step'[c] = step[c] + 1 /\ ends'[c] = ends[c]
    BY <1>0, <1>1, <2>1
  <2>6. G!EndsAt(c)'
    BY <1>1, <2>5, Advances
  <2> QED
    BY <1>0, <1>1, <2>1, <2>2, <2>4, <2>6, BaseStep DEF Kept
<1>4. CASE G!Between(ends[c][1], ends[c][2]) = {}
  <2>1. /\ mid' = [mid EXCEPT ![c] = TRUE] /\ stamps' = stamps + 1 /\ held' = [held EXCEPT ![c] = {stamps}]
        /\ UNCHANGED <<step, told>>
    BY <1>4 DEF G!EdgeLook, G!Halfway
  <2>2. Moves(c)
    BY <1>0, <1>1, <2>1, Moving
  <2>3. G!GraphTypeOK'
    BY <1>0, <1>1, <2>1, <2>2, TypesRest
  <2>4. \E s \in 0 .. stamps' : held'[c] = {s}
    BY <1>0, <2>1
  <2>5. job'[c] = job[c] /\ step'[c] = step[c] /\ ends'[c] = ends[c]
    BY <1>1, <2>1
  <2>6. G!EndsAt(c)'
    BY <1>1, <2>4, <2>5, Halves
  <2> QED
    BY <1>0, <1>1, <2>1, <2>2, <2>3, <2>6, BaseStep DEF Kept
<1> QED
  BY <1>3, <1>4

\* The fact that a client puts in.
NewFact(c) == [from |-> ends[c][1], to |-> ends[c][2],
               made |-> CHOOSE s \in held[c] : TRUE, active |-> TRUE]

\* A fact that is put in is between entities.
LEMMA EdgeInsertKept ==
  ASSUME G!GraphTypeOK, G!EndsAreThere, NEW c \in Clients, G!EdgeInsert(c)
  PROVE  /\ Kept(c) /\ ~ mid'[c]
         /\ ends[c][1] \in G!Ids /\ ends[c][2] \in G!Ids /\ NewFact(c) \in G!Edges
         /\ facts' = Append(facts, NewFact(c))
<1>0. /\ stamps \in Nat /\ told \subseteq Names \X Names /\ raced \in BOOLEAN
      /\ todo \in Seq(G!Jobs) /\ job \in [Clients -> G!Jobs \cup {Nobody}]
      /\ step \in [Clients -> Nat \ {0}] /\ mid \in [Clients -> BOOLEAN]
      /\ DOMAIN held = Clients /\ DOMAIN ends = Clients
      /\ entities \in Seq(G!Rows) /\ facts \in Seq(G!Edges)
  BY DEF G!GraphTypeOK
<1>1. /\ job[c] # Nobody /\ step[c] <= Len(G!Program(job[c])) /\ G!Now(c).what = "edge"
      /\ facts' = Append(facts, NewFact(c))
      /\ told' = told \cup {<<entities[ends[c][1]].name, entities[ends[c][2]].name>>}
      /\ step' = [step EXCEPT ![c] = step[c] + 1] /\ mid' = [mid EXCEPT ![c] = FALSE]
      /\ UNCHANGED <<entities, stamps, todo, job, held, ends, raced>>
  BY DEF G!EdgeInsert, G!At, NewFact, G!Advance
<1>2. ends[c][1] \in G!Ids /\ ends[c][2] \in G!Ids
  BY <1>1, Here
<1>3. NewFact(c) \in G!Edges
  <2>1. PICK s \in 0 .. stamps : held[c] = {s}
    BY DEF G!EdgeInsert, G!EndsAreThere, G!EndsAt
  <2>2. (CHOOSE t \in held[c] : TRUE) \in Nat
    BY <1>0, <2>1
  <2>3. ends[c][1] \in Nat /\ ends[c][2] \in Nat
    BY <1>2, Elements
  <2> QED
    BY <2>2, <2>3 DEF NewFact, G!Edges
<1>4. Moves(c)
  <2>1. step[c] + 1 \in Nat \ {0}
    BY <1>0
  <2> QED
    BY <1>1, <2>1, Moving
<1>5. G!GraphTypeOK'
  <2>1. facts' \in Seq(G!Edges)
    BY <1>0, <1>1, <1>3
  <2>2. (\A f \in DOMAIN facts : facts[f].from \in G!Ids /\ facts[f].to \in G!Ids)'
    <3>1. NewFact(c).from \in G!Ids /\ NewFact(c).to \in G!Ids
      BY <1>2 DEF NewFact
    <3>2. \A f \in DOMAIN facts' : (f \in DOMAIN facts /\ facts'[f] = facts[f]) \/ facts'[f] = NewFact(c)
      BY <1>0, <1>1, <1>3, AppendProperties
    <3>3. G!Ids' = G!Ids
      BY <1>1 DEF G!Ids
    <3> QED
      BY <3>1, <3>2, <3>3, Elements
  <2>3. told' \subseteq Names \X Names
    BY <1>0, <1>1, <1>2, Elements
  <2>4. raced' \in BOOLEAN
    BY <1>0, <1>1
  <2> QED
    BY <1>0, <1>1, <1>4, <2>1, <2>2, <2>3, <2>4 DEF G!GraphTypeOK, Moves
<1>6. job'[c] = job[c] /\ ~ mid'[c] /\ step'[c] = step[c] + 1 /\ ends'[c] = ends[c]
  BY <1>0, <1>1
<1>7. G!EndsAt(c)'
  BY <1>1, <1>6, Advances
<1> QED
  BY <1>0, <1>1, <1>2, <1>3, <1>4, <1>5, <1>6, <1>7, BaseStep DEF Kept

\* merge_duplicate_relationships(), merge_duplicate_aliases(): reading ...
LEMMA MergeReadKept ==
  ASSUME G!GraphTypeOK, G!EndsAreThere, NEW c \in Clients, G!MergeRead(c) \/ G!UnlistRead(c)
  PROVE  Kept(c)
<1>0. /\ stamps \in Nat /\ told \subseteq Names \X Names /\ raced \in BOOLEAN
      /\ todo \in Seq(G!Jobs) /\ job \in [Clients -> G!Jobs \cup {Nobody}]
      /\ step \in [Clients -> Nat \ {0}] /\ mid \in [Clients -> BOOLEAN]
      /\ DOMAIN held = Clients /\ DOMAIN ends = Clients
  BY DEF G!GraphTypeOK
<1>1. /\ job[c] # Nobody /\ step[c] <= Len(G!Program(job[c])) /\ G!Now(c).what \in {"merge", "unlist"}
      /\ G!MergeRead(c) => G!Now(c).what = "merge"
      /\ UNCHANGED <<entities, facts, stamps, todo, job, told>>
      /\ raced' = raced \/ raced' = G!Racing(c)
  BY DEF G!MergeRead, G!UnlistRead, G!At
<1>2. job[c].tool \in {"cognify", "reconcile"}
  BY <1>1, Here
<1>3. \/ /\ step' = [step EXCEPT ![c] = step[c] + 1] /\ mid' = [mid EXCEPT ![c] = FALSE]
         /\ UNCHANGED <<held, ends>>
      \/ /\ step' = step /\ mid' = [mid EXCEPT ![c] = TRUE]
         /\ \E x : held' = [held EXCEPT ![c] = x]
         /\ \E x, y : /\ ends' = [ends EXCEPT ![c] = <<x, y>>]
                      /\ G!UnlistRead(c) => y \subseteq Names
  <2>1. \A e \in G!Ids : entities[e].aliases \subseteq Names
    BY Elements
  <2>2. CASE G!MergeRead(c)
    <3>1. ~ G!UnlistRead(c)
      BY <1>1, <2>2 DEF G!UnlistRead, G!At
    <3> QED
      BY <2>2, <3>1 DEF G!MergeRead, G!Advance, G!Halfway
  <2>3. CASE G!UnlistRead(c) /\ held[c] = {}
    BY <2>3 DEF G!UnlistRead, G!Advance, G!Halfway
  <2>4. CASE G!UnlistRead(c) /\ held[c] # {}
    <3>1. PICK d \in held[c], e \in G!Ids :
            /\ held' = [held EXCEPT ![c] = held[c] \ {d}]
            /\ ends' = [ends EXCEPT ![c] = <<d[1], entities[e].aliases \ d[2]>>]
            /\ G!Halfway(c)
      BY <2>4 DEF G!UnlistRead, G!Named
    <3>2. entities[e].aliases \ d[2] \subseteq Names
      BY <2>1
    <3> QED
      BY <3>1, <3>2 DEF G!Halfway
  <2> QED
    BY <2>2, <2>3, <2>4
<1>4. step[c] + 1 \in Nat \ {0}
  BY <1>0
<1>5. Moves(c)
  BY <1>1, <1>3, <1>4, Moving
<1>6. G!GraphTypeOK'
  BY <1>0, <1>1, <1>5, Racing, TypesRest
<1>7. G!EndsAt(c)'
  <2>1. CASE step' = [step EXCEPT ![c] = step[c] + 1] /\ mid' = [mid EXCEPT ![c] = FALSE]
    <3>1. job'[c] = job[c] /\ ~ mid'[c] /\ step'[c] = step[c] + 1
      BY <1>0, <1>1, <2>1
    <3> QED
      BY <1>1, <1>2, <3>1, Advances
  <2>2. CASE /\ step' = step /\ mid' = [mid EXCEPT ![c] = TRUE]
             /\ \E x, y : /\ ends' = [ends EXCEPT ![c] = <<x, y>>]
                          /\ G!UnlistRead(c) => y \subseteq Names
    <3>1. job'[c] = job[c] /\ step'[c] = step[c]
      BY <1>1, <2>2
    <3>2. G!Now(c).what = "unlist" => ends'[c][2] \subseteq Names
      BY <1>0, <1>1, <2>2
    <3> QED
      BY <1>1, <1>2, <3>1, <3>2, Halves
  <2> QED
    BY <1>3, <2>1, <2>2
<1> QED
  BY <1>0, <1>1, <1>5, <1>6, <1>7, BaseStep DEF Kept

\* ... and writing, and reconcile().
LEMMA MergeWriteKept ==
  ASSUME G!GraphTypeOK, G!EndsAreThere, NEW c \in Clients,
         G!MergeEnd(c) \/ G!UnlistWrite(c) \/ G!Loops(c)
  PROVE  /\ Kept(c) /\ ~ mid'[c]
         /\ DOMAIN entities' = DOMAIN entities /\ DOMAIN facts' = DOMAIN facts
         /\ \A e \in G!Ids : entities'[e].name = entities[e].name /\ entities'[e].table = entities[e].table
         /\ \A f \in DOMAIN facts : /\ facts'[f].from = facts[f].from /\ facts'[f].to = facts[f].to
                                    /\ facts'[f].made = facts[f].made
<1>0. /\ stamps \in Nat /\ told \subseteq Names \X Names /\ raced \in BOOLEAN
      /\ todo \in Seq(G!Jobs) /\ job \in [Clients -> G!Jobs \cup {Nobody}]
      /\ step \in [Clients -> Nat \ {0}] /\ mid \in [Clients -> BOOLEAN]
      /\ DOMAIN held = Clients /\ DOMAIN ends = Clients
      /\ entities \in Seq(G!Rows) /\ facts \in Seq(G!Edges)
  BY DEF G!GraphTypeOK
<1>1. /\ job[c] # Nobody /\ step[c] <= Len(G!Program(job[c])) /\ G!Now(c).what \in {"merge", "unlist", "loops"}
      /\ UNCHANGED <<stamps, todo, job, held, ends, told, raced>>
      /\ mid' = [mid EXCEPT ![c] = FALSE]
      /\ step' = step \/ step' = [step EXCEPT ![c] = step[c] + 1]
  BY DEF G!MergeEnd, G!UnlistWrite, G!Loops, G!At, G!Advance
<1>2. job[c].tool \in {"cognify", "reconcile"}
  BY <1>1, Here
<1>3. /\ facts' \in Seq(G!Edges) /\ DOMAIN facts' = DOMAIN facts
      /\ \A f \in DOMAIN facts : /\ facts'[f].from = facts[f].from /\ facts'[f].to = facts[f].to
                                 /\ facts'[f].made = facts[f].made
  <2>1. \A r \in G!Edges : /\ [r EXCEPT !.active = FALSE] \in G!Edges
                           /\ [r EXCEPT !.active = FALSE].from = r.from /\ [r EXCEPT !.active = FALSE].to = r.to
                           /\ [r EXCEPT !.active = FALSE].made = r.made
    BY DEF G!Edges
  <2>2. CASE facts' = facts
    BY <1>0, <2>2
  <2>3. CASE facts' # facts
    <3>1. /\ facts' = [f \in DOMAIN facts |-> facts'[f]]
          /\ \A f \in DOMAIN facts : facts'[f] \in {facts[f], [facts[f] EXCEPT !.active = FALSE]}
      BY <2>3 DEF G!MergeEnd, G!UnlistWrite, G!Loops
    <3>2. \A f \in DOMAIN facts : facts'[f] \in G!Edges
      BY <2>1, <3>1, Elements
    <3>3. facts' \in [1 .. Len(facts) -> G!Edges]
      BY <3>1, <3>2, Elements
    <3>4. facts' \in Seq(G!Edges)
      BY <3>3, Elements
    <3> QED
      BY <2>1, <3>1, <3>4, Elements
  <2> QED
    BY <2>2, <2>3
<1>4. /\ entities' \in Seq(G!Rows) /\ DOMAIN entities' = DOMAIN entities
      /\ \A e \in G!Ids : entities'[e].name = entities[e].name /\ entities'[e].table = entities[e].table
  <2>1. CASE entities' = entities
    BY <1>0, <2>1
  <2>2. CASE entities' # entities
    <3>1. /\ G!UnlistWrite(c)
          /\ entities' = [e \in G!Ids |-> entities'[e]]
          /\ \A e \in G!Ids : entities'[e] \in {entities[e], [entities[e] EXCEPT !.aliases = ends[c][2]]}
      BY <2>2 DEF G!MergeEnd, G!UnlistWrite, G!Loops
    <3>2. ends[c][2] \subseteq Names
      <4>1. G!Aliasing(c) /\ G!At(c, "unlist") /\ G!EndsAt(c)
        BY <3>1 DEF G!UnlistWrite, G!Aliasing, G!EndsAreThere
      <4> QED
        BY <4>1 DEF G!EndsAt
    <3>3. \A r \in G!Rows : LET q == [r EXCEPT !.aliases = ends[c][2]] IN
            q \in G!Rows /\ q.name = r.name /\ q.table = r.table
      BY <3>2 DEF G!Rows
    <3>4. \A e \in G!Ids : entities'[e] \in G!Rows
      BY <3>1, <3>3, Elements
    <3>5. entities' \in [1 .. Len(entities) -> G!Rows]
      BY <3>1, <3>4, Elements
    <3>6. entities' \in Seq(G!Rows)
      BY <3>5, Elements
    <3> QED
      BY <3>1, <3>3, <3>6, Elements
  <2> QED
    BY <2>1, <2>2
<1>5. Moves(c)
  <2>1. step[c] + 1 \in Nat \ {0}
    BY <1>0
  <2> QED
    BY <1>1, <2>1, Moving
<1>6. G!GraphTypeOK'
  <2>1. (\A f \in DOMAIN facts : facts[f].from \in G!Ids /\ facts[f].to \in G!Ids)'
    BY <1>3, <1>4, Elements DEF G!Ids
  <2>2. raced' \in BOOLEAN
    BY <1>0, <1>1
  <2> QED
    BY <1>0, <1>1, <1>3, <1>4, <1>5, <2>1, <2>2 DEF G!GraphTypeOK, Moves
<1>7. job'[c] = job[c] /\ ~ mid'[c]
  BY <1>0, <1>1
<1>8. G!EndsAt(c)'
  BY <1>1, <1>2, <1>4, <1>7, Advances
<1>9. G!EndsAreThere'
  BY <1>0, <1>1, <1>4, <1>5, <1>8, BaseStep
<1> QED
  BY <1>3, <1>4, <1>5, <1>6, <1>7, <1>9 DEF Kept

\* A step that ends facts only that an older one outlives, and tells what there is.
LEMMA FactsStep ==
  ASSUME G!GraphTypeOK, G!OldestStays, G!ToldIsMade, NEW c \in Clients, Moves(c),
         DOMAIN entities \subseteq DOMAIN entities', DOMAIN facts \subseteq DOMAIN facts',
         \A e \in G!Ids : entities'[e].name = entities[e].name,
         \A f \in DOMAIN facts : /\ facts'[f].from = facts[f].from /\ facts'[f].to = facts[f].to
                                 /\ facts'[f].made = facts[f].made
                                 /\ facts'[f].active \/ ~ facts[f].active \/ G!Outlived(f),
         \A f \in DOMAIN facts' \ DOMAIN facts : facts'[f].active,
         \A t \in told' \ told : \E f \in DOMAIN facts' : G!NamesOf(f)' = t,
         G!At(c, "merge")' /\ mid'[c] => \A f \in ends'[c][1] : f \in DOMAIN facts /\ G!Outlived(f)
  PROVE  G!OldestStays' /\ G!ToldIsMade'
<1>1. \A f \in DOMAIN facts : G!NamesOf(f)' = G!NamesOf(f)
  BY Elements DEF G!NamesOf
<1>2. \A f \in DOMAIN facts : G!Outlived(f) => G!Outlived(f)'
  BY <1>1 DEF G!Outlived
<1>3. \A f \in DOMAIN facts' : ~ facts'[f].active => G!Outlived(f)'
  BY <1>2 DEF G!OldestStays
<1>4. ASSUME NEW d \in Clients, G!At(d, "merge")', mid'[d], NEW f \in ends'[d][1]
      PROVE  f \in DOMAIN facts' /\ G!Outlived(f)'
  <2>1. CASE d = c
    BY <1>2, <1>4, <2>1
  <2>2. CASE d # c
    <3>1. G!At(d, "merge") /\ mid[d] /\ f \in ends[d][1]
      BY <1>4, <2>2, Others DEF Moves
    <3> QED
      BY <1>2, <3>1 DEF G!OldestStays
  <2> QED
    BY <2>1, <2>2
<1>5. G!OldestStays'
  BY <1>3, <1>4 DEF G!OldestStays
<1>6. G!ToldIsMade'
  BY <1>1 DEF G!ToldIsMade
<1> QED
  BY <1>5, <1>6

\* Every step keeps it.
LEMMA FactsKeptStep ==
  ASSUME G!GraphTypeOK, G!EndsAreThere, G!OldestStays, G!ToldIsMade, G!GraphNext
  PROVE  G!OldestStays' /\ G!ToldIsMade'
<1>0. UNCHANGED entities => \A e \in G!Ids : entities'[e].name = entities[e].name
  OBVIOUS
<1>1. ASSUME NEW c \in Clients, G!Start(c) PROVE G!OldestStays' /\ G!ToldIsMade'
  <2>1. Moves(c) /\ ~ mid'[c]
    BY <1>1, StartKept DEF Kept
  <2> QED
    BY <1>1, <2>1, FactsStep DEF G!Start
<1>2. ASSUME NEW c \in Clients,
             G!Missing(c) \/ G!Find(c) \/ G!Filled(c) \/ G!Duplicates(c) \/ G!Namesakes(c)
      PROVE  G!OldestStays' /\ G!ToldIsMade'
  <2>1. Moves(c) /\ ~ mid'[c]
    BY <1>2, ReadKept DEF Kept
  <2>2. UNCHANGED <<entities, facts, told>>
    BY <1>2 DEF G!Missing, G!Find, G!Filled, G!Duplicates, G!Namesakes
  <2> QED
    BY <2>1, <2>2, FactsStep
<1>3. ASSUME NEW c \in Clients, G!UpsertFind(c) PROVE G!OldestStays' /\ G!ToldIsMade'
  <2>1. Moves(c)
    BY <1>3, UpsertFindKept DEF Kept
  <2>2. ~ G!At(c, "merge")'
    BY <1>3 DEF G!UpsertFind, G!Upserts, G!Halfway, G!At, G!Now
  <2> QED
    BY <1>3, <2>1, <2>2, FactsStep DEF G!UpsertFind
<1>4. ASSUME NEW c \in Clients, G!UpsertPut(c) PROVE G!OldestStays' /\ G!ToldIsMade'
  <2>1. /\ Moves(c) /\ ~ mid'[c] /\ DOMAIN entities \subseteq DOMAIN entities'
        /\ \A e \in G!Ids : entities'[e].name = entities[e].name
    BY <1>4, UpsertPutKept DEF Kept
  <2>2. UNCHANGED <<facts, told>>
    BY <1>4 DEF G!UpsertPut
  <2> QED
    BY <2>1, <2>2, FactsStep
<1>5. ASSUME NEW c \in Clients, G!EdgeLook(c) PROVE G!OldestStays' /\ G!ToldIsMade'
  <2>1. Moves(c)
    BY <1>5, EdgeLookKept DEF Kept
  <2>2. mid'[c] => ~ G!At(c, "merge")'
    <3>1. CASE G!Between(ends[c][1], ends[c][2]) # {}
      BY <1>5, <3>1 DEF G!EdgeLook, G!Advance, G!GraphTypeOK
    <3>2. CASE G!Between(ends[c][1], ends[c][2]) = {}
      BY <1>5, <3>2 DEF G!EdgeLook, G!Halfway, G!At, G!Now
    <3> QED
      BY <3>1, <3>2
  <2>3. UNCHANGED <<entities, facts>>
    BY <1>5 DEF G!EdgeLook
  <2>4. \A t \in told' \ told : \E f \in DOMAIN facts' : G!NamesOf(f)' = t
    BY <1>5, <2>3 DEF G!EdgeLook, G!Between, G!NamesOf
  <2> QED
    BY <2>1, <2>2, <2>3, <2>4, FactsStep
<1>6. ASSUME NEW c \in Clients, G!EdgeInsert(c) PROVE G!OldestStays' /\ G!ToldIsMade'
  <2>1. /\ Moves(c) /\ ~ mid'[c] /\ NewFact(c) \in G!Edges
        /\ facts' = Append(facts, NewFact(c)) /\ entities' = entities
        /\ told' = told \cup {<<entities[ends[c][1]].name, entities[ends[c][2]].name>>}
    BY <1>6, EdgeInsertKept DEF Kept, G!EdgeInsert
  <2>2. /\ DOMAIN facts \subseteq DOMAIN facts' /\ \A f \in DOMAIN facts : facts'[f] = facts[f]
        /\ \A f \in DOMAIN facts' \ DOMAIN facts : facts'[f] = NewFact(c)
        /\ \E f \in DOMAIN facts' : facts'[f] = NewFact(c)
    <3>1. facts \in Seq(G!Edges)
      BY DEF G!GraphTypeOK
    <3>2. /\ DOMAIN facts' = 1 .. Len(facts) + 1 /\ DOMAIN facts = 1 .. Len(facts) /\ Len(facts) \in Nat
          /\ facts'[Len(facts) + 1] = NewFact(c)
          /\ \A f \in 1 .. Len(facts) : facts'[f] = facts[f]
      BY <2>1, <3>1, AppendProperties
    <3>3. \A f \in DOMAIN facts' \ DOMAIN facts : f = Len(facts) + 1
      BY <3>2
    <3>4. Len(facts) + 1 \in DOMAIN facts'
      BY <3>2
    <3> QED
      BY <3>2, <3>3, <3>4
  <2>3. \A t \in told' \ told : \E f \in DOMAIN facts' : G!NamesOf(f)' = t
    BY <2>1, <2>2 DEF G!NamesOf, NewFact
  <2>4. NewFact(c).active
    BY DEF NewFact
  <2> QED
    BY <2>1, <2>2, <2>3, <2>4, FactsStep
<1>7. ASSUME NEW c \in Clients, G!MergeRead(c) \/ G!UnlistRead(c) PROVE G!OldestStays' /\ G!ToldIsMade'
  <2>1. Moves(c)
    BY <1>7, MergeReadKept DEF Kept
  <2>2. G!At(c, "merge")' /\ mid'[c] => \A f \in ends'[c][1] : f \in DOMAIN facts /\ G!Outlived(f)
    <3>1. CASE G!UnlistRead(c)
      BY <3>1 DEF G!UnlistRead, G!Advance, G!Halfway, G!At, G!Now, G!GraphTypeOK
    <3>2. CASE G!MergeRead(c) /\ held[c] = {}
      BY <3>2 DEF G!MergeRead, G!Advance, G!GraphTypeOK
    <3>3. CASE G!MergeRead(c) /\ held[c] # {}
      <4>1. PICK d \in held[c] : ends' = [ends EXCEPT ![c] = <<G!ToEnd(d[1], d[2]), Nobody>>]
        BY <3>3 DEF G!MergeRead
      <4>2. ends'[c][1] = G!ToEnd(d[1], d[2])
        BY <4>1 DEF G!GraphTypeOK
      <4>3. \A f \in G!ToEnd(d[1], d[2]) : f \in DOMAIN facts /\ G!Outlived(f)
        BY DEF G!ToEnd, G!Told, G!Outlived
      <4> QED
        BY <4>2, <4>3
    <3> QED
      BY <1>7, <3>1, <3>2, <3>3
  <2>3. UNCHANGED <<entities, facts, told>>
    BY <1>7 DEF G!MergeRead, G!UnlistRead
  <2> QED
    BY <2>1, <2>2, <2>3, FactsStep
<1>8. ASSUME NEW c \in Clients, G!MergeEnd(c) \/ G!UnlistWrite(c) \/ G!Loops(c)
      PROVE  G!OldestStays' /\ G!ToldIsMade'
  <2>1. /\ Moves(c) /\ ~ mid'[c]
        /\ DOMAIN entities' = DOMAIN entities /\ DOMAIN facts' = DOMAIN facts
        /\ \A e \in G!Ids : entities'[e].name = entities[e].name
        /\ \A f \in DOMAIN facts : /\ facts'[f].from = facts[f].from /\ facts'[f].to = facts[f].to
                                   /\ facts'[f].made = facts[f].made
    BY <1>8, MergeWriteKept DEF Kept
  <2>2. \A f \in DOMAIN facts : facts'[f].active \/ ~ facts[f].active \/ G!Outlived(f)
    <3>1. CASE G!MergeEnd(c)
      <4>1. \A f \in ends[c][1] : G!Outlived(f)
        BY <3>1 DEF G!OldestStays, G!MergeEnd
      <4> QED
        BY <3>1, <4>1 DEF G!MergeEnd
    <3>2. CASE G!Loops(c)
      BY <3>2 DEF G!Loops, G!Outlived, G!NamesOf
    <3>3. CASE G!UnlistWrite(c)
      BY <3>3 DEF G!UnlistWrite
    <3> QED
      BY <1>8, <3>1, <3>2, <3>3
  <2>3. told' = told
    BY <1>8 DEF G!MergeEnd, G!UnlistWrite, G!Loops
  <2> QED
    BY <2>1, <2>2, <2>3, FactsStep
<1> QED
  BY <1>1, <1>2, <1>3, <1>4, <1>5, <1>6, <1>7, <1>8 DEF G!GraphNext

\* The oldest of the facts told is active, so what was told is true.
LEMMA OldestIsActive ==
  ASSUME G!GraphTypeOK, G!OldestStays, G!ToldIsMade
  PROVE  G!FactsKept
<1> SUFFICES ASSUME NEW t \in told, t[1] # t[2] PROVE G!Told(t[1], t[2]) # {}
  BY DEF G!FactsKept
<1> DEFINE I == {facts[f].made : f \in {g \in DOMAIN facts : G!NamesOf(g) = t}}
<1>1. t \in Names \X Names /\ I \in SUBSET Nat /\ I # {}
  <2>1. t \in Names \X Names
    BY DEF G!GraphTypeOK
  <2>2. I \in SUBSET Nat
    BY Elements
  <2>3. \E f \in DOMAIN facts : G!NamesOf(f) = t
    BY DEF G!ToldIsMade
  <2> QED
    BY <2>1, <2>2, <2>3
<1>2. PICK f \in DOMAIN facts : G!NamesOf(f) = t /\ \A j \in I : facts[f].made <= j
  BY <1>1, LeastNumber
<1>3. \A g \in DOMAIN facts : G!NamesOf(g) = t => facts[f].made <= facts[g].made
  BY <1>2
<1>4. ~ G!Outlived(f)
  BY <1>2, <1>3, Elements DEF G!Outlived
<1>5. facts[f].active /\ t = <<t[1], t[2]>>
  BY <1>1, <1>4 DEF G!OldestStays
<1> QED
  BY <1>2, <1>5 DEF G!Told

AliasInv == G!ReadIsThere /\ G!ListedAliasResolves

\* A step after which its client is not changing aliases, and has changed none.
LEMMA AliasRest ==
  ASSUME AliasInv, NEW c \in Clients, Moves(c), UNCHANGED <<entities, raced>>, ~ G!Aliasing(c)'
  PROVE  AliasInv'
<1>1. \A d \in Clients : G!Aliasing(d)' => d # c /\ G!Aliasing(d)
  BY Others
<1>2. \A d \in Clients \ {c} : G!ReadAt(d) => G!ReadAt(d)'
  <2> SUFFICES ASSUME NEW d \in Clients \ {c}, G!ReadAt(d) PROVE G!ReadAt(d)'
    OBVIOUS
  <2>1. /\ G!Now(d)' = G!Now(d) /\ (G!At(d, "unlist")' <=> G!At(d, "unlist"))
        /\ held'[d] = held[d] /\ ends'[d] = ends[d]
    BY Others DEF Moves
  <2>2. \A n : G!Named(n)' = G!Named(n)
    BY DEF G!Named, G!Ids
  <2> QED
    BY <2>1, <2>2 DEF G!ReadAt
<1>3. G!ReadIsThere'
  BY <1>1, <1>2 DEF AliasInv, G!ReadIsThere
<1>4. G!ListedAliasResolves'
  BY DEF AliasInv, G!ListedAliasResolves, G!Named, G!Ids
<1> QED
  BY <1>3, <1>4 DEF AliasInv

\* A step that reads aliases to change them.
LEMMA AliasRead ==
  ASSUME AliasInv, NEW c \in Clients, Moves(c), UNCHANGED entities, raced' = G!Racing(c),
         ~ raced' => G!ReadAt(c)'
  PROVE  AliasInv'
<1>1. ~ raced' => ~ raced /\ \A d \in Clients \ {c} : ~ G!Aliasing(d)'
  BY Others DEF G!Racing
<1>2. G!ReadIsThere'
  BY <1>1 DEF G!ReadIsThere
<1>3. G!ListedAliasResolves'
  BY <1>1 DEF AliasInv, G!ListedAliasResolves, G!Named, G!Ids
<1> QED
  BY <1>2, <1>3 DEF AliasInv

\* A step that changes them, after which nobody is about to.
LEMMA AliasWrite ==
  ASSUME AliasInv, NEW c \in Clients, Moves(c), raced' = raced, G!Aliasing(c), ~ G!Aliasing(c)',
         ~ raced => G!ListedAliasResolves'
  PROVE  AliasInv'
<1>1. ~ raced' => \A d \in Clients : ~ G!Aliasing(d)'
  BY Others DEF AliasInv, G!ReadIsThere
<1> QED
  BY <1>1 DEF AliasInv, G!ReadIsThere, G!ListedAliasResolves

\* What is read of an alias list without a race is what is there.
LEMMA UpsertFindAliases ==
  ASSUME G!GraphTypeOK, G!EndsAreThere, AliasInv, NEW c \in Clients, G!UpsertFind(c)
  PROVE  AliasInv'
<1>1. Moves(c)
  BY UpsertFindKept DEF Kept
<1>2. job[c] # Nobody /\ step[c] <= Len(G!Program(job[c])) /\ G!Now(c).what \in {"upsert", "fill"}
  BY DEF G!UpsertFind, G!Upserts, G!At
<1>3. PICK e \in G!Found(G!Now(c).name) :
        /\ ends' = [ends EXCEPT ![c] = [ends[c] EXCEPT ![G!Now(c).end] = e]]
        /\ held' = [held EXCEPT ![c] = IF e = Nobody THEN {} ELSE entities[e].aliases]
  BY DEF G!UpsertFind, G!Bind
<1>4. G!Now(c)' = G!Now(c) /\ ~ G!At(c, "unlist")'
  BY <1>2 DEF G!UpsertFind, G!Halfway, G!Now, G!At
<1>5. e \in G!Ids \cup {Nobody} /\ (e = Nobody => G!Named(G!Now(c).name) = {})
  <2>1. Nobody \notin G!Ids
    BY Elements, GraphAssumption
  <2> QED
    BY <2>1 DEF G!Found, G!Named
<1>6. ends'[c][G!Now(c).end] = e /\ held'[c] = IF e = Nobody THEN {} ELSE entities[e].aliases
  <2>1. /\ G!Now(c).end \in {1, 2} /\ ends[c] \in (G!Ids \cup {Nobody}) \X (G!Ids \cup {Nobody})
    BY <1>2, Here
  <2>2. ends'[c] = [ends[c] EXCEPT ![G!Now(c).end] = e]
    BY <1>3 DEF G!GraphTypeOK
  <2>3. ends'[c][G!Now(c).end] = e
    BY <1>5, <2>1, <2>2, Rebound
  <2> QED
    BY <1>3, <2>3 DEF G!GraphTypeOK
<1>7. G!ReadAt(c)'
  <2>1. entities' = entities /\ \A n : G!Named(n)' = G!Named(n)
    BY DEF G!UpsertFind, G!Named, G!Ids
  <2> QED
    BY <1>4, <1>5, <1>6, <2>1 DEF G!ReadAt
<1> QED
  BY <1>1, <1>7, AliasRead DEF G!UpsertFind

\* What is written to it then makes its aliases found.
LEMMA UpsertPutAliases ==
  ASSUME G!GraphTypeOK, G!EndsAreThere, AliasInv, NEW c \in Clients, G!UpsertPut(c)
  PROVE  AliasInv'
<1>1. Moves(c) /\ ~ mid'[c]
  BY UpsertPutKept DEF Kept
<1>2. /\ job[c] # Nobody /\ step[c] <= Len(G!Program(job[c])) /\ G!Now(c).what \in {"upsert", "fill"}
      /\ G!Aliasing(c) /\ ~ G!At(c, "unlist")
  BY DEF G!UpsertPut, G!At, G!Aliasing
<1> DEFINE e == ends[c][G!Now(c).end]
           n == G!Now(c).name
           aliases == held[c] \cup G!Now(c).aliases
<1>3. e \in G!Ids \cup {Nobody}
  <2>1. G!Now(c).end \in {1, 2} /\ ends[c] \in (G!Ids \cup {Nobody}) \X (G!Ids \cup {Nobody})
    BY <1>2, Here
  <2> QED
    BY <2>1
<1>4. ASSUME ~ raced PROVE G!ListedAliasResolves'
  <2>1. IF e = Nobody THEN G!Named(n) = {} ELSE held[c] = entities[e].aliases
    BY <1>2, <1>4 DEF AliasInv, G!ReadIsThere, G!ReadAt
  <2>2. \A i \in G!Ids : G!Named(entities[i].name) = {i} /\ entities[i].aliases \subseteq entities[i].table
    BY <1>4 DEF AliasInv, G!ListedAliasResolves
  <2>3. CASE e = Nobody
    <3> DEFINE row == [name |-> n, aliases |-> aliases, table |-> aliases]
               new == Len(entities) + 1
    <3>1. entities' = Append(entities, row)
      BY <2>3 DEF G!UpsertPut
    <3>2. /\ G!Ids = 1 .. Len(entities) /\ Len(entities) \in Nat /\ G!Ids' = 1 .. Len(entities) + 1
          /\ entities'[new] = row /\ \A i \in G!Ids : entities'[i] = entities[i]
      <4>1. entities \in Seq(G!Rows)
        BY DEF G!GraphTypeOK
      <4> HIDE DEF row
      <4> QED
        BY <3>1, <4>1, AppendProperties DEF G!Ids
    <3>3. G!Ids' = G!Ids \cup {new} /\ new \notin G!Ids
      BY <3>2
    <3>4. row.name = n /\ row.aliases = aliases /\ row.table = aliases
      OBVIOUS
    <3>5. \A i \in G!Ids : entities[i].name # n
      BY <2>1, <2>3 DEF G!Named
    <3> HIDE DEF row, new, n, aliases
    <3>6. \A m : G!Named(m)' = {i \in G!Ids' : entities'[i].name = m}
      BY DEF G!Named
    <3>7. \A m : m = row.name => G!Named(m)' = {new}
      BY <3>2, <3>3, <3>4, <3>5, <3>6
    <3>8. \A m : \A i \in G!Ids : m = entities[i].name => G!Named(m)' = {i}
      <4> SUFFICES ASSUME NEW m, NEW i \in G!Ids, m = entities[i].name PROVE G!Named(m)' = {i}
        OBVIOUS
      <4>1. \A k \in G!Ids : entities[k].name = m <=> k = i
        BY <2>2 DEF G!Named
      <4>2. \A k \in G!Ids' : entities'[k].name = m <=> k = i
        BY <3>2, <3>3, <3>4, <3>5, <4>1
      <4> QED
        BY <3>3, <3>6, <4>2
    <3>9. \A m : \A i \in G!Ids' : m = entities'[i].name => G!Named(m)' = {i}
      BY <3>2, <3>3, <3>7, <3>8
    <3>10. \A i \in G!Ids' : entities'[i].aliases \subseteq entities'[i].table
      BY <2>2, <3>2, <3>3, <3>4
    <3> QED
      BY <3>9, <3>10 DEF G!ListedAliasResolves
  <2>4. CASE e # Nobody
    <3>1. /\ e \in G!Ids
          /\ entities' = [entities EXCEPT ![e] = [[@ EXCEPT !.aliases = aliases] EXCEPT !.table = aliases]]
      BY <1>3, <2>4 DEF G!UpsertPut
    <3>2. entities[e] \in G!Rows
      BY <3>1, Elements
    <3>3. /\ G!Ids' = G!Ids
          /\ \A i \in G!Ids : entities'[i].name = entities[i].name
          /\ \A i \in G!Ids \ {e} : entities'[i] = entities[i]
          /\ entities'[e].aliases = aliases /\ entities'[e].table = aliases
      BY <3>1, <3>2 DEF G!Ids, G!Rows
    <3>4. \A m : G!Named(m)' = G!Named(m)
      BY <3>3 DEF G!Named
    <3> QED
      BY <2>2, <3>3, <3>4 DEF G!ListedAliasResolves
  <2> QED
    BY <2>3, <2>4
<1> QED
  BY <1>1, <1>2, <1>4, AliasWrite DEF G!UpsertPut, G!Aliasing

\* An alias that is taken off a list is no harm to those left.
LEMMA UnlistAliases ==
  ASSUME G!GraphTypeOK, G!EndsAreThere, AliasInv, NEW c \in Clients, G!UnlistRead(c) \/ G!UnlistWrite(c)
  PROVE  AliasInv'
<1>1. CASE G!UnlistRead(c) /\ held[c] = {}
  <2>1. Moves(c)
    BY <1>1, MergeReadKept DEF Kept
  <2>2. ~ mid'[c]
    BY <1>1 DEF G!UnlistRead, G!Advance, G!GraphTypeOK
  <2> QED
    BY <1>1, <2>1, <2>2, AliasRest DEF G!UnlistRead, G!Aliasing
<1>2. CASE G!UnlistRead(c) /\ held[c] # {}
  <2>1. Moves(c)
    BY <1>2, MergeReadKept DEF Kept
  <2>2. PICK d \in held[c], e \in G!Ids :
          /\ e \in G!Named(d[1])
          /\ ends' = [ends EXCEPT ![c] = <<d[1], entities[e].aliases \ d[2]>>]
    BY <1>2 DEF G!UnlistRead, G!Named
  <2>3. ends'[c][1] = d[1] /\ ends'[c][2] = entities[e].aliases \ d[2]
    BY <2>2 DEF G!GraphTypeOK
  <2>4. UNCHANGED entities /\ raced' = G!Racing(c) /\ G!At(c, "unlist")'
    BY <1>2 DEF G!UnlistRead, G!Halfway, G!At, G!Now
  <2>5. ASSUME ~ raced' PROVE G!ReadAt(c)'
    <3>1. ~ raced
      BY <2>4, <2>5 DEF G!Racing
    <3>2. e \in G!Ids /\ entities[e].name = d[1] /\ G!Named(entities[e].name) = {e}
      BY <2>2, <3>1 DEF AliasInv, G!ListedAliasResolves, G!Named
    <3>3. G!Named(d[1])' = {e}
      BY <2>4, <3>2 DEF G!Named, G!Ids
    <3> QED
      BY <2>3, <2>4, <3>3 DEF G!ReadAt
  <2> QED
    BY <2>1, <2>4, <2>5, AliasRead
<1>3. CASE G!UnlistWrite(c)
  <2>1. /\ Moves(c) /\ ~ mid'[c] /\ DOMAIN entities' = DOMAIN entities
        /\ \A e \in G!Ids : entities'[e].name = entities[e].name /\ entities'[e].table = entities[e].table
    BY <1>3, MergeWriteKept DEF Kept
  <2>2. G!Aliasing(c) /\ G!At(c, "unlist") /\ raced' = raced
    BY <1>3 DEF G!UnlistWrite, G!Aliasing
  <2>3. ASSUME ~ raced PROVE G!ListedAliasResolves'
    <3>1. \A e \in G!Named(ends[c][1]) : ends[c][2] \subseteq entities[e].aliases
      BY <2>2, <2>3 DEF AliasInv, G!ReadIsThere, G!ReadAt
    <3>2. \A i \in G!Ids : G!Named(entities[i].name) = {i} /\ entities[i].aliases \subseteq entities[i].table
      BY <2>3 DEF AliasInv, G!ListedAliasResolves
    <3>3. G!Ids' = G!Ids /\ \A m : G!Named(m)' = G!Named(m)
      BY <2>1 DEF G!Named, G!Ids
    <3>4. \A i \in G!Ids : entities'[i].aliases = IF entities[i].name = ends[c][1] THEN ends[c][2] ELSE entities[i].aliases
      <4> SUFFICES ASSUME NEW i \in G!Ids
                   PROVE  entities'[i].aliases = IF entities[i].name = ends[c][1] THEN ends[c][2] ELSE entities[i].aliases
        OBVIOUS
      <4>1. entities[i] \in G!Rows
        BY Elements
      <4> QED
        BY <1>3, <4>1 DEF G!UnlistWrite, G!Rows
    <3>5. \A i \in G!Ids : entities'[i].aliases \subseteq entities'[i].table
      BY <2>1, <3>1, <3>2, <3>4 DEF G!Named
    <3>6. \A i \in G!Ids : entities'[i].name = entities[i].name
      BY <2>1
    <3> QED
      BY <3>2, <3>3, <3>5, <3>6 DEF G!ListedAliasResolves
  <2> QED
    BY <2>1, <2>2, <2>3, AliasWrite DEF G!Aliasing
<1> QED
  BY <1>1, <1>2, <1>3

\* Every step keeps it.
LEMMA AliasStep ==
  ASSUME G!GraphTypeOK, G!EndsAreThere, AliasInv, G!GraphNext
  PROVE  AliasInv'
<1>1. ASSUME NEW c \in Clients,
             \/ G!Start(c) \/ G!Missing(c) \/ G!Find(c) \/ G!Filled(c) \/ G!Duplicates(c) \/ G!Namesakes(c)
             \/ G!EdgeInsert(c) \/ G!MergeEnd(c) \/ G!Loops(c)
      PROVE  AliasInv'
  <2>1. Moves(c) /\ ~ mid'[c]
    BY <1>1, StartKept, ReadKept, EdgeInsertKept, MergeWriteKept DEF Kept
  <2>2. UNCHANGED <<entities, raced>>
    BY <1>1 DEF G!Start, G!Missing, G!Find, G!Filled, G!Duplicates, G!Namesakes, G!EdgeInsert, G!MergeEnd, G!Loops
  <2> QED
    BY <2>1, <2>2, AliasRest DEF G!Aliasing
<1>2. ASSUME NEW c \in Clients, G!EdgeLook(c) \/ G!MergeRead(c)
      PROVE  AliasInv'
  <2>1. Moves(c)
    BY <1>2, EdgeLookKept, MergeReadKept DEF Kept
  <2>2. UNCHANGED <<entities, raced>>
    BY <1>2 DEF G!EdgeLook, G!MergeRead
  <2>3. mid'[c] => G!Now(c)' = G!Now(c) /\ G!Now(c).what \in {"edge", "merge"}
    <3>1. G!Advance(c, 1) => ~ mid'[c]
      BY DEF G!Advance, G!GraphTypeOK
    <3>2. job' = job /\ (G!Advance(c, 1) \/ step' = step) /\ G!Now(c).what \in {"edge", "merge"}
      BY <1>2 DEF G!EdgeLook, G!MergeRead, G!Halfway, G!At
    <3> QED
      BY <3>1, <3>2 DEF G!Now
  <2>4. ~ G!Aliasing(c)'
    BY <2>3 DEF G!Aliasing, G!At
  <2> QED
    BY <2>1, <2>2, <2>4, AliasRest
<1> QED
  BY <1>1, <1>2, UpsertFindAliases, UpsertPutAliases, UnlistAliases DEF G!GraphNext

\* The invariant holds in the first states.
LEMMA GraphStart == G!GraphInit => GraphInv
<1> SUFFICES ASSUME G!GraphInit PROVE GraphInv
  OBVIOUS
<1>1. /\ entities = <<>> /\ facts = <<>> /\ stamps = 0 /\ told = {} /\ raced = FALSE /\ todo \in Plans
      /\ job = [c \in Clients |-> Nobody] /\ step = [c \in Clients |-> 1] /\ mid = [c \in Clients |-> FALSE]
      /\ held = [c \in Clients |-> {}] /\ ends = [c \in Clients |-> <<Nobody, Nobody>>]
  BY DEF G!GraphInit
<1>2. G!GraphTypeOK
  <2>1. todo \in Seq(G!Jobs)
    BY <1>1, GraphAssumption
  <2>2. entities \in Seq(G!Rows) /\ facts \in Seq(G!Edges) /\ DOMAIN facts = {}
    BY <1>1
  <2>3. raced \in BOOLEAN
    BY <1>1
  <2> QED
    BY <1>1, <2>1, <2>2, <2>3 DEF G!GraphTypeOK
<1>3. \A c \in Clients : job[c] = Nobody /\ ~ mid[c]
  BY <1>1
<1>4. G!EndsAreThere
  BY <1>3 DEF G!EndsAreThere, G!EndsAt, G!At, G!Aliasing
<1>5. G!OldestStays /\ G!ToldIsMade
  BY <1>1, <1>3 DEF G!OldestStays, G!ToldIsMade
<1>6. AliasInv
  BY <1>1, <1>3 DEF AliasInv, G!ReadIsThere, G!ListedAliasResolves, G!Aliasing, G!Ids
<1> QED
  BY <1>2, <1>4, <1>5, <1>6 DEF GraphInv, AliasInv

\* Every step keeps it.
LEMMA GraphStep == GraphInv /\ G!GraphNext => GraphInv'
<1> SUFFICES ASSUME GraphInv, G!GraphNext PROVE GraphInv'
  OBVIOUS
<1>1. G!GraphTypeOK' /\ G!EndsAreThere'
  BY StartKept, ReadKept, UpsertFindKept, UpsertPutKept, EdgeLookKept, EdgeInsertKept, MergeReadKept,
     MergeWriteKept DEF GraphInv, G!GraphNext, Kept
<1>2. G!OldestStays' /\ G!ToldIsMade'
  BY FactsKeptStep DEF GraphInv
<1>3. AliasInv'
  BY AliasStep DEF GraphInv, AliasInv
<1> QED
  BY <1>1, <1>2, <1>3 DEF GraphInv, AliasInv

\* A step that leaves these variables alone keeps it.
LEMMA GraphStutter == GraphInv /\ UNCHANGED graphVars => GraphInv'
<1> SUFFICES ASSUME GraphInv, UNCHANGED graphVars PROVE GraphInv'
  OBVIOUS
<1>1. UNCHANGED <<entities, facts, stamps, todo, job, step, mid, held, ends, told, raced>>
  BY DEF graphVars
<1>2. G!GraphTypeOK'
  BY <1>1 DEF GraphInv, G!GraphTypeOK, G!Ids
<1>3. /\ G!Ids' = G!Ids /\ (\A n : G!Named(n)' = G!Named(n)) /\ (\A f : G!NamesOf(f)' = G!NamesOf(f))
      /\ \A c : G!Now(c)' = G!Now(c)
  BY <1>1 DEF G!Ids, G!Named, G!NamesOf, G!Now
<1>4. \A c, w : G!At(c, w)' <=> G!At(c, w)
  BY <1>1, <1>3 DEF G!At
<1>5. \A c : (G!Aliasing(c)' <=> G!Aliasing(c))
  BY <1>1, <1>4 DEF G!Aliasing
<1>6. G!EndsAreThere'
  BY <1>1, <1>3, <1>4, <1>5 DEF GraphInv, G!EndsAreThere, G!EndsAt
<1>7. G!OldestStays' /\ G!ToldIsMade'
  BY <1>1, <1>3, <1>4 DEF GraphInv, G!OldestStays, G!ToldIsMade, G!Outlived
<1>8. G!ReadIsThere' /\ G!ListedAliasResolves'
  BY <1>1, <1>3, <1>4, <1>5 DEF GraphInv, G!ReadIsThere, G!ReadAt, G!ListedAliasResolves
<1> QED
  BY <1>2, <1>6, <1>7, <1>8 DEF GraphInv

\* It holds in every behaviour.
LEMMA GraphAlways == Spec => []GraphInv
<1>1. Init => GraphInv
  BY GraphStart DEF Init
<1>2. GraphInv /\ [Next]_<<part, blockVars, graphVars, skillVars, archiveVars,
                           transferVars, chainVars, mirrorVars>> => GraphInv'
  BY GraphStep, GraphStutter DEF Next
<1> QED
  BY <1>1, <1>2, PTL DEF Spec

\* However many processes tell, merge and clean up the graph at the same time, a
\* fact that was told stays between entities of those names (graph.py:484), and as
\* long as no two change aliases at a time an alias leads to the one entity that
\* lists it (graph.py:207).
THEOREM GraphHoldsAlways == Spec => []GraphHolds
<1>1. GraphInv => GraphHolds
  BY OldestIsActive DEF GraphInv, GraphHolds
<1> QED
  BY <1>1, GraphAlways, PTL

-----------------------------------------------------------------------------
(* Export and import.                                                       *)

LineOf == {T!Heading(t) : t \in T!Tiers} \cup {T!Section(t, x) : t \in T!Tiers, x \in Texts}

Memories(ls) == {ls[i] : i \in {i \in DOMAIN ls : ls[i].kind = "memory"}}
All(s) == {s[i] : i \in DOMAIN s}

\* What was read of the first lines: the memories among them.
ReadSoFar(ls, i, acc) ==
  /\ acc.chunks \in Seq(LineOf) /\ acc.current \in Seq(LineOf)
  /\ All(acc.chunks) \cup All(acc.current) = {ls[j] : j \in {j \in 1 .. i : ls[j].kind = "memory"}}

\* What two sequences joined have.
LEMMA AllOfTwo ==
  ASSUME NEW V, NEW s \in Seq(V), NEW t \in Seq(V)
  PROVE  s \o t \in Seq(V) /\ All(s \o t) = All(s) \cup All(t)
<1>1. /\ s \o t \in Seq(V) /\ Len(s \o t) = Len(s) + Len(t) /\ Len(s) \in Nat /\ Len(t) \in Nat
      /\ \A i \in 1 .. Len(s) + Len(t) : (s \o t)[i] = IF i \leq Len(s) THEN s[i] ELSE t[i - Len(s)]
  BY ConcatProperties
<1> DEFINE st == s \o t
<1>2. DOMAIN st = 1 .. Len(s) + Len(t) /\ DOMAIN s = 1 .. Len(s) /\ DOMAIN t = 1 .. Len(t)
  BY <1>1
<1>3. /\ \A i \in DOMAIN s : i \in DOMAIN st /\ st[i] = s[i]
      /\ \A i \in DOMAIN st : i \in DOMAIN s \/ (i - Len(s) \in DOMAIN t /\ st[i] = t[i - Len(s)])
  BY <1>1, <1>2
<1>4. ASSUME NEW i \in DOMAIN t PROVE Len(s) + i \in DOMAIN st /\ st[Len(s) + i] = t[i]
  <2>1. Len(s) + i \in 1 .. Len(s) + Len(t) /\ ~ (Len(s) + i \leq Len(s)) /\ (Len(s) + i) - Len(s) = i
    BY <1>1, <1>2
  <2> QED
    BY <1>1, <1>2, <2>1
<1> HIDE DEF st
<1>5. All(st) = All(s) \cup All(t)
  BY <1>3, <1>4 DEF All
<1> QED
  BY <1>1, <1>5 DEF st

\* What the lines read so far have, after a further one.
LEMMA LineReads ==
  ASSUME NEW ls \in Seq(LineOf), NEW i \in 1 .. Len(ls), NEW acc, ReadSoFar(ls, i - 1, acc)
  PROVE  ReadSoFar(ls, i, T!Line(acc, ls[i]))
<1> DEFINE l == ls[i]
           chunks == IF acc.current = <<>> THEN acc.chunks ELSE acc.chunks \o acc.current
           current == IF l.kind = "memory" THEN <<l>> ELSE <<>>
<1>1. l \in LineOf /\ acc.chunks \in Seq(LineOf) /\ acc.current \in Seq(LineOf)
  BY DEF ReadSoFar
<1>2. T!Line(acc, l).chunks = chunks /\ T!Line(acc, l).current = current
  BY DEF T!Line
<1>3. chunks \in Seq(LineOf) /\ All(chunks) = All(acc.chunks) \cup All(acc.current)
  <2>1. CASE acc.current = <<>>
    <3>1. All(acc.current) = {}
      BY <2>1 DEF All
    <3> QED
      BY <1>1, <2>1, <3>1
  <2>2. CASE acc.current # <<>>
    BY <1>1, <2>2, AllOfTwo
  <2> QED
    BY <2>1, <2>2
<1>4. current \in Seq(LineOf) /\ All(current) = IF l.kind = "memory" THEN {l} ELSE {}
  <2>1. CASE l.kind = "memory"
    <3>1. DOMAIN <<l>> = {1} /\ <<l>>[1] = l /\ <<l>> \in Seq(LineOf)
      BY <1>1
    <3> QED
      BY <2>1, <3>1 DEF All
  <2>2. CASE l.kind # "memory"
    BY <2>2 DEF All
  <2> QED
    BY <2>1, <2>2
<1>5. {ls[j] : j \in {j \in 1 .. i : ls[j].kind = "memory"}}
      = {ls[j] : j \in {j \in 1 .. i - 1 : ls[j].kind = "memory"}} \cup IF l.kind = "memory" THEN {l} ELSE {}
  <2>1. 1 .. i = (1 .. i - 1) \cup {i}
    OBVIOUS
  <2> HIDE DEF l
  <2>2. l = ls[i]
    BY DEF l
  <2> QED
    BY <2>1, <2>2
<1> HIDE DEF l, chunks, current
<1>6. ReadSoFar(ls, i, T!Line(acc, l))
  BY <1>2, <1>3, <1>4, <1>5 DEF ReadSoFar
<1> QED
  BY <1>6 DEF l

\* The import reads the memories of the file and nothing else.
LEMMA ParsedIs ==
  ASSUME NEW ls \in Seq(LineOf)
  PROVE  T!Parsed(ls) \in Seq(LineOf) /\ All(T!Parsed(ls)) = Memories(ls)
<1> DEFINE n == Len(ls)
           Accs == [chunks : Seq(LineOf), current : Seq(LineOf)]
           none == [chunks |-> <<>>, current |-> <<>>]
           Step(i, a) == T!Line(a, ls[i])
           Is(g) == g = [i \in 0 .. n |-> IF i = 0 THEN none ELSE Step(i, g[i - 1])]
           acc == CHOOSE g : Is(g)
           turn == [i \in 1 .. n |-> [a \in Accs |-> Step(i, a)]]
<1>1. n \in Nat /\ none \in Accs
  OBVIOUS
<1>2. ASSUME NEW i \in 1 .. n, NEW a \in Accs PROVE Step(i, a) \in Accs
  <2>1. ls[i] \in LineOf /\ a.chunks \in Seq(LineOf) /\ a.current \in Seq(LineOf)
    OBVIOUS
  <2>2. a.chunks \o a.current \in Seq(LineOf) /\ <<ls[i]>> \in Seq(LineOf)
    BY <2>1
  <2> QED
    BY <2>1, <2>2 DEF T!Line
<1>3. T!ReadTo(ls) = acc[n]
  BY Zenon DEF T!ReadTo
<1> HIDE DEF n, Accs, none, Step
<1>4. Recursed(Accs, none, n, turn)
  <2>1. turn \in [1 .. n -> [Accs -> Accs]]
    BY <1>2
  <2> HIDE DEF turn
  <2> QED
    BY <1>1, <2>1, Recursion
<1>5. PICK g \in [0 .. n -> Accs] : g[0] = none /\ \A i \in 1 .. n : g[i] = turn[i][g[i - 1]]
  BY <1>4 DEF Recursed
<1>6. Is(g)
  <2>1. ASSUME NEW i \in 1 .. n PROVE g[i] = Step(i, g[i - 1])
    <3>1. g[i - 1] \in Accs
      BY <1>1
    <3> QED
      BY <1>5, <3>1
  <2>2. ASSUME NEW i \in 0 .. n PROVE g[i] = IF i = 0 THEN none ELSE Step(i, g[i - 1])
    <3>1. i = 0 \/ i \in 1 .. n
      BY <1>1
    <3> QED
      BY <1>5, <2>1, <3>1
  <2> HIDE DEF turn
  <2> QED
    BY <2>2
<1>7. Is(acc)
  <2> HIDE DEF Is
  <2> QED
    BY <1>6, Zenon
<1>8. acc[0] = none /\ \A i \in 1 .. n : acc[i] = Step(i, acc[i - 1])
  <2> HIDE DEF acc
  <2> QED
    BY <1>1, <1>7
<1> HIDE DEF acc, Is
<1> DEFINE Good == {i \in 0 .. n : ReadSoFar(ls, i, acc[i])}
<1>9. 0 \in Good
  <2>1. ReadSoFar(ls, 0, none)
    BY DEF ReadSoFar, All, none
  <2> QED
    BY <1>1, <1>8, <2>1
<1>10. \A i \in 1 .. n : i - 1 \in Good => i \in Good
  <2> SUFFICES ASSUME NEW i \in 1 .. n, ReadSoFar(ls, i - 1, acc[i - 1]) PROVE ReadSoFar(ls, i, acc[i])
    BY <1>1
  <2> QED
    BY <1>8, LineReads DEF Step, n
<1>11. ReadSoFar(ls, n, acc[n])
  <2> HIDE DEF Good
  <2>1. \A i \in 0 .. n : i \in Good
    BY <1>1, <1>9, <1>10, Upward
  <2>2. n \in Good
    BY <1>1, <2>1
  <2> QED
    BY <2>2 DEF Good
<1>12. T!Parsed(ls) \in Seq(LineOf) /\ All(T!Parsed(ls)) = All(acc[n].chunks) \cup All(acc[n].current)
  BY <1>3, <1>11, AllOfTwo DEF T!Parsed, ReadSoFar
<1>13. 1 .. n = DOMAIN ls
  BY DEF n
<1> QED
  BY <1>11, <1>12, <1>13 DEF ReadSoFar, Memories

\* An ordering of a finite set has all of it.
LEMMA Orderings ==
  ASSUME NEW Few, IsFiniteSet(Few), NEW n, n = Cardinality(Few), NEW s \in [1 .. n -> Few],
         \A i, j \in 1 .. n : i # j => s[i] # s[j]
  PROVE  n \in Nat /\ s \in Seq(Few) /\ All(s) = Few
<1>1. n \in Nat /\ IsFiniteSet(1 .. n) /\ Cardinality(1 .. n) = n
  BY FS_CardinalityType, FS_Interval
<1>2. s \in Injection(1 .. n, Few)
  BY DEF Injection, IsInjective
<1>3. s \in Surjection(1 .. n, Few)
  BY <1>1, <1>2, FS_Injection
<1>4. \A x \in Few : \E i \in 1 .. n : s[i] = x
  BY <1>3 DEF Surjection
<1>5. s \in Seq(Few)
  BY <1>1
<1> QED
  BY <1>1, <1>4, <1>5 DEF All

\* A collection that the export has passed, and read.
Passed(t) == t \notin missed /\ \E j \in DOMAIN TierOrder : TierOrder[j] = t /\ j < nextTier
SectionOf(p) == T!Section(p[1], p[2])

Shown == throughout \subseteq T!Having("shown") /\ oldBefore \subseteq T!Having("old")
WrittenDown == \A p \in throughout : Passed(p[1]) => SectionOf(p) \in All(lines)
Brought ==
  exporting \in {"importing", "imported"} =>
    \A p \in throughout : p[1] \notin missed /\ p[2] \notin skipped
                            => T!Given(p[1], p[2]) \/ SectionOf(p) \in All(sections)
OwnKept == \A t \in T!Tiers, x \in Texts : had[t][x] = "shown" => T!Given(t, x)
Hidden ==
  ~ withOld => \A p \in oldBefore : /\ SectionOf(p) \notin All(lines)
                                    /\ away[p[1]][p[2]] # "none" => had[p[1]][p[2]] # "none"
InOrder ==
  /\ All(sections) \subseteq All(lines)
  /\ exporting = "no" => lines = <<>> /\ nextTier = 1
  /\ exporting \in {"no", "reading", "done"} =>
       sections = <<>> /\ \A t \in T!Tiers, x \in Texts : away[t][x] = "none" /\ had[t][x] = "none"
  /\ exporting \in {"done", "importing", "imported"} => nextTier = Len(TierOrder) + 1
  /\ exporting = "imported" => sections = <<>>

TransferInv ==
  /\ T!TransferTypeOK /\ lines \in Seq(LineOf) /\ sections \in Seq(LineOf)
  /\ Shown /\ WrittenDown /\ Brought /\ OwnKept /\ Hidden /\ InOrder

\* What it is to be shown, or to have given way.
LEMMA GivenIs ==
  \A t, x : T!Given(t, x) <=>
    \/ away[t][x] = "shown"
    \/ away[t][x] = "old" /\ \E y \in Texts \ {x} : {x, y} \in Alike /\ T!Section(t, y) \in All(lines)
BY DEF T!Given, T!Range, All

\* A line of a file is of a tier; a memory's is of a memory.
LEMMA LinesAre ==
  ASSUME NEW s \in Seq(LineOf)
  PROVE  /\ \A i \in DOMAIN s : s[i] \in LineOf /\ s[i].tier \in T!Tiers
         /\ \A i \in DOMAIN s : s[i].kind = "memory" => s[i].text \in Texts /\ s[i] = T!Section(s[i].tier, s[i].text)
<1>1. \A l \in LineOf : /\ l.tier \in T!Tiers
                        /\ l.kind = "memory" => l.text \in Texts /\ l = T!Section(l.tier, l.text)
  <2> SUFFICES ASSUME NEW l \in LineOf
               PROVE  /\ l.tier \in T!Tiers
                      /\ l.kind = "memory" => l.text \in Texts /\ l = T!Section(l.tier, l.text)
    OBVIOUS
  <2>1. CASE \E t \in T!Tiers : l = T!Heading(t)
    <3>1. PICK t \in T!Tiers : l = T!Heading(t)
      BY <2>1
    <3>2. l.kind = "tier" /\ l.tier = t /\ "tier" # "memory"
      BY <3>1 DEF T!Heading
    <3> QED
      BY <3>2
  <2>2. CASE \E t \in T!Tiers, x \in Texts : l = T!Section(t, x)
    BY <2>2 DEF T!Section
  <2> QED
    BY <2>1, <2>2 DEF LineOf
<1> QED
  BY <1>1

\* The invariant holds in the first states.
LEMMA TransferStart == T!TransferInit => TransferInv
<1> SUFFICES ASSUME T!TransferInit PROVE TransferInv
  OBVIOUS
<1>1. T!TransferTypeOK
  BY TransferAssumption DEF T!TransferInit, T!TransferTypeOK, T!Brains
<1>2. /\ lines = <<>> /\ sections = <<>> /\ lines \in Seq(LineOf) /\ sections \in Seq(LineOf) /\ exporting = "no"
      /\ throughout = {} /\ oldBefore = {} /\ nextTier = 1
      /\ \A t \in T!Tiers, x \in Texts : away[t][x] = "none" /\ had[t][x] = "none"
  BY DEF T!TransferInit
<1>3. Shown /\ WrittenDown /\ Brought /\ OwnKept /\ Hidden /\ InOrder
  BY <1>2 DEF Shown, WrittenDown, Brought, OwnKept, Hidden, InOrder
<1> QED
  BY <1>1, <1>2, <1>3 DEF TransferInv

\* Tell keeps the invariant.
LEMMA TellKeeps == TransferInv /\ T!Tell => TransferInv'
<1> SUFFICES ASSUME TransferInv, T!Tell PROVE TransferInv'
  OBVIOUS
<1>1. UNCHANGED <<away, had, withOld, exporting, nextTier, lines, sections, skipped, missed, trouble>>
  BY DEF T!Tell
<1>2. tells' \in 0 .. MaxTells
  BY TransferAssumption DEF TransferInv, T!TransferTypeOK, T!Tell
<1>3. PICK t \in T!Tiers, x \in Texts :
        /\ \E w \in {"none", "shown", "old"} \ {home[t][x]} :
             /\ home[t][x] = "none" => w = "shown"
             /\ home[t][x] = "old" => w = "none"
             /\ home' = [home EXCEPT ![t][x] = w]
        /\ throughout' = throughout \ {<<t, x>>} /\ oldBefore' = oldBefore \ {<<t, x>>}
  BY DEF T!Tell
<1>4. PICK w \in {"none", "shown", "old"} : home' = [home EXCEPT ![t][x] = w]
  BY <1>3
<1>5. home \in [T!Tiers -> [Texts -> {"none", "shown", "old"}]]
      /\ throughout \subseteq T!Tiers \X Texts /\ oldBefore \subseteq T!Tiers \X Texts
  BY DEF TransferInv, T!TransferTypeOK, T!Brains
<1>6. home' \in [T!Tiers -> [Texts -> {"none", "shown", "old"}]]
  BY <1>4, <1>5
<1>7. \A p \in T!Tiers \X Texts : p # <<t, x>> => home'[p[1]][p[2]] = home[p[1]][p[2]]
  <2> SUFFICES ASSUME NEW u \in T!Tiers, NEW y \in Texts, <<u, y>> # <<t, x>>
               PROVE  home'[u][y] = home[u][y]
    OBVIOUS
  <2> QED
    BY <1>4, <1>5
<1>8. throughout' \subseteq throughout /\ oldBefore' \subseteq oldBefore
  BY <1>3
<1>9. T!TransferTypeOK'
  BY <1>1, <1>2, <1>5, <1>6, <1>8 DEF TransferInv, T!TransferTypeOK, T!Brains
<1>10. Shown'
  BY <1>3, <1>5, <1>7 DEF TransferInv, Shown, T!Having
<1>11. \A s : Passed(s)' = Passed(s)
  BY <1>1 DEF Passed
<1>12. WrittenDown' /\ Brought' /\ OwnKept' /\ Hidden' /\ InOrder'
  BY <1>1, <1>8, <1>11 DEF TransferInv, WrittenDown, Brought, OwnKept, Hidden, InOrder, T!Given
<1> QED
  BY <1>1, <1>9, <1>10, <1>12 DEF TransferInv

\* StartExport keeps the invariant.
LEMMA StartExportKeeps == TransferInv /\ T!StartExport => TransferInv'
<1> SUFFICES ASSUME TransferInv, T!StartExport PROVE TransferInv'
  OBVIOUS
<1>1. UNCHANGED <<home, away, had, withOld, nextTier, lines, sections, skipped, missed, tells, trouble>>
      /\ exporting = "no" /\ exporting' = "reading"
      /\ throughout' = T!Having("shown") /\ oldBefore' = T!Having("old")
  BY DEF T!StartExport
<1>2. T!TransferTypeOK'
  BY <1>1 DEF TransferInv, T!TransferTypeOK, T!Having
<1>3. Shown'
  BY <1>1 DEF Shown, T!Having
<1>4. /\ lines = <<>> /\ sections = <<>> /\ nextTier = 1
      /\ \A t \in T!Tiers, x \in Texts : away[t][x] = "none" /\ had[t][x] = "none"
  BY <1>1 DEF TransferInv, InOrder
<1>5. \A s : ~ Passed(s)'
  BY <1>1, <1>4, TransferAssumption DEF Passed
<1>6. oldBefore' \subseteq T!Tiers \X Texts
  BY <1>1 DEF T!Having
<1>7. WrittenDown' /\ Brought' /\ OwnKept' /\ Hidden' /\ InOrder'
  BY <1>1, <1>4, <1>5, <1>6 DEF WrittenDown, Brought, OwnKept, Hidden, InOrder, All
<1> QED
  BY <1>1, <1>2, <1>3, <1>7 DEF TransferInv

\* What one collection adds to the file.
LEMMA Exported ==
  ASSUME TransferInv, NEW t \in T!Tiers, NEW Few \in SUBSET Texts, NEW s \in T!SetToSeqs(Few),
         NEW new, new = Append(lines, T!Heading(t)) \o [i \in DOMAIN s |-> T!Section(t, s[i])]
  PROVE  /\ new \in Seq(LineOf)
         /\ All(new) = All(lines) \cup {T!Heading(t)} \cup {T!Section(t, x) : x \in Few}
<1> DEFINE n == Cardinality(Few)
           more == [i \in DOMAIN s |-> T!Section(t, s[i])]
<1>1. IsFiniteSet(Few)
  BY FS_Subset, TransferAssumption
<1>2. s \in [1 .. n -> Few] /\ \A i, j \in 1 .. n : i # j => s[i] # s[j]
  BY Zenon DEF T!SetToSeqs, T!Cardinality, Cardinality
<1> HIDE DEF n
<1>3. n \in Nat /\ s \in Seq(Few) /\ All(s) = Few
  BY <1>1, <1>2, Orderings DEF n
<1>4. \A x \in Few : T!Section(t, x) \in LineOf
  BY DEF LineOf
<1>5. more \in Seq(LineOf)
  <2>1. more = [i \in 1 .. n |-> T!Section(t, s[i])]
    BY <1>2
  <2> QED
    BY <1>2, <1>3, <1>4, <2>1
<1>6. All(more) = {T!Section(t, x) : x \in Few}
  BY <1>3 DEF All
<1>7. T!Heading(t) \in LineOf /\ lines \in Seq(LineOf)
  BY DEF LineOf, TransferInv
<1> DEFINE h == T!Heading(t)
           one == <<h>>
<1>8. Append(lines, h) = lines \o one
  <2> HIDE DEF h
  <2> QED
    BY <1>7
<1>9. one \in Seq(LineOf) /\ All(one) = {h}
  <2> HIDE DEF h
  <2>1. DOMAIN one = {1} /\ one[1] = h
    OBVIOUS
  <2>2. All(one) = {h}
    BY <2>1 DEF All
  <2> QED
    BY <1>7, <2>2 DEF h
<1> HIDE DEF more, one, h
<1>10. lines \o one \in Seq(LineOf) /\ All(lines \o one) = All(lines) \cup {h}
  BY <1>7, <1>9, AllOfTwo
<1> DEFINE so == lines \o one
<1>11. so \o more \in Seq(LineOf) /\ All(so \o more) = All(so) \cup All(more) /\ All(so) = All(lines) \cup {h}
  <2>1. so \in Seq(LineOf) /\ All(so) = All(lines) \cup {h}
    BY <1>10
  <2> HIDE DEF so
  <2> QED
    BY <1>5, <2>1, AllOfTwo
<1> QED
  BY <1>6, <1>8, <1>11 DEF more, h

\* ExportTier keeps the invariant.
LEMMA ExportTierKeeps == TransferInv /\ T!ExportTier => TransferInv'
<1> SUFFICES ASSUME TransferInv, T!ExportTier PROVE TransferInv'
  OBVIOUS
<1> DEFINE t == TierOrder[nextTier]
           Few == {x \in Texts : home[t][x] = "shown" \/ (withOld /\ home[t][x] = "old")}
<1>1. /\ exporting = "reading" /\ nextTier \leq Len(TierOrder) /\ nextTier' = nextTier + 1
      /\ UNCHANGED <<home, away, had, withOld, exporting, sections, skipped, throughout, oldBefore, tells>>
      /\ sections = <<>> /\ \A u \in T!Tiers, x \in Texts : had[u][x] = "none"
  BY DEF T!ExportTier, TransferInv, InOrder
<1>2. \/ {x \in Texts : home[t][x] # "none"} = {} /\ UNCHANGED <<lines, missed, trouble>>
      \/ /\ \E s \in T!SetToSeqs(Few) :
              lines' = Append(lines, T!Heading(t)) \o [i \in DOMAIN s |-> T!Section(t, s[i])]
         /\ UNCHANGED <<missed, trouble>>
      \/ T!Troubled /\ missed' = missed \cup {t} /\ UNCHANGED lines
  BY Zenon DEF T!ExportTier
<1>3. nextTier \in DOMAIN TierOrder /\ nextTier \in Nat /\ nextTier' \in 1 .. Len(TierOrder) + 1 /\ t \in T!Tiers
  BY <1>1, TransferAssumption DEF TransferInv, T!TransferTypeOK, T!Tiers
<1>4. trouble' \in 0 .. MaxTrouble
  BY <1>2, TransferAssumption DEF T!Troubled, TransferInv, T!TransferTypeOK
<1>5. \A p \in throughout : p[1] = t => p[2] \in Few /\ p[2] \in Texts
  BY DEF TransferInv, Shown, T!Having
<1>6. ~ withOld => \A p \in oldBefore : p[1] = t => p[2] \notin Few
  BY DEF TransferInv, Shown, T!Having
<1>7. Few \in SUBSET Texts
  OBVIOUS
<1>8. CASE T!Troubled /\ missed' = missed \cup {t} /\ UNCHANGED lines
  <2>1. \A u : Passed(u)' => Passed(u)
    <3> SUFFICES ASSUME NEW u, Passed(u)' PROVE Passed(u)
      OBVIOUS
    <3>1. u \notin missed /\ u # t
      BY <1>8 DEF Passed
    <3>2. PICK j \in DOMAIN TierOrder : TierOrder[j] = u /\ j < nextTier + 1
      BY <1>1 DEF Passed
    <3>3. j # nextTier
      BY <3>1, <3>2
    <3>4. j \in Nat
      BY TransferAssumption
    <3> QED
      BY <1>3, <3>1, <3>2, <3>3, <3>4 DEF Passed
  <2> HIDE DEF t, Few
  <2>2. T!TransferTypeOK'
    BY <1>1, <1>3, <1>4, <1>8 DEF TransferInv, T!TransferTypeOK
  <2>3. Shown' /\ WrittenDown' /\ Brought' /\ OwnKept' /\ Hidden' /\ InOrder'
    BY <1>1, <1>8, <2>1 DEF TransferInv, Shown, T!Having, WrittenDown, Brought, OwnKept, Hidden, InOrder
  <2> QED
    BY <1>1, <1>8, <2>2, <2>3 DEF TransferInv
<1>9. CASE {x \in Texts : home[t][x] # "none"} = {} /\ UNCHANGED <<lines, missed, trouble>>
  <2>1. \A p \in throughout : p[1] # t
    BY <1>5, <1>9
  <2>2. \A u : Passed(u)' => Passed(u) \/ u = t
    <3> HIDE DEF Few
    <3> SUFFICES ASSUME NEW u, Passed(u)', u # t PROVE Passed(u)
      OBVIOUS
    <3>1. PICK j \in DOMAIN TierOrder : TierOrder[j] = u /\ j < nextTier + 1
      BY <1>1 DEF Passed
    <3>2. j # nextTier /\ j \in Nat
      BY <3>1, TransferAssumption
    <3> QED
      BY <1>3, <1>9, <3>1, <3>2 DEF Passed
  <2> HIDE DEF t, Few
  <2>3. T!TransferTypeOK'
    BY <1>1, <1>3, <1>9 DEF TransferInv, T!TransferTypeOK
  <2>4. Shown' /\ WrittenDown' /\ Brought' /\ OwnKept' /\ Hidden' /\ InOrder'
    BY <1>1, <1>9, <2>1, <2>2 DEF TransferInv, Shown, T!Having, WrittenDown, Brought, OwnKept, Hidden, InOrder
  <2> QED
    BY <1>1, <1>9, <2>3, <2>4 DEF TransferInv
<1>10. CASE /\ \E s \in T!SetToSeqs(Few) :
                 lines' = Append(lines, T!Heading(t)) \o [i \in DOMAIN s |-> T!Section(t, s[i])]
            /\ UNCHANGED <<missed, trouble>>
  <2>1. \A u : Passed(u)' => Passed(u) \/ u = t
    <3> HIDE DEF Few
    <3> SUFFICES ASSUME NEW u, Passed(u)', u # t PROVE Passed(u)
      OBVIOUS
    <3>1. PICK j \in DOMAIN TierOrder : TierOrder[j] = u /\ j < nextTier + 1
      BY <1>1 DEF Passed
    <3>2. j # nextTier /\ j \in Nat
      BY <3>1, TransferAssumption
    <3> QED
      BY <1>3, <1>10, <3>1, <3>2 DEF Passed
  <2> HIDE DEF t, Few
  <2>2. PICK s \in T!SetToSeqs(Few) :
          lines' = Append(lines, T!Heading(t)) \o [i \in DOMAIN s |-> T!Section(t, s[i])]
    BY <1>10
  <2>3. /\ lines' \in Seq(LineOf)
        /\ All(lines') = All(lines) \cup {T!Heading(t)} \cup {T!Section(t, x) : x \in Few}
    BY <1>3, <1>7, <2>2, Exported
  <2>4. T!TransferTypeOK'
    <3>1. \A i \in DOMAIN lines' : lines'[i].tier \in T!Tiers
      BY <2>3, LinesAre
    <3> QED
      BY <1>1, <1>3, <1>10, <3>1 DEF TransferInv, T!TransferTypeOK
  <2>5. WrittenDown'
    <3> SUFFICES ASSUME NEW p \in throughout', Passed(p[1])' PROVE SectionOf(p) \in All(lines')
      BY DEF WrittenDown, SectionOf, T!Section
    <3>1. CASE Passed(p[1])
      BY <1>1, <2>3, <3>1 DEF TransferInv, WrittenDown
    <3>2. CASE p[1] = t
      BY <1>1, <1>5, <2>3, <3>2 DEF SectionOf
    <3> QED
      BY <2>1, <3>1, <3>2
  <2>6. Hidden'
    <3> SUFFICES ASSUME ~ withOld, NEW p \in oldBefore PROVE SectionOf(p) \notin All(lines')
      BY <1>1 DEF TransferInv, Hidden, SectionOf, T!Section
    <3>1. SectionOf(p) \notin All(lines)
      BY DEF TransferInv, Hidden
    <3>2. SectionOf(p) # T!Heading(t)
      BY DEF SectionOf, T!Section, T!Heading
    <3>3. \A x \in Few : SectionOf(p) # T!Section(t, x)
      BY <1>6 DEF SectionOf, T!Section
    <3> QED
      BY <2>3, <3>1, <3>2, <3>3
  <2>7. Shown' /\ Brought' /\ OwnKept' /\ InOrder'
    <3>1. All(sections') = {}
      BY <1>1 DEF All
    <3> QED
      BY <1>1, <1>10, <3>1 DEF TransferInv, Shown, T!Having, Brought, OwnKept, InOrder
  <2> QED
    BY <1>1, <2>3, <2>4, <2>5, <2>6, <2>7 DEF TransferInv
<1> HIDE DEF t, Few
<1> QED
  BY <1>2, <1>8, <1>9, <1>10

\* FinishExport keeps the invariant.
LEMMA FinishExportKeeps == TransferInv /\ T!FinishExport => TransferInv'
<1> SUFFICES ASSUME TransferInv, T!FinishExport PROVE TransferInv'
  OBVIOUS
<1>1. /\ UNCHANGED <<home, away, had, withOld, nextTier, lines, sections, skipped, missed, throughout,
                     oldBefore, tells, trouble>>
      /\ exporting = "reading" /\ exporting' = "done" /\ nextTier > Len(TierOrder)
  BY DEF T!FinishExport
<1>2. nextTier = Len(TierOrder) + 1
  BY <1>1, TransferAssumption DEF TransferInv, T!TransferTypeOK
<1>3. T!TransferTypeOK'
  BY <1>1 DEF TransferInv, T!TransferTypeOK
<1>4. Shown' /\ WrittenDown' /\ Brought' /\ OwnKept' /\ Hidden' /\ InOrder'
  BY <1>1, <1>2 DEF TransferInv, Shown, T!Having, WrittenDown, Passed, Brought, OwnKept, Hidden, InOrder
<1> QED
  BY <1>1, <1>3, <1>4 DEF TransferInv

\* ReadFile keeps the invariant.
LEMMA ReadFileKeeps == TransferInv /\ T!ReadFile => TransferInv'
<1> SUFFICES ASSUME TransferInv, T!ReadFile PROVE TransferInv'
  OBVIOUS
<1>1. /\ UNCHANGED <<home, withOld, nextTier, lines, skipped, missed, throughout, oldBefore, tells, trouble>>
      /\ exporting = "done" /\ exporting' = "importing" /\ sections' = T!Parsed(lines)
      /\ away' \in T!Brains /\ had' = away'
  BY DEF T!ReadFile
<1>2. sections' \in Seq(LineOf) /\ All(sections') = Memories(lines)
  BY <1>1, ParsedIs DEF TransferInv
<1>3. \A i \in DOMAIN sections' : sections'[i].kind = "memory"
  <2>1. \A l \in Memories(lines) : l.kind = "memory"
    BY DEF Memories
  <2> QED
    BY <1>2, <2>1 DEF All
<1>4. T!TransferTypeOK'
  BY <1>1, <1>3 DEF TransferInv, T!TransferTypeOK
<1>5. \A t \in T!Tiers : t \notin missed => Passed(t)
  BY <1>1, TransferAssumption DEF TransferInv, InOrder, Passed, T!Tiers
<1>6. \A l \in All(lines) : l.kind = "memory" => l \in Memories(lines)
  BY DEF All, Memories
<1>7. Memories(lines) \subseteq All(lines)
  BY DEF All, Memories
<1>8. Brought'
  <2> SUFFICES ASSUME NEW p \in throughout, p[1] \notin missed PROVE SectionOf(p) \in All(sections')
    BY <1>1 DEF Brought, SectionOf, T!Section
  <2>1. p[1] \in T!Tiers
    BY DEF TransferInv, T!TransferTypeOK
  <2>2. SectionOf(p) \in All(lines) /\ SectionOf(p).kind = "memory"
    BY <1>5, <2>1 DEF TransferInv, WrittenDown, SectionOf, T!Section
  <2> QED
    BY <1>2, <1>6, <2>2
<1>9. Hidden' /\ OwnKept'
  BY <1>1 DEF TransferInv, Hidden, OwnKept, T!Given, SectionOf, T!Section
<1>10. Shown' /\ WrittenDown' /\ InOrder'
  BY <1>1, <1>2, <1>7 DEF TransferInv, Shown, T!Having, WrittenDown, Passed, InOrder, All
<1> QED
  BY <1>1, <1>2, <1>4, <1>8, <1>9, <1>10 DEF TransferInv

\* ImportSection keeps the invariant.
LEMMA ImportSectionKeeps == TransferInv /\ T!ImportSection => TransferInv'
<1> SUFFICES ASSUME TransferInv, T!ImportSection PROVE TransferInv'
  OBVIOUS
<1> DEFINE s == Head(sections)
           new == away[s.tier][s.text] = "none"
<1>1. /\ UNCHANGED <<home, had, withOld, exporting, nextTier, lines, missed, throughout, oldBefore, tells>>
      /\ exporting = "importing" /\ sections # <<>> /\ sections' = Tail(sections)
  BY DEF T!ImportSection
<1>0. PICK now \in T!Superseding(s.tier, s.text) :
        \/ /\ away' = IF new THEN [now EXCEPT ![s.tier][s.text] = "shown"] ELSE now
           /\ skipped' = IF new THEN skipped ELSE skipped \cup {s.text}
           /\ UNCHANGED trouble
        \/ T!Troubled /\ skipped' = skipped \cup {s.text} /\ away' = now
  BY DEF T!ImportSection
<1>2. sections \in Seq(LineOf) /\ \A i \in DOMAIN sections : sections[i].kind = "memory"
  BY DEF TransferInv, T!TransferTypeOK
<1>3. /\ sections' \in Seq(LineOf) /\ All(sections) = All(sections') \cup {s}
      /\ \A i \in DOMAIN sections' : sections'[i].kind = "memory"
      /\ 1 \in DOMAIN sections /\ s = sections[1]
  <2>1. /\ 1 \in DOMAIN sections /\ s = sections[1] /\ DOMAIN sections = 1 .. Len(sections) /\ Len(sections) \in Nat
        /\ sections' \in Seq(LineOf) /\ DOMAIN sections' = 1 .. Len(sections) - 1
        /\ \A i \in 1 .. Len(sections) - 1 : sections'[i] = sections[i + 1]
    BY <1>1, <1>2
  <2>2. \A i \in DOMAIN sections' : i + 1 \in DOMAIN sections /\ sections'[i] = sections[i + 1]
    BY <2>1
  <2>3. \A i \in DOMAIN sections : i = 1 \/ (i - 1 \in DOMAIN sections' /\ sections'[i - 1] = sections[i])
    BY <2>1
  <2> HIDE DEF s
  <2>4. All(sections') \subseteq All(sections) /\ s \in All(sections)
    BY <2>1, <2>2 DEF All
  <2>5. All(sections) \subseteq All(sections') \cup {s}
    BY <2>1, <2>3 DEF All
  <2> QED
    BY <1>2, <2>1, <2>2, <2>4, <2>5
<1>4. s.kind = "memory" /\ s.tier \in T!Tiers /\ s.text \in Texts /\ s = T!Section(s.tier, s.text)
  BY <1>2, <1>3, LinesAre
<1> HIDE DEF s
<1>5. \A p \in T!Tiers \X Texts : SectionOf(p) = s <=> p[1] = s.tier /\ p[2] = s.text
  BY <1>4 DEF SectionOf, T!Section
<1>6. throughout \subseteq T!Tiers \X Texts /\ oldBefore \subseteq T!Tiers \X Texts
      /\ away \in [T!Tiers -> [Texts -> {"none", "shown", "old"}]]
  BY DEF TransferInv, T!TransferTypeOK, T!Brains
<1>7. /\ now \in [T!Tiers -> [Texts -> {"none", "shown", "old"}]]
      /\ \A t \in T!Tiers, y \in Texts :
           \/ now[t][y] = away[t][y]
           \/ t = s.tier /\ y # s.text /\ {s.text, y} \in Alike /\ away[t][y] = "shown" /\ now[t][y] = "old"
  <2>1. CASE now = away
    BY <1>6, <2>1
  <2>2. CASE \E y \in Texts \ {s.text} : /\ {s.text, y} \in Alike /\ away[s.tier][y] = "shown"
                                         /\ now = [away EXCEPT ![s.tier][y] = "old"]
    <3>1. PICK y \in Texts \ {s.text} : /\ {s.text, y} \in Alike /\ away[s.tier][y] = "shown"
                                        /\ now = [away EXCEPT ![s.tier][y] = "old"]
      BY <2>2
    <3> QED
      BY <1>4, <1>6, <3>1
  <2> QED
    BY <2>1, <2>2 DEF T!Superseding
<1>8. /\ away' \in [T!Tiers -> [Texts -> {"none", "shown", "old"}]]
      /\ \A t \in T!Tiers, y \in Texts :
           \/ away'[t][y] = now[t][y]
           \/ t = s.tier /\ y = s.text /\ away[t][y] = "none" /\ away'[t][y] = "shown"
      /\ s.text \in skipped' \/ away'[s.tier][s.text] = "shown"
      /\ skipped \subseteq skipped' /\ skipped' \subseteq skipped \cup {s.text}
  <2>1. CASE away' = now
    BY <1>0, <1>4, <1>6, <1>7, <2>1
  <2>2. CASE /\ new /\ away' = [now EXCEPT ![s.tier][s.text] = "shown"]
    BY <1>0, <1>4, <1>6, <1>7, <2>2
  <2> QED
    BY <1>0, <2>1, <2>2
<1> HIDE DEF new
<1>9. T!TransferTypeOK'
  <2>1. trouble' \in 0 .. MaxTrouble
    BY <1>0, TransferAssumption DEF TransferInv, T!TransferTypeOK, T!Troubled
  <2>2. skipped' \subseteq Texts
    BY <1>4, <1>8 DEF TransferInv, T!TransferTypeOK
  <2> QED
    BY <1>1, <1>3, <1>8, <2>1, <2>2 DEF TransferInv, T!TransferTypeOK, T!Brains
<1>10. ASSUME NEW t \in T!Tiers, NEW x \in Texts, T!Given(t, x) PROVE T!Given(t, x)'
  <2>1. s \in All(lines)
    BY <1>3 DEF TransferInv, InOrder
  <2>2. CASE away'[t][x] = away[t][x]
    BY <1>1, <1>10, <2>2 DEF T!Given
  <2>3. CASE away'[t][x] = "shown"
    BY <2>3 DEF T!Given
  <2>4. CASE /\ t = s.tier /\ x # s.text /\ {s.text, x} \in Alike /\ away'[t][x] = "old"
    <3>1. s.text \in Texts \ {x} /\ {x, s.text} = {s.text, x} /\ T!Section(t, s.text) = s
      BY <1>4, <2>4
    <3>2. T!Section(t, s.text) \in T!Range(lines')
      BY <1>1, <2>1, <3>1 DEF All, T!Range
    <3> QED
      BY <2>4, <3>1, <3>2 DEF T!Given
  <2>5. \/ now[t][x] = away[t][x]
        \/ t = s.tier /\ x # s.text /\ {s.text, x} \in Alike /\ now[t][x] = "old"
    BY <1>7
  <2>6. away'[t][x] = now[t][x] \/ away'[t][x] = "shown"
    BY <1>8
  <2> QED
    BY <2>2, <2>3, <2>4, <2>5, <2>6
<1>11. Brought'
  <2> SUFFICES ASSUME NEW p \in throughout, p[1] \notin missed, p[2] \notin skipped'
               PROVE  T!Given(p[1], p[2])' \/ SectionOf(p) \in All(sections')
    BY <1>1 DEF Brought, SectionOf, T!Section
  <2>1. T!Given(p[1], p[2]) \/ SectionOf(p) \in All(sections)
    BY <1>1, <1>8 DEF TransferInv, Brought
  <2>2. p \in T!Tiers \X Texts /\ p[1] \in T!Tiers /\ p[2] \in Texts
    BY <1>6
  <2>3. CASE SectionOf(p) = s
    <3>1. away'[p[1]][p[2]] = "shown"
      BY <1>5, <1>8, <2>2, <2>3
    <3> QED
      BY <3>1 DEF T!Given
  <2> QED
    BY <1>3, <1>10, <2>1, <2>2, <2>3
<1>12. Hidden'
  <2> SUFFICES ASSUME ~ withOld, NEW p \in oldBefore
               PROVE  /\ SectionOf(p) \notin All(lines)
                      /\ away'[p[1]][p[2]] # "none" => had[p[1]][p[2]] # "none"
    BY <1>1 DEF Hidden, SectionOf, T!Section
  <2>1. SectionOf(p) \notin All(lines) /\ (away[p[1]][p[2]] # "none" => had[p[1]][p[2]] # "none")
    BY DEF TransferInv, Hidden
  <2>2. p \in T!Tiers \X Texts /\ p[1] \in T!Tiers /\ p[2] \in Texts
    BY <1>6
  <2>3. SectionOf(p) # s
    BY <1>3, <2>1 DEF TransferInv, InOrder
  <2>4. ~ (p[1] = s.tier /\ p[2] = s.text)
    BY <1>5, <2>2, <2>3
  <2>5. now[p[1]][p[2]] = away[p[1]][p[2]] \/ away[p[1]][p[2]] = "shown"
    BY <1>7, <2>2
  <2>6. away'[p[1]][p[2]] = now[p[1]][p[2]]
    BY <1>8, <2>2, <2>4
  <2> QED
    BY <2>1, <2>5, <2>6
<1>13. OwnKept'
  BY <1>1, <1>10 DEF TransferInv, OwnKept
<1>14. Shown' /\ WrittenDown' /\ InOrder'
  BY <1>1, <1>3 DEF TransferInv, Shown, T!Having, WrittenDown, Passed, InOrder
<1> QED
  BY <1>1, <1>3, <1>9, <1>11, <1>12, <1>13, <1>14 DEF TransferInv

\* FinishImport keeps the invariant.
LEMMA FinishImportKeeps == TransferInv /\ T!FinishImport => TransferInv'
<1> SUFFICES ASSUME TransferInv, T!FinishImport PROVE TransferInv'
  OBVIOUS
<1>1. /\ UNCHANGED <<home, away, had, withOld, nextTier, lines, sections, skipped, missed, throughout,
                     oldBefore, tells, trouble>>
      /\ exporting = "importing" /\ exporting' = "imported" /\ sections = <<>>
  BY DEF T!FinishImport
<1>2. T!TransferTypeOK'
  BY <1>1 DEF TransferInv, T!TransferTypeOK
<1>3. Shown' /\ WrittenDown' /\ Brought' /\ OwnKept' /\ Hidden' /\ InOrder'
  BY <1>1 DEF TransferInv, Shown, T!Having, WrittenDown, Passed, Brought, OwnKept, Hidden, InOrder, T!Given
<1> QED
  BY <1>1, <1>2, <1>3 DEF TransferInv

\* Every step keeps it.
LEMMA TransferStep == TransferInv /\ T!TransferNext => TransferInv'
BY TellKeeps, StartExportKeeps, ExportTierKeeps, FinishExportKeeps, ReadFileKeeps, ImportSectionKeeps,
   FinishImportKeeps DEF T!TransferNext

\* A step that leaves these variables alone keeps it.
LEMMA TransferStutter == TransferInv /\ UNCHANGED transferVars => TransferInv'
<1> SUFFICES ASSUME TransferInv, UNCHANGED transferVars PROVE TransferInv'
  OBVIOUS
<1>1. UNCHANGED <<home, away, had, withOld, exporting, nextTier, lines, sections, skipped, missed,
                  throughout, oldBefore, tells, trouble>>
  BY DEF transferVars
<1>2. T!TransferTypeOK'
  BY <1>1 DEF TransferInv, T!TransferTypeOK
<1>3. Shown' /\ WrittenDown' /\ Brought' /\ OwnKept' /\ Hidden' /\ InOrder'
  BY <1>1 DEF TransferInv, Shown, T!Having, WrittenDown, Passed, Brought, OwnKept, Hidden, InOrder, T!Given
<1> QED
  BY <1>1, <1>2, <1>3 DEF TransferInv

\* It holds in every behaviour.
LEMMA TransferAlways == Spec => []TransferInv
<1>1. Init => TransferInv
  BY TransferStart DEF Init
<1>2. TransferInv /\ [Next]_<<part, blockVars, graphVars, skillVars, archiveVars,
                              transferVars, chainVars, mirrorVars>> => TransferInv'
  BY TransferStep, TransferStutter DEF Next
<1> QED
  BY <1>1, <1>2, PTL DEF Spec

\* What the invariant says of an import, one that has ended too.
LEMMA TransferRounds == TransferInv => T!RoundTrip
<1> SUFFICES ASSUME TransferInv PROVE T!RoundTrip
  OBVIOUS
<1>1. exporting = "imported" => All(sections) = {}
  BY DEF TransferInv, InOrder, All
<1> QED
  BY <1>1 DEF TransferInv, Brought, OwnKept, Hidden, T!RoundTrip

\* However the exported brain is changed meanwhile, and whatever fails, the brain
\* that imports the file has what was shown all the time of the export but for
\* what was reported or could not be read; it shows that, and what it showed
\* before, unless a near duplicate from the file has superseded it
\* (memory.py:390); and without being asked it gets nothing that was superseded
\* all the time (mcp_server.py:2026).
THEOREM RoundTripAlways == Spec => [](part = "transfer" => T!RoundTrip)
<1>1. TransferInv => (part = "transfer" => T!RoundTrip)
  BY TransferRounds
<1> QED
  BY <1>1, TransferAlways, PTL

-----------------------------------------------------------------------------
(* Files written for agents: what the functions on lists compute.           *)

Sums(s, f) ==
  /\ f \in [0 .. Len(s) -> Nat] /\ f[0] = 0 /\ \A i \in 1 .. Len(s) : f[i] = f[i - 1] + LengthOf[s[i]]
  /\ M!Total(s) = f[Len(s)]

\* The total of a list is counted entry by entry.
LEMMA TotalIs == ASSUME NEW s \in Seq(Entries) PROVE \E f : Sums(s, f)
<1> DEFINE n == Len(s)
           Next1(i, a) == a + LengthOf[s[i]]
           Is(g) == g = [i \in 0 .. n |-> IF i = 0 THEN 0 ELSE Next1(i, g[i - 1])]
           acc == CHOOSE g : Is(g)
           turn == [i \in 1 .. n |-> [a \in Nat |-> Next1(i, a)]]
<1>1. n \in Nat
  OBVIOUS
<1>2. ASSUME NEW i \in 1 .. n, NEW a \in Nat PROVE Next1(i, a) \in Nat
  <2>1. s[i] \in Entries /\ LengthOf[s[i]] \in Nat
    BY MirrorAssumption
  <2> QED
    BY <2>1
<1>3. M!Total(s) = acc[n]
  BY Zenon DEF M!Total
<1> HIDE DEF n, Next1
<1>4. Recursed(Nat, 0, n, turn)
  <2>1. turn \in [1 .. n -> [Nat -> Nat]]
    BY <1>2
  <2> HIDE DEF turn
  <2> QED
    BY <1>1, <2>1, Recursion
<1>5. PICK g \in [0 .. n -> Nat] : g[0] = 0 /\ \A i \in 1 .. n : g[i] = turn[i][g[i - 1]]
  BY <1>4 DEF Recursed
<1>6. \A i \in 1 .. n : g[i] = Next1(i, g[i - 1])
  <2> SUFFICES ASSUME NEW i \in 1 .. n PROVE g[i] = Next1(i, g[i - 1])
    OBVIOUS
  <2>1. g[i - 1] \in Nat
    BY <1>1
  <2> QED
    BY <1>5, <2>1
<1>7. Is(g)
  <2>1. \A i \in 0 .. n : g[i] = IF i = 0 THEN 0 ELSE Next1(i, g[i - 1])
    <3>1. \A i \in 0 .. n : i = 0 \/ i \in 1 .. n
      BY <1>1
    <3> HIDE DEF turn
    <3> QED
      BY <1>5, <1>6, <3>1
  <2> HIDE DEF turn
  <2> QED
    BY <2>1
<1>8. Is(acc)
  <2> HIDE DEF Is
  <2> QED
    BY <1>7, Zenon
<1>9. acc = g
  <2> HIDE DEF turn
  <2>1. acc[0] = 0 /\ \A i \in 1 .. n : acc[i] = Next1(i, acc[i - 1])
    <3> HIDE DEF acc
    <3> QED
      BY <1>1, <1>8
  <2> HIDE DEF acc
  <2> DEFINE Good == {i \in 0 .. n : acc[i] = g[i]}
  <2>2. 0 \in Good
    BY <1>1, <1>5, <2>1
  <2>3. \A i \in 1 .. n : i - 1 \in Good => i \in Good
    BY <1>1, <1>6, <2>1
  <2> HIDE DEF Good
  <2>4. \A i \in 0 .. n : i \in Good
    BY <1>1, <2>2, <2>3, Upward
  <2>5. \A i \in 0 .. n : acc[i] = g[i]
    BY <2>4 DEF Good
  <2>6. \A i \in 0 .. n : (IF i = 0 THEN 0 ELSE Next1(i, acc[i - 1])) = (IF i = 0 THEN 0 ELSE Next1(i, g[i - 1]))
    <3>1. \A i \in 0 .. n : i = 0 \/ i - 1 \in 0 .. n
      BY <1>1
    <3> QED
      BY <2>5, <3>1
  <2> QED
    BY <1>7, <1>8, <2>6
<1>10. Sums(s, g)
  <2> HIDE DEF acc, Is, turn
  <2> QED
    BY <1>3, <1>5, <1>6, <1>9 DEF Sums, n, Next1
<1> QED
  BY <1>10

\* A further entry adds its length.
LEMMA TotalOfMore ==
  ASSUME NEW s \in Seq(Entries), NEW e \in Entries
  PROVE  M!Total(s) \in Nat /\ M!Total(Append(s, e)) = M!Total(s) + LengthOf[e]
<1> DEFINE n == Len(s)
           more == Append(s, e)
<1>1. n \in Nat /\ more \in Seq(Entries) /\ Len(more) = n + 1 /\ more[n + 1] = e /\ \A i \in 1 .. n : more[i] = s[i]
  OBVIOUS
<1> HIDE DEF more
<1>2. PICK f : Sums(s, f)
  BY TotalIs
<1>3. PICK g : Sums(more, g)
  BY <1>1, TotalIs
<1>4. f \in [0 .. n -> Nat] /\ f[0] = 0 /\ \A i \in 1 .. n : f[i] = f[i - 1] + LengthOf[s[i]]
  BY <1>2 DEF Sums
<1>5. g \in [0 .. n + 1 -> Nat] /\ g[0] = 0 /\ \A i \in 1 .. n + 1 : g[i] = g[i - 1] + LengthOf[more[i]]
  BY <1>1, <1>3 DEF Sums
<1>6. M!Total(s) = f[n] /\ M!Total(more) = g[n + 1]
  BY <1>1, <1>2, <1>3 DEF Sums
<1> HIDE DEF n
<1> DEFINE Good == {i \in 0 .. n : f[i] = g[i]}
<1>7. 0 \in Good
  BY <1>1, <1>4, <1>5
<1>8. \A i \in 1 .. n : i - 1 \in Good => i \in Good
  <2> SUFFICES ASSUME NEW i \in 1 .. n, f[i - 1] = g[i - 1] PROVE f[i] = g[i]
    BY <1>1
  <2>1. i \in 1 .. n + 1 /\ more[i] = s[i]
    BY <1>1
  <2> QED
    BY <1>4, <1>5, <2>1
<1>9. f[n] = g[n]
  <2> HIDE DEF Good
  <2>1. n \in Good
    <3>1. \A i \in 0 .. n : i \in Good
      BY <1>1, <1>7, <1>8, Upward
    <3> QED
      BY <1>1, <3>1
  <2> QED
    BY <2>1 DEF Good
<1>10. g[n + 1] = g[n] + LengthOf[e] /\ f[n] \in Nat
  <2>1. n + 1 \in 1 .. n + 1 /\ (n + 1) - 1 = n /\ n \in 0 .. n
    BY <1>1
  <2> QED
    BY <1>1, <1>4, <1>5, <2>1
<1> QED
  BY <1>6, <1>9, <1>10 DEF more

\* Nothing has no length.
LEMMA TotalOfNone == M!Total(<<>>) = 0
<1>1. <<>> \in Seq(Entries) /\ Len(<<>>) = 0
  OBVIOUS
<1>2. PICK f : Sums(<<>>, f)
  BY <1>1, TotalIs
<1> QED
  BY <1>1, <1>2 DEF Sums

\* The most important first.
Sorted(s) == \A i, j \in DOMAIN s : i < j => ImportanceOf[s[i]] >= ImportanceOf[s[j]]

\* An entry that is placed leaves a list sorted, and with all it had.
LEMMA PlacedIs ==
  ASSUME NEW s \in Seq(Entries), NEW e \in Entries
  PROVE  /\ M!Placed(s, e) \in Seq(Entries)
         /\ Sorted(s) => Sorted(M!Placed(s, e)) /\ All(M!Placed(s, e)) = All(s) \cup {e}
<1> DEFINE n == Len(s)
           before == {i \in DOMAIN s : ImportanceOf[s[i]] >= ImportanceOf[e]}
           p == M!Placed(s, e)
<1>1. n \in Nat /\ DOMAIN s = 1 .. n /\ \A i \in 1 .. n : s[i] \in Entries
  OBVIOUS
<1>2. p = [i \in 1 .. n + 1 |-> IF i \in before THEN s[i] ELSE IF i = 1 \/ i - 1 \in before THEN e ELSE s[i - 1]]
  BY DEF M!Placed
<1> HIDE DEF n, p
<1>3. \A i \in 1 .. n + 1 : p[i] = IF i \in before THEN s[i] ELSE IF i = 1 \/ i - 1 \in before THEN e ELSE s[i - 1]
  BY <1>2
<1>4. \A i \in 1 .. n + 1 : p[i] \in Entries
  <2> SUFFICES ASSUME NEW i \in 1 .. n + 1 PROVE p[i] \in Entries
    OBVIOUS
  <2>1. i = 1 \/ i - 1 \in 1 .. n
    BY <1>1
  <2> QED
    BY <1>1, <1>3, <2>1
<1>5. DOMAIN p = 1 .. n + 1 /\ p \in Seq(Entries)
  <2>1. p \in [1 .. n + 1 -> Entries]
    <3>1. DOMAIN p = 1 .. n + 1
      BY <1>2
    <3> HIDE DEF before
    <3> QED
      BY <1>2, <1>4, <3>1
  <2> QED
    BY <1>1, <2>1
<1>6. ASSUME Sorted(s) PROVE Sorted(p) /\ All(p) = All(s) \cup {e}
  <2>1. \A i, j \in 1 .. n : i < j => ImportanceOf[s[i]] >= ImportanceOf[s[j]]
    BY <1>1, <1>6 DEF Sorted
  <2>2. ImportanceOf[e] \in Int /\ \A i \in 1 .. n : ImportanceOf[s[i]] \in Int
    BY <1>1, MirrorAssumption
  <2>3. \A i \in 1 .. n : i \in before <=> ImportanceOf[s[i]] >= ImportanceOf[e]
    BY <1>1
  <2>4. before \subseteq 1 .. n
    BY <1>1
  <2> HIDE DEF before
  <2>5. \A i, j \in 1 .. n : j \in before /\ i < j => i \in before
    BY <1>1, <2>1, <2>2, <2>3
  <2>6. Sorted(p)
    <3> SUFFICES ASSUME NEW i \in 1 .. n + 1, NEW j \in 1 .. n + 1, i < j
                 PROVE  ImportanceOf[p[i]] >= ImportanceOf[p[j]]
      BY <1>5 DEF Sorted
    <3>1. i \in 1 .. n /\ j - 1 \in 1 .. n /\ i \leq j - 1 /\ (i = 1 \/ i - 1 \in 1 .. n)
      BY <1>1
    <3>2. CASE i \in before
      <4>1. p[i] = s[i]
        BY <1>3, <3>2
      <4>2. CASE j \in before
        <5>1. p[j] = s[j] /\ j \in 1 .. n
          BY <1>3, <2>4, <4>2
        <5> QED
          BY <2>1, <3>1, <4>1, <5>1
      <4>3. CASE j \notin before /\ j - 1 \in before
        BY <1>3, <2>3, <3>1, <3>2, <4>1, <4>3
      <4>4. CASE j \notin before /\ j - 1 \notin before
        <5>1. p[j] = s[j - 1] /\ i < j - 1
          BY <1>3, <3>1, <3>2, <4>4
        <5> QED
          BY <2>1, <3>1, <4>1, <5>1
      <4> QED
        BY <4>2, <4>3, <4>4
    <3>3. CASE i \notin before
      <4>1. j \notin before /\ j - 1 \notin before
        BY <2>4, <2>5, <3>1, <3>3
      <4>2. p[j] = s[j - 1]
        BY <1>3, <3>1, <4>1
      <4>3. CASE i = 1 \/ i - 1 \in before
        <5>1. p[i] = e
          BY <1>3, <3>3, <4>3
        <5> QED
          BY <2>2, <2>3, <3>1, <4>1, <4>2, <5>1
      <4>4. CASE ~ (i = 1 \/ i - 1 \in before)
        <5>1. p[i] = s[i - 1] /\ i - 1 \in 1 .. n /\ i - 1 < j - 1
          BY <1>3, <3>1, <3>3, <4>4
        <5> QED
          BY <2>1, <3>1, <4>2, <5>1
      <4> QED
        BY <4>3, <4>4
    <3> QED
      BY <3>2, <3>3
  <2>7. All(p) \subseteq All(s) \cup {e}
    <3> SUFFICES ASSUME NEW i \in 1 .. n + 1 PROVE p[i] \in All(s) \cup {e}
      BY <1>5 DEF All
    <3>1. i = 1 \/ i - 1 \in 1 .. n
      BY <1>1
    <3> QED
      BY <1>1, <1>3, <2>4, <3>1 DEF All
  <2>8. \A i \in 1 .. n : s[i] \in All(p)
    <3> SUFFICES ASSUME NEW i \in 1 .. n PROVE \E j \in 1 .. n + 1 : p[j] = s[i]
      BY <1>5 DEF All
    <3>1. CASE i \in before
      <4>1. i \in 1 .. n + 1 /\ p[i] = s[i]
        BY <1>1, <1>3, <3>1
      <4> QED
        BY <4>1
    <3>2. CASE i \notin before
      <4>1. i + 1 \in 1 .. n + 1 /\ (i + 1) - 1 = i /\ i + 1 # 1 /\ i + 1 \notin before
        BY <1>1, <2>4, <2>5, <3>2
      <4>2. p[i + 1] = s[i]
        BY <1>3, <3>2, <4>1
      <4> QED
        BY <4>1, <4>2
    <3> QED
      BY <3>1, <3>2
  <2>9. e \in All(p)
    <3> DEFINE Out == {i \in 1 .. n + 1 : i \notin before}
    <3>1. Out \in SUBSET Nat /\ n + 1 \in Out
      BY <1>1, <2>4
    <3>2. PICK k \in Out : \A i \in Out : k \leq i
      BY <3>1, LeastNumber
    <3>3. k \in 1 .. n + 1 /\ k \notin before
      OBVIOUS
    <3>4. k = 1 \/ k - 1 \in before
      <4> SUFFICES ASSUME k # 1, k - 1 \notin before PROVE FALSE
        OBVIOUS
      <4>1. k - 1 \in Out
        BY <1>1, <3>3
      <4> QED
        BY <1>1, <3>2, <3>3, <4>1
    <3>5. p[k] = e
      BY <1>3, <3>3, <3>4
    <3> QED
      BY <1>5, <3>3, <3>5 DEF All
  <2> QED
    BY <1>1, <2>6, <2>7, <2>8, <2>9 DEF All
<1> QED
  BY <1>5, <1>6 DEF p

Sorts(es, f) == f[0] = <<>> /\ \A i \in 1 .. Len(es) : f[i] = M!Placed(f[i - 1], es[i])

\* The sort places one entry after another.
LEMMA SortsOne ==
  ASSUME NEW es \in Seq(Entries)
  PROVE  \E f : Sorts(es, f) /\ M!ByImportance(es) = f[Len(es)]
<1> DEFINE n == Len(es)
           Vals == Seq(Entries)
           Then(i, a) == M!Placed(a, es[i])
           Is(g) == g = [i \in 0 .. n |-> IF i = 0 THEN <<>> ELSE Then(i, g[i - 1])]
           acc == CHOOSE g : Is(g)
           turn == [i \in 1 .. n |-> [a \in Vals |-> Then(i, a)]]
<1>1. n \in Nat /\ <<>> \in Vals
  OBVIOUS
<1>2. ASSUME NEW i \in 1 .. n, NEW a \in Vals PROVE Then(i, a) \in Vals
  <2>1. es[i] \in Entries
    OBVIOUS
  <2> QED
    BY <2>1, PlacedIs
<1>3. M!ByImportance(es) = acc[n]
  BY Zenon DEF M!ByImportance
<1> HIDE DEF n, Then, Vals
<1>4. Recursed(Vals, <<>>, n, turn)
  <2>1. turn \in [1 .. n -> [Vals -> Vals]]
    BY <1>2
  <2> HIDE DEF turn
  <2> QED
    BY <1>1, <2>1, Recursion
<1>5. PICK g \in [0 .. n -> Vals] : g[0] = <<>> /\ \A i \in 1 .. n : g[i] = turn[i][g[i - 1]]
  BY <1>4 DEF Recursed
<1>6. Is(g)
  <2>1. \A i \in 1 .. n : g[i] = Then(i, g[i - 1])
    <3> SUFFICES ASSUME NEW i \in 1 .. n PROVE g[i] = Then(i, g[i - 1])
      OBVIOUS
    <3>1. g[i - 1] \in Vals
      BY <1>1
    <3> QED
      BY <1>5, <3>1
  <2> HIDE DEF turn
  <2>2. \A i \in 0 .. n : i = 0 \/ i \in 1 .. n
    BY <1>1
  <2>3. \A i \in 0 .. n : g[i] = IF i = 0 THEN <<>> ELSE Then(i, g[i - 1])
    BY <1>5, <2>1, <2>2
  <2> QED
    BY <2>3
<1>7. Is(acc)
  <2> HIDE DEF Is
  <2> QED
    BY <1>6, Zenon
<1>8. acc[0] = <<>> /\ \A i \in 1 .. n : acc[i] = Then(i, acc[i - 1])
  <2> HIDE DEF acc
  <2> QED
    BY <1>1, <1>7
<1> HIDE DEF acc, Is
<1>9. Sorts(es, acc)
  BY <1>8 DEF Sorts, Then, n
<1> QED
  BY <1>3, <1>9 DEF n

\* A list is sorted, and with all it had.
LEMMA SortedIs ==
  ASSUME NEW es \in Seq(Entries)
  PROVE  M!ByImportance(es) \in Seq(Entries) /\ Sorted(M!ByImportance(es)) /\ All(M!ByImportance(es)) = All(es)
<1> DEFINE n == Len(es)
           So(i, a) == a \in Seq(Entries) /\ Sorted(a) /\ All(a) = {es[j] : j \in 1 .. i}
<1>1. PICK f : Sorts(es, f) /\ M!ByImportance(es) = f[n]
  BY SortsOne
<1>2. n \in Nat /\ DOMAIN es = 1 .. n
  OBVIOUS
<1> DEFINE Good == {i \in 0 .. n : So(i, f[i])}
<1>3. 0 \in Good
  <2>1. So(0, <<>>)
    BY DEF Sorted, All
  <2> HIDE DEF So
  <2> QED
    BY <1>1, <1>2, <2>1 DEF Sorts
<1>4. \A i \in 1 .. n : i - 1 \in Good => i \in Good
  <2> SUFFICES ASSUME NEW i \in 1 .. n, So(i - 1, f[i - 1]) PROVE So(i, f[i])
    <3> HIDE DEF So, n
    <3> QED
      BY <1>2
  <2>1. f[i] = M!Placed(f[i - 1], es[i]) /\ es[i] \in Entries
    BY <1>1 DEF Sorts
  <2>2. f[i] \in Seq(Entries) /\ Sorted(f[i]) /\ All(f[i]) = All(f[i - 1]) \cup {es[i]}
    BY <2>1, PlacedIs
  <2>3. 1 .. i = (1 .. i - 1) \cup {i}
    BY <1>2
  <2> QED
    BY <2>2, <2>3
<1>5. So(n, f[n])
  <2> HIDE DEF Good, So, n
  <2>1. \A i \in 0 .. n : i \in Good
    BY <1>2, <1>3, <1>4, Upward
  <2>2. n \in Good
    BY <1>2, <2>1
  <2> QED
    BY <2>2 DEF Good
<1> QED
  BY <1>1, <1>2, <1>5 DEF All

Fills(es, kept, f) ==
  /\ f[0] = kept
  /\ \A i \in 1 .. Len(es) : f[i] = IF M!Fits(f[i - 1], es[i]) THEN Append(f[i - 1], es[i]) ELSE f[i - 1]

\* A fill takes one entry after another.
LEMMA FillsOne ==
  ASSUME NEW es \in Seq(Entries), NEW kept \in Seq(Entries)
  PROVE  \E f : Fills(es, kept, f) /\ M!Filled(es, kept) = f[Len(es)]
<1> DEFINE n == Len(es)
           Vals == Seq(Entries)
           Then(i, a) == IF M!Fits(a, es[i]) THEN Append(a, es[i]) ELSE a
           Is(g) == g = [i \in 0 .. n |-> IF i = 0 THEN kept ELSE Then(i, g[i - 1])]
           acc == CHOOSE g : Is(g)
           turn == [i \in 1 .. n |-> [a \in Vals |-> Then(i, a)]]
<1>1. n \in Nat /\ kept \in Vals
  OBVIOUS
<1>2. ASSUME NEW i \in 1 .. n, NEW a \in Vals PROVE Then(i, a) \in Vals
  <2>1. es[i] \in Entries
    OBVIOUS
  <2>2. Append(a, es[i]) \in Seq(Entries)
    BY <2>1
  <2> QED
    BY <2>2
<1>3. M!Filled(es, kept) = acc[n]
  BY Zenon DEF M!Filled
<1> HIDE DEF n, Then, Vals
<1>4. Recursed(Vals, kept, n, turn)
  <2>1. turn \in [1 .. n -> [Vals -> Vals]]
    BY <1>2
  <2> HIDE DEF turn
  <2> QED
    BY <1>1, <2>1, Recursion
<1>5. PICK g \in [0 .. n -> Vals] : g[0] = kept /\ \A i \in 1 .. n : g[i] = turn[i][g[i - 1]]
  BY <1>4 DEF Recursed
<1>6. Is(g)
  <2>1. \A i \in 1 .. n : g[i] = Then(i, g[i - 1])
    <3> SUFFICES ASSUME NEW i \in 1 .. n PROVE g[i] = Then(i, g[i - 1])
      OBVIOUS
    <3>1. g[i - 1] \in Vals
      BY <1>1
    <3> QED
      BY <1>5, <3>1
  <2> HIDE DEF turn
  <2>2. \A i \in 0 .. n : i = 0 \/ i \in 1 .. n
    BY <1>1
  <2>3. \A i \in 0 .. n : g[i] = IF i = 0 THEN kept ELSE Then(i, g[i - 1])
    BY <1>5, <2>1, <2>2
  <2> QED
    BY <2>3
<1>7. Is(acc)
  <2> HIDE DEF Is
  <2> QED
    BY <1>6, Zenon
<1>8. acc[0] = kept /\ \A i \in 1 .. n : acc[i] = Then(i, acc[i - 1])
  <2> HIDE DEF acc
  <2> QED
    BY <1>1, <1>7
<1> HIDE DEF acc, Is
<1>9. Fills(es, kept, acc)
  BY <1>8 DEF Fills, Then, n
<1> QED
  BY <1>3, <1>9 DEF n

\* What the first i of es have made of the list kept: it is within the budget, and
\* of those that came in none is less important than one left out before it.
FilledSo(es, kept, i, a) ==
  /\ a \in Seq(Entries) /\ All(kept) \subseteq All(a)
  /\ \A d \in All(a) \ All(kept) : /\ \E j \in 1 .. i : d = es[j]
                                   /\ M!Total(kept) + LengthOf[d] + Reserve <= MemoryBudget
  /\ a = kept \/ M!Total(a) + Reserve <= MemoryBudget
  /\ M!Total(kept) <= M!Total(a)
  /\ \A j \in 1 .. i : es[j] \notin All(a) =>
       /\ M!Total(a) + LengthOf[es[j]] + Reserve > MemoryBudget
       /\ \A d \in All(a) \ All(kept) : ImportanceOf[d] < ImportanceOf[es[j]] => LengthOf[d] < LengthOf[es[j]]

\* What a list has with a further entry.
LEMMA AllOfMore ==
  ASSUME NEW s \in Seq(Entries), NEW e \in Entries
  PROVE  Append(s, e) \in Seq(Entries) /\ All(Append(s, e)) = All(s) \cup {e}
<1> DEFINE more == Append(s, e)
           n == Len(s)
<1>1. n \in Nat /\ DOMAIN s = 1 .. n /\ more \in Seq(Entries) /\ DOMAIN more = 1 .. n + 1
      /\ more[n + 1] = e /\ \A i \in 1 .. n : more[i] = s[i]
  OBVIOUS
<1> HIDE DEF more, n
<1>2. 1 .. n + 1 = (1 .. n) \cup {n + 1}
  BY <1>1
<1>3. All(more) \subseteq All(s) \cup {e}
  BY <1>1, <1>2 DEF All
<1>4. e \in All(more) /\ All(s) \subseteq All(more)
  BY <1>1, <1>2 DEF All
<1>5. more \in Seq(Entries) /\ All(more) = All(s) \cup {e}
  BY <1>1, <1>3, <1>4
<1> QED
  BY <1>5 DEF more

\* Entries have a length and an importance.
LEMMA EntriesAre ==
  ASSUME NEW s \in Seq(Entries)
  PROVE  /\ All(s) \subseteq Entries /\ M!Total(s) \in Nat
         /\ \A d \in Entries : LengthOf[d] \in Nat /\ ImportanceOf[d] \in Int
<1>1. M!Total(s) \in Nat
  <2>1. PICK f : Sums(s, f)
    BY TotalIs
  <2> QED
    BY <2>1 DEF Sums
<1> QED
  BY <1>1, MirrorAssumption DEF All

\* What a fill has taken of a sorted list.
LEMMA FilledIs ==
  ASSUME NEW es \in Seq(Entries), NEW kept \in Seq(Entries), Sorted(es)
  PROVE  FilledSo(es, kept, Len(es), M!Filled(es, kept))
<1> DEFINE n == Len(es)
<1>1. PICK f : Fills(es, kept, f) /\ M!Filled(es, kept) = f[n]
  BY FillsOne
<1>2. n \in Nat /\ DOMAIN es = 1 .. n /\ \A i \in 1 .. n : es[i] \in Entries
  OBVIOUS
<1>3. \A i, j \in 1 .. n : i < j => ImportanceOf[es[i]] >= ImportanceOf[es[j]]
  BY <1>2 DEF Sorted
<1>4. MemoryBudget \in Nat /\ Reserve \in Nat
  BY MirrorAssumption
<1>5. f[0] = kept /\ \A i \in 1 .. n : f[i] = IF M!Fits(f[i - 1], es[i]) THEN Append(f[i - 1], es[i]) ELSE f[i - 1]
  BY <1>1 DEF Fills
<1> HIDE DEF n
<1> DEFINE Good == {i \in 0 .. n : FilledSo(es, kept, i, f[i])}
<1>6. 0 \in Good
  <2>1. M!Total(kept) \in Nat
    BY EntriesAre
  <2>2. FilledSo(es, kept, 0, kept)
    BY <2>1 DEF FilledSo
  <2> QED
    BY <1>2, <1>5, <2>2
<1>7. ASSUME NEW i \in 1 .. n, FilledSo(es, kept, i - 1, f[i - 1]) PROVE FilledSo(es, kept, i, f[i])
  <2> DEFINE a == f[i - 1]
             b == f[i]
             e == es[i]
  <2>1. /\ a \in Seq(Entries) /\ All(kept) \subseteq All(a)
        /\ \A d \in All(a) \ All(kept) : /\ \E j \in 1 .. i - 1 : d = es[j]
                                         /\ M!Total(kept) + LengthOf[d] + Reserve <= MemoryBudget
        /\ a = kept \/ M!Total(a) + Reserve <= MemoryBudget
        /\ M!Total(kept) <= M!Total(a)
        /\ \A j \in 1 .. i - 1 : es[j] \notin All(a) =>
             /\ M!Total(a) + LengthOf[es[j]] + Reserve > MemoryBudget
             /\ \A d \in All(a) \ All(kept) : ImportanceOf[d] < ImportanceOf[es[j]] => LengthOf[d] < LengthOf[es[j]]
    BY <1>7 DEF FilledSo
  <2>2. e \in Entries /\ b = IF M!Fits(a, e) THEN Append(a, e) ELSE a
    BY <1>2, <1>5
  <2>3. /\ M!Total(kept) \in Nat /\ M!Total(a) \in Nat /\ All(a) \subseteq Entries
        /\ \A d \in Entries : LengthOf[d] \in Nat /\ ImportanceOf[d] \in Int
    BY <2>1, EntriesAre
  <2>4. \A j \in 1 .. i : j = i \/ j \in 1 .. i - 1
    OBVIOUS
  <2>5. \A j \in 1 .. i - 1 : j \in 1 .. n /\ j \in 1 .. i /\ j < i
    BY <1>2
  <2>6. i \in 1 .. i
    BY <1>2
  <2>7. M!Fits(a, e) <=> M!Total(a) + LengthOf[e] + Reserve <= MemoryBudget
    BY DEF M!Fits
  <2> HIDE DEF a, b
  <2>8. CASE M!Fits(a, e)
    <3>1. b = Append(a, e) /\ M!Total(b) = M!Total(a) + LengthOf[e] /\ b \in Seq(Entries) /\ All(b) = All(a) \cup {e}
      BY <2>1, <2>2, <2>8, TotalOfMore, AllOfMore
    <3>2. LengthOf[e] \in Nat /\ M!Total(b) \in Nat
      BY <2>2, <2>3, <3>1
    <3>3. M!Total(b) + Reserve <= MemoryBudget /\ M!Total(kept) <= M!Total(b)
      BY <1>4, <2>1, <2>3, <2>7, <2>8, <3>1, <3>2
    <3>4. ASSUME NEW d \in All(b) \ All(kept)
          PROVE  (\E j \in 1 .. i : d = es[j]) /\ M!Total(kept) + LengthOf[d] + Reserve <= MemoryBudget
      <4>1. CASE d \in All(a)
        BY <2>1, <2>5, <4>1
      <4>2. CASE d = e
        <5>1. \E j \in 1 .. i : d = es[j]
          BY <2>6, <4>2
        <5>2. M!Total(kept) <= M!Total(a)
          BY <2>1
        <5> HIDE DEF e
        <5>3. M!Total(kept) + LengthOf[e] + Reserve <= MemoryBudget
          BY <1>4, <2>3, <2>7, <2>8, <3>2, <5>2
        <5> QED
          BY <4>2, <5>1, <5>3
      <4> QED
        BY <3>1, <4>1, <4>2
    <3>5. ASSUME NEW j \in 1 .. i, es[j] \notin All(b)
          PROVE  /\ M!Total(b) + LengthOf[es[j]] + Reserve > MemoryBudget
                 /\ \A d \in All(b) \ All(kept) : ImportanceOf[d] < ImportanceOf[es[j]] => LengthOf[d] < LengthOf[es[j]]
      <4>1. j \in 1 .. i - 1 /\ es[j] \notin All(a)
        BY <2>4, <3>1, <3>5
      <4>2. es[j] \in Entries /\ LengthOf[es[j]] \in Nat
        BY <1>2, <2>3, <2>5, <4>1
      <4>3. /\ M!Total(a) + LengthOf[es[j]] + Reserve > MemoryBudget
            /\ \A d \in All(a) \ All(kept) : ImportanceOf[d] < ImportanceOf[es[j]] => LengthOf[d] < LengthOf[es[j]]
        BY <2>1, <4>1
      <4> HIDE DEF e
      <4>4. LengthOf[e] < LengthOf[es[j]]
        BY <1>4, <2>3, <2>7, <2>8, <3>2, <4>2, <4>3
      <4>5. M!Total(b) + LengthOf[es[j]] + Reserve > MemoryBudget
        <5>1. M!Total(b) = M!Total(a) + LengthOf[e]
          BY <3>1
        <5>2. \A x, y, u, r, m \in Nat : x + y + r > m => (x + u) + y + r > m
          OBVIOUS
        <5>3. M!Total(a) \in Nat /\ M!Total(a) + LengthOf[es[j]] + Reserve > MemoryBudget
          BY <2>3, <4>3
        <5> QED
          BY <1>4, <3>2, <4>2, <5>1, <5>2, <5>3
      <4> QED
        BY <3>1, <4>3, <4>4, <4>5
    <3> QED
      BY <3>1, <3>3, <3>4, <3>5, <2>1 DEF FilledSo, b
  <2>9. CASE ~ M!Fits(a, e)
    <3>1. b = a
      BY <2>2, <2>9
    <3>2. ASSUME NEW j \in 1 .. i, es[j] \notin All(a)
          PROVE  /\ M!Total(a) + LengthOf[es[j]] + Reserve > MemoryBudget
                 /\ \A d \in All(a) \ All(kept) : ImportanceOf[d] < ImportanceOf[es[j]] => LengthOf[d] < LengthOf[es[j]]
      <4>1. CASE j \in 1 .. i - 1
        BY <2>1, <3>2, <4>1
      <4>2. CASE j = i
        <5>1. M!Total(a) + LengthOf[e] + Reserve > MemoryBudget
          BY <1>4, <2>2, <2>3, <2>7, <2>9
        <5>2. ASSUME NEW d \in All(a) \ All(kept) PROVE ~ (ImportanceOf[d] < ImportanceOf[e])
          <6>1. PICK k \in 1 .. i - 1 : d = es[k]
            BY <2>1
          <6>2. ImportanceOf[es[k]] >= ImportanceOf[es[i]]
            BY <1>3, <2>5
          <6> QED
            BY <2>2, <2>3, <6>1, <6>2
        <5> QED
          BY <4>2, <5>1, <5>2
      <4> QED
        BY <2>4, <4>1, <4>2
    <3>3. \A d \in All(a) \ All(kept) : \E j \in 1 .. i : d = es[j]
      BY <2>1, <2>5
    <3> QED
      BY <2>1, <3>1, <3>2, <3>3 DEF FilledSo, b
  <2> QED
    BY <2>8, <2>9
<1>8. \A i \in 1 .. n : i - 1 \in Good => i \in Good
  <2>1. \A i \in 1 .. n : i \in 0 .. n
    BY <1>2
  <2> QED
    BY <1>7, <2>1
<1>9. FilledSo(es, kept, n, f[n])
  <2> HIDE DEF Good
  <2>1. \A i \in 0 .. n : i \in Good
    BY <1>2, <1>6, <1>8, Upward
  <2>2. n \in Good
    BY <1>2, <2>1
  <2> QED
    BY <2>2 DEF Good
<1> QED
  BY <1>1, <1>9 DEF n

\* Each layer is one of those recalled, and has its answer.
LEMMA LayersAre ==
  ASSUME found \in [M!AllOf -> Seq(Entries)]
  PROVE  /\ Len(Layers) \in Nat /\ DOMAIN Layers = 1 .. Len(Layers)
         /\ \A i \in 1 .. Len(Layers) : Layers[i] \in M!AllOf /\ found[Layers[i]] \in Seq(Entries)
<1>1. Len(Layers) \in Nat /\ DOMAIN Layers = 1 .. Len(Layers)
  BY MirrorAssumption
<1>2. \A i \in 1 .. Len(Layers) : Layers[i] \in M!AllOf
  BY <1>1 DEF M!AllOf, M!ToSet
<1> QED
  BY <1>1, <1>2

FillsTiers(f) ==
  /\ f[0] = <<>>
  /\ \A i \in 1 .. Len(Layers) : f[i] = M!Filled(M!ByImportance(found[Layers[i]]), f[i - 1])

\* The memory of Hermes is filled from one tier after another.
LEMMA FillsAll ==
  ASSUME found \in [M!AllOf -> Seq(Entries)]
  PROVE  \E f : FillsTiers(f) /\ M!HermesMemory(found) = f[Len(Layers)]
<1> DEFINE n == Len(Layers)
           Vals == Seq(Entries)
           Then(i, a) == M!Filled(M!ByImportance(found[Layers[i]]), a)
           Is(g) == g = [i \in 0 .. n |-> IF i = 0 THEN <<>> ELSE Then(i, g[i - 1])]
           acc == CHOOSE g : Is(g)
           turn == [i \in 1 .. n |-> [a \in Vals |-> Then(i, a)]]
<1>1. n \in Nat /\ <<>> \in Vals
  BY MirrorAssumption
<1>2. ASSUME NEW i \in 1 .. n, NEW a \in Vals PROVE Then(i, a) \in Vals
  <2>1. found[Layers[i]] \in Seq(Entries)
    BY LayersAre
  <2>2. M!ByImportance(found[Layers[i]]) \in Seq(Entries)
    BY <2>1, SortedIs
  <2> QED
    BY <2>2, SortedIs, <2>1, FilledIs DEF FilledSo
<1>3. M!HermesMemory(found) = acc[n]
  BY Zenon DEF M!HermesMemory
<1> HIDE DEF n, Then, Vals
<1>4. Recursed(Vals, <<>>, n, turn)
  <2>1. turn \in [1 .. n -> [Vals -> Vals]]
    BY <1>2
  <2> HIDE DEF turn
  <2> QED
    BY <1>1, <2>1, Recursion
<1>5. PICK g \in [0 .. n -> Vals] : g[0] = <<>> /\ \A i \in 1 .. n : g[i] = turn[i][g[i - 1]]
  BY <1>4 DEF Recursed
<1>6. Is(g)
  <2>1. \A i \in 1 .. n : g[i] = Then(i, g[i - 1])
    <3> SUFFICES ASSUME NEW i \in 1 .. n PROVE g[i] = Then(i, g[i - 1])
      OBVIOUS
    <3>1. g[i - 1] \in Vals
      BY <1>1
    <3> QED
      BY <1>5, <3>1
  <2> HIDE DEF turn
  <2>2. \A i \in 0 .. n : i = 0 \/ i \in 1 .. n
    BY <1>1
  <2>3. \A i \in 0 .. n : g[i] = IF i = 0 THEN <<>> ELSE Then(i, g[i - 1])
    BY <1>5, <2>1, <2>2
  <2> QED
    BY <2>3
<1>7. Is(acc)
  <2> HIDE DEF Is
  <2> QED
    BY <1>6, Zenon
<1>8. acc[0] = <<>> /\ \A i \in 1 .. n : acc[i] = Then(i, acc[i - 1])
  <2> HIDE DEF acc
  <2> QED
    BY <1>1, <1>7
<1> HIDE DEF acc, Is
<1>9. FillsTiers(acc)
  BY <1>8 DEF FillsTiers, Then, n
<1> QED
  BY <1>3, <1>9 DEF n

\* What the first i tiers have made of Hermes' MEMORY.md.
HermesSo(i, a) ==
  /\ a \in Seq(Entries)
  /\ \A d \in All(a) : \E j \in 1 .. i : d \in All(found[Layers[j]])
  /\ a = <<>> \/ M!Total(a) + Reserve <= MemoryBudget
  /\ \A j \in 1 .. i : \A e \in All(found[Layers[j]]) \ All(a) :
       /\ M!Total(a) + LengthOf[e] + Reserve > MemoryBudget
       /\ \A d \in All(a) : TierOf[d] = Layers[j] /\ ImportanceOf[d] < ImportanceOf[e] => LengthOf[d] < LengthOf[e]

\* Answers are of the tier that was asked for.
OwnTier == \A i \in 1 .. Len(Layers) : \A d \in All(found[Layers[i]]) : TierOf[d] = Layers[i]

\* What has been filled, after a further tier.
LEMMA HermesNext ==
  ASSUME found \in [M!AllOf -> Seq(Entries)], OwnTier, NEW i \in 1 .. Len(Layers), NEW a, HermesSo(i - 1, a)
  PROVE  HermesSo(i, M!Filled(M!ByImportance(found[Layers[i]]), a))
<1> DEFINE t == Layers[i]
           es == M!ByImportance(found[t])
           b == M!Filled(es, a)
           n == Len(es)
<1>1. found[t] \in Seq(Entries) /\ a \in Seq(Entries) /\ i \in Nat /\ Len(Layers) \in Nat
  BY LayersAre DEF HermesSo
<1>2. es \in Seq(Entries) /\ Sorted(es) /\ All(es) = All(found[t])
  BY <1>1, SortedIs
<1>3. FilledSo(es, a, n, b)
  BY <1>1, <1>2, FilledIs
<1>4. All(es) = {es[j] : j \in 1 .. n}
  BY <1>2 DEF All
<1>5. \A j \in 1 .. i : j = i \/ (j \in 1 .. i - 1 /\ j \in 1 .. Len(Layers))
  BY <1>1
<1>6. \A j \in 1 .. i - 1 : j \in 1 .. i /\ j \in 1 .. Len(Layers) /\ j # i
  BY <1>1
<1>7. i \in 1 .. i
  BY <1>1
<1> HIDE DEF es, n, b
<1>8. /\ b \in Seq(Entries) /\ All(a) \subseteq All(b)
      /\ \A d \in All(b) \ All(a) : d \in All(found[t]) /\ M!Total(a) + LengthOf[d] + Reserve <= MemoryBudget
      /\ b = a \/ M!Total(b) + Reserve <= MemoryBudget
      /\ M!Total(a) <= M!Total(b)
      /\ \A e \in All(found[t]) \ All(b) :
           /\ M!Total(b) + LengthOf[e] + Reserve > MemoryBudget
           /\ \A d \in All(b) \ All(a) : ImportanceOf[d] < ImportanceOf[e] => LengthOf[d] < LengthOf[e]
  BY <1>2, <1>3, <1>4 DEF FilledSo
<1>9. /\ M!Total(a) \in Nat /\ M!Total(b) \in Nat /\ All(a) \subseteq Entries /\ All(b) \subseteq Entries
      /\ All(found[t]) \subseteq Entries
      /\ \A d \in Entries : LengthOf[d] \in Nat /\ ImportanceOf[d] \in Int
  BY <1>1, <1>8, EntriesAre
<1>10. MemoryBudget \in Nat /\ Reserve \in Nat
  BY MirrorAssumption
<1>11. /\ \A d \in All(a) : \E j \in 1 .. i - 1 : d \in All(found[Layers[j]])
       /\ a = <<>> \/ M!Total(a) + Reserve <= MemoryBudget
       /\ \A j \in 1 .. i - 1 : \A e \in All(found[Layers[j]]) \ All(a) :
            /\ M!Total(a) + LengthOf[e] + Reserve > MemoryBudget
            /\ \A d \in All(a) : TierOf[d] = Layers[j] /\ ImportanceOf[d] < ImportanceOf[e] => LengthOf[d] < LengthOf[e]
  BY DEF HermesSo
<1>12. \A d \in All(b) : \E j \in 1 .. i : d \in All(found[Layers[j]])
  <2> SUFFICES ASSUME NEW d \in All(b) PROVE \E j \in 1 .. i : d \in All(found[Layers[j]])
    OBVIOUS
  <2>1. CASE d \in All(a)
    BY <1>6, <1>11, <2>1
  <2>2. CASE d \notin All(a)
    BY <1>7, <1>8, <2>2
  <2> QED
    BY <2>1, <2>2
<1>13. b = <<>> \/ M!Total(b) + Reserve <= MemoryBudget
  BY <1>8, <1>11
<1>14. ASSUME NEW j \in 1 .. i, NEW e \in All(found[Layers[j]]) \ All(b)
       PROVE  /\ M!Total(b) + LengthOf[e] + Reserve > MemoryBudget
              /\ \A d \in All(b) : TierOf[d] = Layers[j] /\ ImportanceOf[d] < ImportanceOf[e] => LengthOf[d] < LengthOf[e]
  <2>1. CASE j = i
    <3>1. e \in All(found[t]) \ All(b)
      BY <1>14, <2>1
    <3>2. ASSUME NEW d \in All(a) PROVE TierOf[d] # t
      <4>1. PICK k \in 1 .. i - 1 : d \in All(found[Layers[k]])
        BY <1>11
      <4>2. TierOf[d] = Layers[k] /\ Layers[k] # Layers[i]
        BY <1>6, <4>1, MirrorAssumption DEF OwnTier
      <4> QED
        BY <4>2
    <3> QED
      BY <1>8, <2>1, <3>1, <3>2
  <2>2. CASE j # i
    <3>1. j \in 1 .. i - 1 /\ j \in 1 .. Len(Layers) /\ e \notin All(a)
      BY <1>5, <1>8, <2>2
    <3>2. /\ M!Total(a) + LengthOf[e] + Reserve > MemoryBudget
          /\ \A d \in All(a) : TierOf[d] = Layers[j] /\ ImportanceOf[d] < ImportanceOf[e] => LengthOf[d] < LengthOf[e]
      BY <1>11, <3>1
    <3>3. e \in Entries /\ LengthOf[e] \in Nat
      <4>1. All(found[Layers[j]]) \subseteq Entries
        BY <3>1, LayersAre, EntriesAre
      <4> QED
        BY <1>9, <4>1
    <3>4. M!Total(b) + LengthOf[e] + Reserve > MemoryBudget
      <4>1. \A x, y, u, r, m \in Nat : x + u + r > m /\ x <= y => y + u + r > m
        OBVIOUS
      <4>2. M!Total(a) <= M!Total(b)
        BY <1>8
      <4> QED
        BY <1>9, <1>10, <3>2, <3>3, <4>1, <4>2
    <3>5. ASSUME NEW d \in All(b) \ All(a) PROVE LengthOf[d] < LengthOf[e]
      <4>1. M!Total(a) + LengthOf[d] + Reserve <= MemoryBudget /\ LengthOf[d] \in Nat
        BY <1>8, <1>9
      <4>2. \A x, y, u, r, m \in Nat : x + u + r > m /\ x + y + r <= m => y < u
        OBVIOUS
      <4> QED
        BY <1>9, <1>10, <3>2, <3>3, <4>1, <4>2
    <3> QED
      BY <3>2, <3>4, <3>5
  <2> QED
    BY <2>1, <2>2
<1>15. HermesSo(i, b)
  BY <1>8, <1>12, <1>13, <1>14 DEF HermesSo
<1> QED
  BY <1>15 DEF b, es

\* What the memory of Hermes is filled with.
LEMMA HermesIs ==
  ASSUME found \in [M!AllOf -> Seq(Entries)], OwnTier
  PROVE  HermesSo(Len(Layers), M!HermesMemory(found))
<1> DEFINE n == Len(Layers)
<1>1. PICK f : FillsTiers(f) /\ M!HermesMemory(found) = f[n]
  BY FillsAll
<1>2. n \in Nat
  BY LayersAre
<1> DEFINE Good == {i \in 0 .. n : HermesSo(i, f[i])}
<1>3. 0 \in Good
  <2>1. HermesSo(0, <<>>)
    BY DEF HermesSo, All
  <2> QED
    BY <1>1, <1>2, <2>1 DEF FillsTiers
<1>4. \A i \in 1 .. n : i - 1 \in Good => i \in Good
  <2> SUFFICES ASSUME NEW i \in 1 .. n, HermesSo(i - 1, f[i - 1]) PROVE HermesSo(i, f[i])
    <3> HIDE DEF n
    <3> QED
      BY <1>2
  <2> QED
    BY <1>1, HermesNext DEF FillsTiers
<1>5. HermesSo(n, f[n])
  <2> HIDE DEF Good, n
  <2>1. \A i \in 0 .. n : i \in Good
    BY <1>2, <1>3, <1>4, Upward
  <2>2. n \in Good
    BY <1>2, <2>1
  <2> QED
    BY <2>2 DEF Good
<1> QED
  BY <1>1, <1>5

Joins(es, f) == f[0] = <<>> /\ \A i \in 1 .. Len(es) : f[i] = M!Joined(f[i - 1], es[i])

\* Texts are joined one after another.
LEMMA JoinsOne ==
  ASSUME NEW es \in Seq(Entries)
  PROVE  \E f : Joins(es, f) /\ M!Fresh(es) = f[Len(es)]
<1> DEFINE n == Len(es)
           Vals == Seq(Entries)
           Then(i, a) == M!Joined(a, es[i])
           Is(g) == g = [i \in 0 .. n |-> IF i = 0 THEN <<>> ELSE Then(i, g[i - 1])]
           acc == CHOOSE g : Is(g)
           turn == [i \in 1 .. n |-> [a \in Vals |-> Then(i, a)]]
<1>1. n \in Nat /\ <<>> \in Vals
  OBVIOUS
<1>2. ASSUME NEW i \in 1 .. n, NEW a \in Vals PROVE Then(i, a) \in Vals
  <2>1. es[i] \in Entries
    OBVIOUS
  <2>2. Append(a, es[i]) \in Seq(Entries)
    BY <2>1
  <2> QED
    BY <2>2 DEF M!Joined
<1>3. M!Fresh(es) = acc[n]
  BY Zenon DEF M!Fresh
<1> HIDE DEF n, Then, Vals
<1>4. Recursed(Vals, <<>>, n, turn)
  <2>1. turn \in [1 .. n -> [Vals -> Vals]]
    BY <1>2
  <2> HIDE DEF turn
  <2> QED
    BY <1>1, <2>1, Recursion
<1>5. PICK g \in [0 .. n -> Vals] : g[0] = <<>> /\ \A i \in 1 .. n : g[i] = turn[i][g[i - 1]]
  BY <1>4 DEF Recursed
<1>6. Is(g)
  <2>1. \A i \in 1 .. n : g[i] = Then(i, g[i - 1])
    <3> SUFFICES ASSUME NEW i \in 1 .. n PROVE g[i] = Then(i, g[i - 1])
      OBVIOUS
    <3>1. g[i - 1] \in Vals
      BY <1>1
    <3> QED
      BY <1>5, <3>1
  <2> HIDE DEF turn
  <2>2. \A i \in 0 .. n : i = 0 \/ i \in 1 .. n
    BY <1>1
  <2>3. \A i \in 0 .. n : g[i] = IF i = 0 THEN <<>> ELSE Then(i, g[i - 1])
    BY <1>5, <2>1, <2>2
  <2> QED
    BY <2>3
<1>7. Is(acc)
  <2> HIDE DEF Is
  <2> QED
    BY <1>6, Zenon
<1>8. acc[0] = <<>> /\ \A i \in 1 .. n : acc[i] = Then(i, acc[i - 1])
  <2> HIDE DEF acc
  <2> QED
    BY <1>1, <1>7
<1> HIDE DEF acc, Is
<1>9. Joins(es, acc)
  BY <1>8 DEF Joins, Then, n
<1> QED
  BY <1>3, <1>9 DEF n

\* No text is twice in s.
EachOnce(s) == \A i, j \in DOMAIN s : TextOf[s[i]] = TextOf[s[j]] => i = j

\* An entry that is joined is there once.
LEMMA JoinedIs ==
  ASSUME NEW s \in Seq(Entries), EachOnce(s), NEW e \in Entries
  PROVE  /\ M!Joined(s, e) \in Seq(Entries) /\ EachOnce(M!Joined(s, e))
         /\ All(M!Joined(s, e)) \subseteq All(s) \cup {e}
<1>1. CASE \E i \in DOMAIN s : TextOf[s[i]] = TextOf[e]
  BY <1>1 DEF M!Joined
<1>2. CASE \A i \in DOMAIN s : TextOf[s[i]] # TextOf[e]
  <2> DEFINE more == Append(s, e)
             n == Len(s)
  <2>1. M!Joined(s, e) = more
    BY <1>2 DEF M!Joined
  <2>2. more \in Seq(Entries) /\ All(more) = All(s) \cup {e}
    BY AllOfMore
  <2>3. n \in Nat /\ DOMAIN s = 1 .. n /\ DOMAIN more = 1 .. n + 1 /\ more[n + 1] = e
        /\ \A i \in 1 .. n : more[i] = s[i]
    OBVIOUS
  <2> HIDE DEF more, n
  <2>4. EachOnce(more)
    <3> SUFFICES ASSUME NEW i \in 1 .. n + 1, NEW j \in 1 .. n + 1, TextOf[more[i]] = TextOf[more[j]]
                 PROVE  i = j
      BY <2>3 DEF EachOnce
    <3>1. \A k \in 1 .. n + 1 : k = n + 1 \/ k \in 1 .. n
      BY <2>3
    <3> QED
      BY <1>2, <2>3, <3>1 DEF EachOnce
  <2> QED
    BY <2>1, <2>2, <2>4
<1> QED
  BY <1>1, <1>2

\* Each text is there once, and is one of those given.
LEMMA FreshIs ==
  ASSUME NEW es \in Seq(Entries)
  PROVE  /\ M!Fresh(es) \in Seq(Entries) /\ EachOnce(M!Fresh(es)) /\ All(M!Fresh(es)) \subseteq All(es)
<1> DEFINE n == Len(es)
           So(a) == a \in Seq(Entries) /\ EachOnce(a) /\ All(a) \subseteq All(es)
<1>1. PICK f : Joins(es, f) /\ M!Fresh(es) = f[n]
  BY JoinsOne
<1>2. n \in Nat /\ DOMAIN es = 1 .. n
  OBVIOUS
<1> DEFINE Good == {i \in 0 .. n : So(f[i])}
<1>3. 0 \in Good
  <2>1. So(<<>>)
    BY DEF EachOnce, All
  <2> HIDE DEF So
  <2> QED
    BY <1>1, <1>2, <2>1 DEF Joins
<1>4. \A i \in 1 .. n : i - 1 \in Good => i \in Good
  <2> SUFFICES ASSUME NEW i \in 1 .. n, So(f[i - 1]) PROVE So(f[i])
    <3> HIDE DEF So, n
    <3> QED
      BY <1>2
  <2>1. f[i] = M!Joined(f[i - 1], es[i]) /\ es[i] \in Entries /\ es[i] \in All(es)
    BY <1>1 DEF Joins, All
  <2> QED
    BY <2>1, JoinedIs
<1>5. So(f[n])
  <2> HIDE DEF Good, So, n
  <2>1. \A i \in 0 .. n : i \in Good
    BY <1>2, <1>3, <1>4, Upward
  <2>2. n \in Good
    BY <1>2, <2>1
  <2> QED
    BY <2>2 DEF Good
<1> QED
  BY <1>1, <1>5

\* The first k of a list.
LEMMA FirstK ==
  ASSUME NEW s \in Seq(Entries), NEW k \in 0 .. Len(s)
  PROVE  /\ SubSeq(s, 1, k) \in Seq(Entries) /\ All(SubSeq(s, 1, k)) \subseteq All(s)
         /\ EachOnce(s) => EachOnce(SubSeq(s, 1, k))
<1> DEFINE p == SubSeq(s, 1, k)
<1>1. Len(s) \in Nat /\ k \in Nat /\ DOMAIN s = 1 .. Len(s) /\ \A i \in 1 .. k : s[i] \in Entries /\ i \in DOMAIN s
  OBVIOUS
<1>2. p \in Seq(Entries) /\ DOMAIN p = 1 .. k /\ \A i \in 1 .. k : p[i] = s[i]
  BY <1>1
<1> HIDE DEF p
<1>3. All(p) \subseteq All(s) /\ (EachOnce(s) => EachOnce(p))
  BY <1>1, <1>2 DEF All, EachOnce
<1> QED
  BY <1>2, <1>3 DEF p

\* Numbers up to n have a greatest one.
LEMMA GreatestNumber ==
  ASSUME NEW n \in Nat, NEW I \in SUBSET (0 .. n), I # {}
  PROVE  M!Max(I) \in I
<1> DEFINE Below == {n - i : i \in I}
<1>1. Below \in SUBSET Nat /\ Below # {}
  <2>1. \A i \in I : i \in 0 .. n /\ n - i \in Nat /\ n - i \in Below
    OBVIOUS
  <2>2. \E i \in I : TRUE
    OBVIOUS
  <2> QED
    BY <2>1, <2>2
<1>2. PICK m \in Below : \A k \in Below : m <= k
  BY <1>1, LeastNumber
<1>3. PICK i \in I : m = n - i
  OBVIOUS
<1>4. \A j \in I : i >= j
  BY <1>2, <1>3
<1> HIDE DEF Below
<1> QED
  BY <1>4, Zenon DEF M!Max

\* The file on the user has each of its texts once.
LEMMA UserIs ==
  ASSUME found \in [M!AllOf -> Seq(Entries)]
  PROVE  /\ M!HermesUser(found) \in Seq(Entries) /\ EachOnce(M!HermesUser(found))
         /\ All(M!HermesUser(found)) \subseteq All(found["user"])
<1> DEFINE es == M!Fresh(M!ByImportance(found["user"]))
           fit == {n \in 0 .. Len(es) : \A m \in 1 .. n : M!Total(SubSeq(es, 1, m)) + Reserve <= UserBudget}
<1>1. found["user"] \in Seq(Entries)
  BY DEF M!AllOf
<1>2. es \in Seq(Entries) /\ EachOnce(es) /\ All(es) \subseteq All(found["user"])
  BY <1>1, SortedIs, FreshIs
<1>3. M!HermesUser(found) = SubSeq(es, 1, M!Max(fit))
  BY Zenon DEF M!HermesUser
<1> HIDE DEF es
<1>4. Len(es) \in Nat
  BY <1>2
<1>5. fit \in SUBSET (0 .. Len(es)) /\ 0 \in fit
  BY <1>4
<1> HIDE DEF fit
<1>6. M!Max(fit) \in 0 .. Len(es)
  BY <1>4, <1>5, GreatestNumber
<1> QED
  BY <1>2, <1>3, <1>6, FirstK

\* The first few of a list are of it.
LEMMA FirstIs ==
  ASSUME NEW es \in Seq(Entries)
  PROVE  M!FirstOf(es) \in Seq(Entries) /\ All(M!FirstOf(es)) \subseteq All(es)
<1> DEFINE two == {MemoryK \div 4, Len(es)}
<1>1. Len(es) \in Nat /\ MemoryK \div 4 \in Nat
  <2>1. MemoryK \in Nat
    BY MirrorAssumption
  <2> QED
    BY <2>1
<1>2. \E m \in two : \A k \in two : m <= k
  BY <1>1
<1>3. M!Min(two) \in two /\ \A k \in two : M!Min(two) <= k
  <2> HIDE DEF two
  <2> QED
    BY <1>2, Zenon DEF M!Min
<1>4. M!Min(two) \in 0 .. Len(es)
  BY <1>1, <1>3
<1>5. M!FirstOf(es) = SubSeq(es, 1, M!Min(two))
  BY Zenon DEF M!FirstOf
<1> QED
  BY <1>4, <1>5, FirstK

Lists(f) ==
  f[0] = <<>> /\ \A i \in 1 .. Len(Layers) : f[i] = f[i - 1] \o M!FirstOf(found[Layers[i]])

\* The memory of OpenClaw lists one tier after another.
LEMMA ListsOne ==
  ASSUME found \in [M!AllOf -> Seq(Entries)]
  PROVE  \E f : Lists(f) /\ M!OpenClawMemory(found) = f[Len(Layers)]
<1> DEFINE n == Len(Layers)
           Vals == Seq(Entries)
           Then(i, a) == a \o M!FirstOf(found[Layers[i]])
           Is(g) == g = [i \in 0 .. n |-> IF i = 0 THEN <<>> ELSE Then(i, g[i - 1])]
           acc == CHOOSE g : Is(g)
           turn == [i \in 1 .. n |-> [a \in Vals |-> Then(i, a)]]
<1>1. n \in Nat /\ <<>> \in Vals
  BY MirrorAssumption
<1>2. ASSUME NEW i \in 1 .. n, NEW a \in Vals PROVE Then(i, a) \in Vals
  <2>1. found[Layers[i]] \in Seq(Entries)
    BY LayersAre
  <2>2. M!FirstOf(found[Layers[i]]) \in Seq(Entries)
    BY <2>1, FirstIs
  <2> QED
    BY <2>2
<1>3. M!OpenClawMemory(found) = acc[n]
  BY Zenon DEF M!OpenClawMemory
<1> HIDE DEF n, Then, Vals
<1>4. Recursed(Vals, <<>>, n, turn)
  <2>1. turn \in [1 .. n -> [Vals -> Vals]]
    BY <1>2
  <2> HIDE DEF turn
  <2> QED
    BY <1>1, <2>1, Recursion
<1>5. PICK g \in [0 .. n -> Vals] : g[0] = <<>> /\ \A i \in 1 .. n : g[i] = turn[i][g[i - 1]]
  BY <1>4 DEF Recursed
<1>6. Is(g)
  <2>1. \A i \in 1 .. n : g[i] = Then(i, g[i - 1])
    <3> SUFFICES ASSUME NEW i \in 1 .. n PROVE g[i] = Then(i, g[i - 1])
      OBVIOUS
    <3>1. g[i - 1] \in Vals
      BY <1>1
    <3> QED
      BY <1>5, <3>1
  <2> HIDE DEF turn
  <2>2. \A i \in 0 .. n : i = 0 \/ i \in 1 .. n
    BY <1>1
  <2>3. \A i \in 0 .. n : g[i] = IF i = 0 THEN <<>> ELSE Then(i, g[i - 1])
    BY <1>5, <2>1, <2>2
  <2> QED
    BY <2>3
<1>7. Is(acc)
  <2> HIDE DEF Is
  <2> QED
    BY <1>6, Zenon
<1>8. acc[0] = <<>> /\ \A i \in 1 .. n : acc[i] = Then(i, acc[i - 1])
  <2> HIDE DEF acc
  <2> QED
    BY <1>1, <1>7
<1> HIDE DEF acc, Is
<1>9. Lists(acc)
  BY <1>8 DEF Lists, Then, n
<1> QED
  BY <1>3, <1>9 DEF n

\* The memory of OpenClaw is of what was recalled.
LEMMA OpenClawIs ==
  ASSUME found \in [M!AllOf -> Seq(Entries)]
  PROVE  /\ M!OpenClawMemory(found) \in Seq(Entries)
         /\ \A d \in All(M!OpenClawMemory(found)) : \E x \in M!AllOf : d \in All(found[x])
<1> DEFINE n == Len(Layers)
           So(a) == a \in Seq(Entries) /\ \A d \in All(a) : \E x \in M!AllOf : d \in All(found[x])
<1>1. PICK f : Lists(f) /\ M!OpenClawMemory(found) = f[n]
  BY ListsOne
<1>2. n \in Nat
  BY LayersAre
<1> DEFINE Good == {i \in 0 .. n : So(f[i])}
<1>3. 0 \in Good
  <2>1. So(<<>>)
    BY DEF All
  <2> HIDE DEF So
  <2> QED
    BY <1>1, <1>2, <2>1 DEF Lists
<1>4. \A i \in 1 .. n : i - 1 \in Good => i \in Good
  <2> SUFFICES ASSUME NEW i \in 1 .. n, So(f[i - 1]) PROVE So(f[i])
    <3> HIDE DEF So, n
    <3> QED
      BY <1>2
  <2> DEFINE x == Layers[i]
             p == M!FirstOf(found[x])
             a == f[i - 1]
  <2>1. f[i] = a \o p /\ x \in M!AllOf /\ found[x] \in Seq(Entries)
    BY <1>1, LayersAre DEF Lists
  <2>2. p \in Seq(Entries) /\ All(p) \subseteq All(found[x])
    BY <2>1, FirstIs
  <2> HIDE DEF p, x, a
  <2>3. a \in Seq(Entries)
    BY DEF a
  <2>4. f[i] \in Seq(Entries) /\ All(f[i]) = All(a) \cup All(p)
    BY <2>1, <2>2, <2>3, AllOfTwo
  <2> QED
    BY <2>1, <2>2, <2>4 DEF a
<1>5. So(f[n])
  <2> HIDE DEF Good, So, n
  <2>1. \A i \in 0 .. n : i \in Good
    BY <1>2, <1>3, <1>4, Upward
  <2>2. n \in Good
    BY <1>2, <2>1
  <2> QED
    BY <2>2 DEF Good
<1> QED
  BY <1>1, <1>5

-----------------------------------------------------------------------------
(* Files written for agents: what a call has done so far.                   *)

\* What is on the way is of the call: of what the bank had when it began, each
\* answer of the tier that was asked for.
OfCall ==
  /\ bank \subseteq atStart
  /\ \A x \in M!AllOf : All(found[x]) \subseteq atStart
  /\ OwnTier
\* A call recalls, then writes, then has ended.
ReadsFirst ==
  /\ reads # <<>> => toWrite = <<>> /\ ~ ended
  /\ toWrite # <<>> => ~ ended
\* A file that is not still to be written is written.
WrittenSoFar ==
  toWrite # <<>> \/ ended =>
    \A f \in All(M!FilesOf[target]) : f \in All(toWrite) \/ files[f] = M!Content(f, found)

MirrorInv == M!MirrorTypeOK /\ OfCall /\ ReadsFirst /\ WrittenSoFar

\* A target has some files, and all but OpenClaw the memory of Hermes.
LEMMA MirrorFilesAre ==
  ASSUME NEW t \in DOMAIN M!FilesOf
  PROVE  /\ M!FilesOf[t] \in Seq(M!Files) /\ M!FilesOf[t] # <<>>
         /\ t # "openclaw" => "hermes/MEMORY" \in All(M!FilesOf[t])
<1> DEFINE oc == M!OpenClaw
           he == M!Hermes
           both == oc \o he
           Six == {"openclaw/MEMORY", "openclaw/USER", "openclaw/SOUL", "hermes/MEMORY", "hermes/USER", "hermes/SOUL"}
<1>1. oc = <<"openclaw/MEMORY", "openclaw/USER", "openclaw/SOUL">> /\ he = <<"hermes/MEMORY", "hermes/USER", "hermes/SOUL">>
  BY DEF M!OpenClaw, M!Hermes
<1>2. oc \in Seq(Six) /\ he \in Seq(Six) /\ oc # <<>> /\ he # <<>> /\ 1 \in DOMAIN he
      /\ he[1] = "hermes/MEMORY"
  <2>1. he[1] = "hermes/MEMORY" /\ Len(he) = 3 /\ Len(oc) = 3
    BY <1>1
  <2>2. oc \in Seq(Six)
    BY <1>1
  <2>3. he \in Seq(Six)
    BY <1>1
  <2> HIDE DEF oc, he, Six
  <2>4. oc # <<>> /\ he # <<>> /\ 1 \in DOMAIN he
    BY <2>1, <2>2, <2>3
  <2> QED
    BY <2>1, <2>2, <2>3, <2>4
<1>3. /\ t \in {"openclaw", "hermes", "both"}
      /\ M!FilesOf[t] = CASE t = "openclaw" -> oc [] t = "hermes" -> he [] t = "both" -> both
      /\ M!Files = All(both)
  BY DEF M!FilesOf, M!Files, M!ToSet, All
<1> HIDE DEF oc, he, Six
<1>4. both \in Seq(Six) /\ All(both) = All(oc) \cup All(he)
  BY <1>2, AllOfTwo
<1>5. both # <<>>
  BY <1>2
<1> HIDE DEF both
<1>6. \A s \in Seq(Six) : s \in Seq(All(s))
  BY DEF All
<1>7. \A s \in Seq(Six) : All(s) \subseteq All(both) => s \in Seq(All(both))
  BY <1>6
<1>8. oc \in Seq(All(both)) /\ he \in Seq(All(both)) /\ both \in Seq(All(both))
  BY <1>2, <1>4, <1>7
<1>9. "hermes/MEMORY" \in All(he)
  BY <1>2 DEF All
<1> QED
  BY <1>2, <1>3, <1>4, <1>5, <1>8, <1>9

\* Whatever the file, it is written from what the bank had, and texts for
\* USER.md are different.
LEMMA ContentIs ==
  ASSUME M!MirrorTypeOK, OfCall, NEW f
  PROVE  /\ M!Content(f, found) \in Seq(Entries) /\ All(M!Content(f, found)) \subseteq atStart
         /\ f \in {"openclaw/USER", "hermes/USER"} => EachOnce(M!Content(f, found))
<1>1. /\ found \in [M!AllOf -> Seq(Entries)] /\ OwnTier
      /\ \A x \in M!AllOf : All(found[x]) \subseteq atStart
      /\ "user" \in M!AllOf /\ "soul" \in M!AllOf
      /\ \A i \in 1 .. Len(Layers) : Layers[i] \in M!AllOf
  BY LayersAre DEF M!MirrorTypeOK, OfCall, M!AllOf
<1>2. CASE f = "openclaw/MEMORY"
  <2>1. M!Content(f, found) = M!OpenClawMemory(found)
    BY <1>2 DEF M!Content
  <2> QED
    BY <1>1, <1>2, <2>1, OpenClawIs
<1>3. CASE f = "openclaw/USER"
  <2>1. M!Content(f, found) = M!Fresh(found["user"])
    BY <1>3 DEF M!Content
  <2>2. found["user"] \in Seq(Entries) /\ All(found["user"]) \subseteq atStart
    BY <1>1
  <2> QED
    BY <2>1, <2>2, FreshIs
<1>4. CASE f = "hermes/MEMORY"
  <2>1. M!Content(f, found) = M!HermesMemory(found)
    BY <1>4 DEF M!Content
  <2>2. HermesSo(Len(Layers), M!HermesMemory(found))
    BY <1>1, HermesIs
  <2> QED
    BY <1>1, <1>4, <2>1, <2>2 DEF HermesSo
<1>5. CASE f = "hermes/USER"
  <2>1. M!Content(f, found) = M!HermesUser(found)
    BY <1>5 DEF M!Content
  <2>2. All(found["user"]) \subseteq atStart
    BY <1>1
  <2> QED
    BY <1>1, <2>1, <2>2, UserIs
<1>6. CASE f \notin {"openclaw/MEMORY", "openclaw/USER", "hermes/MEMORY", "hermes/USER"}
  <2>1. M!Content(f, found) = found["soul"]
    BY <1>6 DEF M!Content
  <2>2. found["soul"] \in Seq(Entries) /\ All(found["soul"]) \subseteq atStart
    BY <1>1
  <2> QED
    BY <1>6, <2>1, <2>2
<1> QED
  BY <1>2, <1>3, <1>4, <1>5, <1>6

\* An answer is of the bank and of the tier that was asked for.
LEMMA AnswersAre ==
  ASSUME bank \subseteq Entries, NEW what, NEW answer \in M!Answers(what)
  PROVE  /\ answer \in Seq(Entries) /\ All(answer) \subseteq bank
         /\ what \notin {"user", "soul"} => \A d \in All(answer) : TierOf[d] = what
<1> DEFINE near == {e \in bank : /\ ImportanceOf[e] >= Floor
                                 /\ CASE what = "user" -> TRUE
                                      [] what = "soul" -> TierOf[e] = Soul
                                      [] OTHER         -> TierOf[e] = what}
           k == CASE what = "user" -> UserK
                  [] OTHER         -> MemoryK
<1>1. answer \in UNION {M!SetToSeqs(s) : s \in {s \in SUBSET near : M!Cardinality(s) <= k}}
  BY Zenon DEF M!Answers
<1> HIDE DEF near, k
<1>2. PICK s \in SUBSET near : answer \in M!SetToSeqs(s)
  BY <1>1, Zenon
<1>3. near \subseteq bank /\ (what \notin {"user", "soul"} => \A d \in near : TierOf[d] = what)
  BY DEF near
<1> DEFINE n == Cardinality(s)
<1>4. answer \in [1 .. n -> s] /\ \A i, j \in 1 .. n : i # j => answer[i] # answer[j]
  BY <1>2, Zenon DEF M!SetToSeqs, M!Cardinality, Cardinality
<1>5. IsFiniteSet(s) /\ s \subseteq Entries
  BY <1>3, FS_Subset, MirrorAssumption
<1> HIDE DEF n
<1>6. n \in Nat /\ answer \in Seq(s) /\ All(answer) = s
  BY <1>4, <1>5, Orderings DEF n
<1>7. answer \in Seq(Entries)
  BY <1>5, <1>6
<1> QED
  BY <1>3, <1>6, <1>7

\* The invariant holds in the first states.
LEMMA MirrorStart == M!MirrorInit => MirrorInv
<1> SUFFICES ASSUME M!MirrorInit PROVE MirrorInv
  OBVIOUS
<1>1. /\ bank = Entries /\ atStart = Entries /\ target = "openclaw" /\ reads = <<>> /\ toWrite = <<>>
      /\ found = [x \in M!AllOf |-> <<>>] /\ files = [f \in M!Files |-> <<>>]
      /\ changes = 0 /\ syncs = 0 /\ ended = FALSE
  BY DEF M!MirrorInit
<1>2. MaxChanges \in Nat /\ MaxSyncs \in Nat
  BY MirrorAssumption
<1>3. M!MirrorTypeOK
  <2>1. target \in DOMAIN M!FilesOf
    BY <1>1 DEF M!FilesOf
  <2>2. reads \in Seq(M!AllOf) /\ toWrite \in Seq(M!Files) /\ found \in [M!AllOf -> Seq(Entries)]
        /\ files \in [M!Files -> Seq(Entries) \cup {M!Torn}]
    BY <1>1
  <2>3. changes \in 0 .. MaxChanges /\ syncs \in 0 .. MaxSyncs
    BY <1>1, <1>2
  <2>4. bank \subseteq Entries /\ atStart \subseteq Entries /\ ended \in BOOLEAN
    BY <1>1
  <2> QED
    BY <2>1, <2>2, <2>3, <2>4 DEF M!MirrorTypeOK
<1>4. found \in [M!AllOf -> Seq(Entries)]
  BY <1>1
<1>5. \A x \in M!AllOf : All(found[x]) = {}
  BY <1>1 DEF All
<1>6. OfCall
  BY <1>1, <1>4, <1>5, LayersAre DEF OfCall, OwnTier
<1> QED
  BY <1>1, <1>3, <1>6 DEF MirrorInv, ReadsFirst, WrittenSoFar

\* Call keeps the invariant.
LEMMA CallKeeps == ASSUME MirrorInv, NEW t \in DOMAIN M!FilesOf, M!Call(t) PROVE MirrorInv'
<1>1. /\ reads = <<>> /\ toWrite = <<>> /\ syncs < MaxSyncs /\ syncs' = syncs + 1 /\ target' = t
      /\ reads' = Layers \o <<"user", "soul">> /\ found' = [x \in M!AllOf |-> <<>>]
      /\ atStart' = bank /\ ended' = FALSE
      /\ UNCHANGED <<bank, toWrite, files, changes>>
  BY DEF M!Call
<1>2. reads' \in Seq(M!AllOf)
  <2>1. found \in [M!AllOf -> Seq(Entries)] /\ "user" \in M!AllOf /\ "soul" \in M!AllOf
    BY DEF MirrorInv, M!MirrorTypeOK, M!AllOf
  <2>2. Layers \in Seq(M!AllOf)
    <3>1. Layers \in Seq(STRING) /\ Len(Layers) \in Nat
      BY MirrorAssumption
    <3>2. \A i \in 1 .. Len(Layers) : Layers[i] \in M!AllOf
      BY <2>1, LayersAre
    <3> QED
      BY <3>1, <3>2
  <2>3. <<"user", "soul">> \in Seq(M!AllOf)
    BY <2>1
  <2> QED
    BY <1>1, <2>2, <2>3
<1>3. syncs' \in 0 .. MaxSyncs
  BY <1>1, MirrorAssumption DEF MirrorInv, M!MirrorTypeOK
<1>4. found' \in [M!AllOf -> Seq(Entries)] /\ \A x \in M!AllOf : found'[x] = <<>>
  BY <1>1
<1>5. M!MirrorTypeOK'
  BY <1>1, <1>2, <1>3, <1>4 DEF MirrorInv, M!MirrorTypeOK
<1>6. \A x \in M!AllOf : All(found'[x]) = {}
  BY <1>4 DEF All
<1>7. \A i \in 1 .. Len(Layers) : Layers[i] \in M!AllOf
  BY LayersAre DEF MirrorInv, M!MirrorTypeOK
<1>8. OfCall'
  BY <1>1, <1>6, <1>7 DEF OfCall, OwnTier
<1> QED
  BY <1>1, <1>5, <1>8 DEF MirrorInv, ReadsFirst, WrittenSoFar

\* Recall keeps the invariant.
LEMMA RecallKeeps == ASSUME MirrorInv, M!Recall PROVE MirrorInv'
<1> DEFINE what == Head(reads)
<1>1. /\ reads # <<>> /\ reads' = Tail(reads)
      /\ toWrite' = IF Tail(reads) = <<>> THEN M!FilesOf[target] ELSE <<>>
      /\ UNCHANGED <<bank, target, files, changes, syncs, atStart, ended>>
  BY DEF M!Recall
<1>2. PICK answer \in M!Answers(what) : found' = [found EXCEPT ![what] = answer]
  BY DEF M!Recall
<1>3. reads \in Seq(M!AllOf) /\ bank \subseteq Entries /\ found \in [M!AllOf -> Seq(Entries)] /\ target \in DOMAIN M!FilesOf
  BY DEF MirrorInv, M!MirrorTypeOK
<1>4. what \in M!AllOf /\ reads' \in Seq(M!AllOf)
  BY <1>1, <1>3
<1> HIDE DEF what
<1>5. /\ answer \in Seq(Entries) /\ All(answer) \subseteq bank
      /\ what \notin {"user", "soul"} => \A d \in All(answer) : TierOf[d] = what
  BY <1>3, AnswersAre
<1>6. found' \in [M!AllOf -> Seq(Entries)] /\ \A x \in M!AllOf : found'[x] = IF x = what THEN answer ELSE found[x]
  BY <1>2, <1>3, <1>4, <1>5
<1>7. toWrite' \in Seq(M!Files)
  BY <1>1, <1>3, MirrorFilesAre
<1>8. M!MirrorTypeOK'
  BY <1>1, <1>4, <1>6, <1>7 DEF MirrorInv, M!MirrorTypeOK
<1>9. \A i \in 1 .. Len(Layers) : Layers[i] \in M!AllOf /\ Layers[i] \notin {"user", "soul"}
  BY <1>3, LayersAre, MirrorAssumption
<1>10. OfCall'
  <2>1. \A x \in M!AllOf : All(found'[x]) \subseteq atStart
    BY <1>5, <1>6 DEF MirrorInv, OfCall
  <2>2. \A i \in 1 .. Len(Layers) : \A d \in All(found'[Layers[i]]) : TierOf[d] = Layers[i]
    BY <1>5, <1>6, <1>9 DEF MirrorInv, OfCall, OwnTier
  <2> QED
    BY <1>1, <2>1, <2>2 DEF MirrorInv, OfCall, OwnTier
<1>11. ReadsFirst'
  BY <1>1 DEF MirrorInv, ReadsFirst
<1>12. WrittenSoFar'
  <2>1. ~ ended'
    BY <1>1 DEF MirrorInv, ReadsFirst
  <2>2. toWrite' # <<>> => toWrite' = M!FilesOf[target']
    BY <1>1
  <2>3. toWrite' # <<>> => \A f \in All(M!FilesOf[target']) : f \in All(toWrite')
    BY <2>2
  <2> QED
    BY <2>1, <2>3 DEF WrittenSoFar
<1> QED
  BY <1>8, <1>10, <1>11, <1>12 DEF MirrorInv

\* A list is its first and the rest.
LEMMA AllOfTail ==
  ASSUME NEW V, NEW s \in Seq(V), s # <<>>
  PROVE  Tail(s) \in Seq(V) /\ Head(s) \in V /\ All(s) = All(Tail(s)) \cup {Head(s)}
<1> DEFINE rest == Tail(s)
           n == Len(s)
<1>1. n \in Nat /\ DOMAIN s = 1 .. n /\ 1 \in 1 .. n /\ Head(s) = s[1] /\ s[1] \in V
      /\ rest \in Seq(V) /\ DOMAIN rest = 1 .. n - 1 /\ \A i \in 1 .. n - 1 : rest[i] = s[i + 1]
  OBVIOUS
<1> HIDE DEF rest, n
<1>2. \A i \in 1 .. n - 1 : i + 1 \in 1 .. n /\ rest[i] = s[i + 1]
  BY <1>1
<1>3. \A i \in 1 .. n : i = 1 \/ (i - 1 \in 1 .. n - 1 /\ rest[i - 1] = s[i])
  BY <1>1
<1>4. All(rest) \subseteq All(s) /\ Head(s) \in All(s)
  <2>1. All(rest) \subseteq All(s)
    BY <1>1, <1>2 DEF All
  <2> QED
    BY <1>1, <2>1 DEF All
<1>5. All(s) \subseteq All(rest) \cup {Head(s)}
  BY <1>1, <1>3 DEF All
<1> QED
  BY <1>1, <1>4, <1>5 DEF rest

\* Write keeps the invariant.
LEMMA WriteKeeps == ASSUME MirrorInv, M!Write PROVE MirrorInv'
<1> DEFINE file == Head(toWrite)
<1>1. /\ toWrite # <<>> /\ files' = [files EXCEPT ![file] = M!Content(file, found)]
      /\ toWrite' = Tail(toWrite) /\ ended' = (Tail(toWrite) = <<>>)
      /\ UNCHANGED <<bank, target, reads, found, changes, syncs, atStart>>
  BY DEF M!Write
<1>2. /\ toWrite \in Seq(M!Files) /\ files \in [M!Files -> Seq(Entries) \cup {M!Torn}]
      /\ target \in DOMAIN M!FilesOf
  BY DEF MirrorInv, M!MirrorTypeOK
<1>3. toWrite' \in Seq(M!Files) /\ file \in M!Files /\ All(toWrite) = All(toWrite') \cup {file}
  BY <1>1, <1>2, AllOfTail
<1> HIDE DEF file
<1>4. M!Content(file, found) \in Seq(Entries)
  BY ContentIs DEF MirrorInv
<1>5. files' \in [M!Files -> Seq(Entries) \cup {M!Torn}]
  BY <1>1, <1>2, <1>4
<1>6. \A f \in M!Files : files'[f] = IF f = file THEN M!Content(file, found) ELSE files[f]
  BY <1>1, <1>2
<1>7. M!MirrorTypeOK'
  BY <1>1, <1>3, <1>5 DEF MirrorInv, M!MirrorTypeOK
<1>8. All(M!FilesOf[target]) \subseteq M!Files
  <2>1. M!FilesOf[target] \in Seq(M!Files)
    BY <1>2, MirrorFilesAre
  <2> QED
    BY <2>1 DEF All
<1>9. \A f \in All(M!FilesOf[target]) : f \in All(toWrite') \/ files'[f] = M!Content(f, found)
  <2>1. \A f \in All(M!FilesOf[target]) : f \in All(toWrite) \/ files[f] = M!Content(f, found)
    BY <1>1 DEF MirrorInv, WrittenSoFar
  <2> QED
    BY <1>3, <1>6, <1>8, <2>1
<1>10. WrittenSoFar'
  BY <1>1, <1>9 DEF WrittenSoFar
<1>11. ReadsFirst' /\ OfCall'
  BY <1>1 DEF MirrorInv, ReadsFirst, OfCall, OwnTier
<1> QED
  BY <1>7, <1>10, <1>11 DEF MirrorInv

\* Fails keeps the invariant.
LEMMA FailsKeeps == ASSUME MirrorInv, M!Fails PROVE MirrorInv'
<1>1. /\ reads # <<>> \/ toWrite # <<>>
      /\ UNCHANGED files \/ (toWrite # <<>> /\ files' = [files EXCEPT ![Head(toWrite)] = M!Torn])
      /\ reads' = <<>> /\ toWrite' = <<>>
      /\ UNCHANGED <<bank, target, found, changes, syncs, atStart, ended>>
  BY DEF M!Fails
<1>2. files \in [M!Files -> Seq(Entries) \cup {M!Torn}]
  BY DEF MirrorInv, M!MirrorTypeOK
<1>3. files' \in [M!Files -> Seq(Entries) \cup {M!Torn}]
  BY <1>1, <1>2
<1>4. reads' \in Seq(M!AllOf) /\ toWrite' \in Seq(M!Files)
  BY <1>1
<1>5. M!MirrorTypeOK'
  BY <1>1, <1>3, <1>4 DEF MirrorInv, M!MirrorTypeOK
<1>6. ~ ended'
  BY <1>1 DEF MirrorInv, ReadsFirst
<1>7. OfCall'
  BY <1>1 DEF MirrorInv, OfCall, OwnTier
<1> QED
  BY <1>1, <1>5, <1>6, <1>7 DEF MirrorInv, ReadsFirst, WrittenSoFar

\* Forget keeps the invariant.
LEMMA ForgetKeeps == ASSUME MirrorInv, NEW e \in Entries, M!Forget(e) PROVE MirrorInv'
<1>1. /\ changes < MaxChanges /\ changes' = changes + 1 /\ bank' = bank \ {e}
      /\ UNCHANGED <<target, reads, found, toWrite, files, syncs, atStart, ended>>
  BY DEF M!Forget
<1>2. changes' \in 0 .. MaxChanges
  BY <1>1, MirrorAssumption DEF MirrorInv, M!MirrorTypeOK
<1>3. M!MirrorTypeOK'
  BY <1>1, <1>2 DEF MirrorInv, M!MirrorTypeOK
<1>4. OfCall' /\ ReadsFirst' /\ WrittenSoFar'
  BY <1>1 DEF MirrorInv, OfCall, OwnTier, ReadsFirst, WrittenSoFar
<1> QED
  BY <1>3, <1>4 DEF MirrorInv

\* Every step keeps it.
LEMMA MirrorStep == MirrorInv /\ M!MirrorNext => MirrorInv'
BY CallKeeps, RecallKeeps, WriteKeeps, FailsKeeps, ForgetKeeps DEF M!MirrorNext

\* A step that leaves these variables alone keeps it.
LEMMA MirrorStutter == MirrorInv /\ UNCHANGED mirrorVars => MirrorInv'
<1> SUFFICES ASSUME MirrorInv, UNCHANGED mirrorVars PROVE MirrorInv'
  OBVIOUS
<1>1. UNCHANGED <<bank, target, reads, found, toWrite, files, changes, syncs, atStart, ended>>
  BY DEF mirrorVars
<1>2. M!MirrorTypeOK'
  BY <1>1 DEF MirrorInv, M!MirrorTypeOK
<1>3. OfCall' /\ ReadsFirst' /\ WrittenSoFar'
  BY <1>1 DEF MirrorInv, OfCall, OwnTier, ReadsFirst, WrittenSoFar
<1> QED
  BY <1>2, <1>3 DEF MirrorInv

\* It holds in every behaviour.
LEMMA MirrorAlways == Spec => []MirrorInv
<1>1. Init => MirrorInv
  BY MirrorStart DEF Init
<1>2. MirrorInv /\ [Next]_<<part, blockVars, graphVars, skillVars, archiveVars,
                            transferVars, chainVars, mirrorVars>> => MirrorInv'
  BY MirrorStep, MirrorStutter DEF Next
<1> QED
  BY <1>1, <1>2, PTL DEF Spec

\* What the invariant says of the fills.
LEMMA MirrorFills == MirrorInv => M!FillHolds
<1> SUFFICES ASSUME MirrorInv, ended, target # "openclaw"
             PROVE  LET kept == files["hermes/MEMORY"] IN
                      /\ kept # <<>> => M!Total(kept) + Reserve <= MemoryBudget
                      /\ \A t \in M!ToSet(Layers) : \A e \in M!ToSet(found[t]) \ M!ToSet(kept) :
                           /\ M!Total(kept) + LengthOf[e] + Reserve > MemoryBudget
                           /\ \A d \in M!ToSet(kept) : TierOf[d] = t /\ ImportanceOf[d] < ImportanceOf[e]
                                => LengthOf[d] < LengthOf[e]
  BY Zenon DEF M!FillHolds
<1> DEFINE kept == files["hermes/MEMORY"]
<1>1. toWrite = <<>> /\ found \in [M!AllOf -> Seq(Entries)] /\ OwnTier /\ target \in DOMAIN M!FilesOf
  BY DEF MirrorInv, ReadsFirst, M!MirrorTypeOK, OfCall
<1>2. "hermes/MEMORY" \in All(M!FilesOf[target]) /\ All(toWrite) = {}
  BY <1>1, MirrorFilesAre DEF All
<1>3. kept = M!Content("hermes/MEMORY", found)
  BY <1>2 DEF MirrorInv, WrittenSoFar
<1>4. kept = M!HermesMemory(found)
  BY <1>3 DEF M!Content
<1>5. HermesSo(Len(Layers), kept)
  BY <1>1, <1>4, HermesIs
<1> HIDE DEF kept
<1>6. \A t \in M!ToSet(Layers) : \E j \in 1 .. Len(Layers) : t = Layers[j]
  BY <1>1, LayersAre DEF M!ToSet
<1>7. \A s : M!ToSet(s) = All(s)
  BY DEF M!ToSet, All
<1>8. kept # <<>> => M!Total(kept) + Reserve <= MemoryBudget
  BY <1>5 DEF HermesSo
<1>9. ASSUME NEW t \in M!ToSet(Layers), NEW e \in All(found[t]) \ All(kept)
      PROVE  /\ M!Total(kept) + LengthOf[e] + Reserve > MemoryBudget
             /\ \A d \in All(kept) : TierOf[d] = t /\ ImportanceOf[d] < ImportanceOf[e] => LengthOf[d] < LengthOf[e]
  <2>1. PICK j \in 1 .. Len(Layers) : t = Layers[j]
    BY <1>6
  <2> QED
    BY <1>5, <2>1 DEF HermesSo
<1>10. /\ kept # <<>> => M!Total(kept) + Reserve <= MemoryBudget
       /\ \A t \in M!ToSet(Layers) : \A e \in M!ToSet(found[t]) \ M!ToSet(kept) :
            /\ M!Total(kept) + LengthOf[e] + Reserve > MemoryBudget
            /\ \A d \in M!ToSet(kept) : TierOf[d] = t /\ ImportanceOf[d] < ImportanceOf[e]
                 => LengthOf[d] < LengthOf[e]
  BY <1>7, <1>8, <1>9, Zenon
<1> QED
  BY <1>10, Zenon DEF kept

\* What it says of the files.
LEMMA MirrorFollows == MirrorInv => M!FilesFollow
<1> SUFFICES ASSUME MirrorInv, ended PROVE M!FilesFollow
  BY DEF M!FilesFollow
<1>1. toWrite = <<>> /\ All(toWrite) = {}
  BY DEF MirrorInv, ReadsFirst, All
<1>2. \A f \in All(M!FilesOf[target]) : files[f] = M!Content(f, found)
  BY <1>1 DEF MirrorInv, WrittenSoFar
<1>3. \A f \in All(M!FilesOf[target]) :
        /\ All(files[f]) \subseteq atStart
        /\ f \in {"openclaw/USER", "hermes/USER"} => EachOnce(files[f])
  BY <1>2, ContentIs DEF MirrorInv
<1>4. \A s : M!ToSet(s) = All(s)
  BY DEF M!ToSet, All
<1> QED
  BY <1>3, <1>4 DEF M!FilesFollow, EachOnce

\* Also however the bank changes while a call recalls, and wherever an earlier one
\* was cut off: when a call has ended well, Hermes' MEMORY.md is within its budget,
\* has left nothing out that would have fitted, nor anything more important than
\* what it took of the same tier unless it is longer (mcp_server.py:1306); no file
\* of its target has what was forgotten before it began, and USER.md no text twice
\* (mcp_server.py:1130).  With RoundTripAlways.
THEOREM FilesHoldAlways == Spec => []FilesHold
<1>1. TransferInv /\ MirrorInv => FilesHold
  BY TransferRounds, MirrorFills, MirrorFollows DEF FilesHold
<1> QED
  BY <1>1, TransferAlways, MirrorAlways, PTL

\* It holds in every behaviour.
LEMMA PartAlways == Spec => [](part \in {"blocks", "graph", "skills", "archive", "transfer", "chain", "mirror"})
<1> DEFINE Known == part \in {"blocks", "graph", "skills", "archive", "transfer", "chain", "mirror"}
<1>1. Init => Known
  BY DEF Init
<1>2. Known /\ [Next]_<<part, blockVars, graphVars, skillVars, archiveVars,
                        transferVars, chainVars, mirrorVars>> => Known'
  BY DEF Next
<1> QED
  BY <1>1, <1>2, PTL DEF Spec

\* Every variable of a store is of its type, whatever the constants.
THEOREM StoresTyped == Spec => []TypeOK
<1>1. /\ part \in {"blocks", "graph", "skills", "archive", "transfer", "chain", "mirror"}
      /\ BlocksInv /\ ArchiveInv /\ SkillsInv /\ ChainInv /\ GraphInv /\ TransferInv /\ MirrorInv
      => TypeOK
  <2>1. BlocksInv => B!BlocksTypeOK
    BY DEF BlocksInv
  <2>2. ArchiveInv => A!ArchiveTypeOK
    BY DEF ArchiveInv
  <2>3. SkillsInv => S!SkillsTypeOK
    BY DEF SkillsInv
  <2>4. ChainInv => C!ChainTypeOK
    BY DEF ChainInv
  <2>5. GraphInv => G!GraphTypeOK
    BY DEF GraphInv
  <2>6. TransferInv => T!TransferTypeOK
    BY DEF TransferInv
  <2>7. MirrorInv => M!MirrorTypeOK
    BY DEF MirrorInv
  <2> QED
    BY <2>1, <2>2, <2>3, <2>4, <2>5, <2>6, <2>7 DEF TypeOK
<1> QED
  BY <1>1, PartAlways, BlocksAlways, ArchiveAlways, SkillsAlways, ChainAlways, GraphAlways, TransferAlways,
     MirrorAlways, PTL

=============================================================================
