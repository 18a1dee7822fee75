-------------------------------- MODULE Upkeep --------------------------------
(***************************************************************************)
(* The maintenance commands of src/cli.py beside a running brain: vacuum,   *)
(* prune-empty-collections and fsck of src/backends/chroma.py, and the      *)
(* rotation of the event log of src/events.py.                              *)
(*                                                                          *)
(* A collection is reached by its name when a process opens the store, and  *)
(* by its id from then on.  The log is a file, which a writer opens by name *)
(* for each event; the journal of SQLite is left out.                       *)
(***************************************************************************)
EXTENDS Naturals, FiniteSets

CONSTANTS Names,       \* of tiers' collections
          Strange,     \* names of collections of old versions
          Hosts,       \* processes with the store open
          Vacuums,     \* running vacuum commands
          Loggers,     \* processes that log events
          Keep,        \* archives a rotation leaves
          MaxIds,      \* bound: collections ever made
          MaxEvents,   \* bound: events ever logged
          MaxRotations,
          None

VARIABLES named,       \* name -> id of its collection, or None
          rows,        \* id -> 0, 1 for any rows, or None when it is deleted
          made,        \* collections made so far
          handle,      \* host -> name -> id, from when it opened the store
          vacuum,      \* command -> the name it has deleted and not yet made, "new", or "done"
          log,         \* the file data/events.db: number of a file, or None
          held,        \* file -> events in it
          archives,    \* files that were rotated, or copies, the oldest first by number
          logging,     \* logger -> [file, event] it has open, or None
          events,      \* events committed
          pruned,      \* events in archives that were deleted
          rotation,    \* where the rotation is
          rotations

upkeepVars == <<named, rows, made, handle, vacuum, log, held, archives, logging, events, pruned, rotation, rotations>>
storeVars  == <<named, rows, made, handle, vacuum>>
logVars    == <<log, held, archives, logging, events, pruned, rotation, rotations>>

AllNames == Names \cup Strange
FileIds  == 1 .. 2 * MaxRotations + 2

UpkeepTypeOK ==
  /\ named \in [AllNames -> 1 .. MaxIds \cup {None}]
  /\ rows \in [1 .. MaxIds -> {0, 1, None}] /\ made \in 0 .. MaxIds
  /\ handle \in [Hosts -> [Names -> 1 .. MaxIds]]
  /\ vacuum \in [Vacuums -> Names \cup {"new", "done"}]
  /\ log \in FileIds \cup {None}
  /\ held \in [FileIds -> SUBSET (1 .. MaxEvents)] /\ archives \subseteq FileIds
  /\ logging \in [Loggers -> FileIds \cup {None}]
  /\ events \in 0 .. MaxEvents /\ pruned \subseteq 1 .. MaxEvents
  /\ rotation \in {"no", "moved", "prune"} /\ rotations \in 0 .. MaxRotations

Numbered == CHOOSE f \in [AllNames -> 1 .. Cardinality(AllNames)] : \A a, b \in AllNames : a # b => f[a] # f[b]

UpkeepInit ==
  /\ named = Numbered /\ made = Cardinality(AllNames)
  /\ \E full \in SUBSET AllNames :
       rows = [i \in 1 .. MaxIds |-> IF i > made THEN None
                                     ELSE IF \E n \in full : named[n] = i THEN 1 ELSE 0]
  /\ handle = [h \in Hosts |-> [n \in Names |-> named[n]]]
  /\ vacuum = [v \in Vacuums |-> "new"]
  /\ log = 1 /\ held = [f \in FileIds |-> {}] /\ archives = {}
  /\ logging = [l \in Loggers |-> None]
  /\ events = 0 /\ pruned = {} /\ rotation = "no" /\ rotations = 0

-----------------------------------------------------------------------------
(* Collections.                                                            *)

\* get_or_create_collection()
Obtain(n) ==
  IF named[n] # None
    THEN UNCHANGED <<named, rows, made>>
    ELSE /\ made < MaxIds /\ made' = made + 1
         /\ named' = [named EXCEPT ![n] = made + 1]
         /\ rows' = [rows EXCEPT ![made + 1] = 0]

\* A process opens the store anew.
Reopen(h) ==
  /\ \E n \in Names : rows[handle[h][n]] = None \/ named[n] = None
  /\ \E n \in Names :
       /\ handle[h][n] # named[n]
       /\ Obtain(n)
       /\ handle' = [handle EXCEPT ![h][n] = named'[n]]
  /\ UNCHANGED <<vacuum, logVars>>

\* add_chunks(): a handle of a collection that was deleted raises.
Add(h) ==
  /\ \E n \in Names : rows[handle[h][n]] = 0 /\ rows' = [rows EXCEPT ![handle[h][n]] = 1]
  /\ UNCHANGED <<named, made, handle, vacuum, logVars>>

\* vacuum_tier(): the collection is deleted by its name, and made again.
VacuumDelete(v) ==
  /\ vacuum[v] = "new"
  /\ \E n \in Names :
       IF named[n] = None
         THEN vacuum' = [vacuum EXCEPT ![v] = "done"] /\ UNCHANGED <<named, rows>>
         ELSE /\ vacuum' = [vacuum EXCEPT ![v] = n]
              /\ rows' = [rows EXCEPT ![named[n]] = None]
              /\ named' = [named EXCEPT ![n] = None]
  /\ UNCHANGED <<made, handle, logVars>>

VacuumMake(v) ==
  /\ vacuum[v] \in Names
  /\ Obtain(vacuum[v])
  /\ vacuum' = [vacuum EXCEPT ![v] = "done"]
  /\ UNCHANGED <<handle, logVars>>

\* An empty collection that is of no tier.
Prunable(n) == n \notin Names /\ named[n] # None /\ rows[named[n]] = 0

\* prune_empty_collections(), one of those it lists.
Prune ==
  /\ \E n \in AllNames :
       /\ Prunable(n)
       /\ rows' = [rows EXCEPT ![named[n]] = None]
       /\ named' = [named EXCEPT ![n] = None]
  /\ UNCHANGED <<made, handle, vacuum, logVars>>

-----------------------------------------------------------------------------
(* The event log.                                                          *)

NewFile == CHOOSE f \in FileIds : f \notin archives \cup {log} /\ held[f] = {}
           /\ \A l \in Loggers : logging[l] # f

\* record_event(): the file is opened, made if there is none, and the event
\* is committed to the file that was opened.
LogOpen(l) ==
  /\ logging[l] = None /\ events < MaxEvents
  /\ log' = IF log = None THEN NewFile ELSE log
  /\ logging' = [logging EXCEPT ![l] = log']
  /\ UNCHANGED <<storeVars, held, archives, events, pruned, rotation, rotations>>

LogCommit(l) ==
  /\ logging[l] # None /\ events < MaxEvents
  /\ events' = events + 1
  /\ IF \E f \in archives \cup {log} : f = logging[l]
       THEN held' = [held EXCEPT ![logging[l]] = @ \cup {events + 1}] /\ UNCHANGED pruned
       ELSE pruned' = pruned \cup {events + 1} /\ UNCHANGED held
  /\ logging' = [logging EXCEPT ![l] = None]
  /\ UNCHANGED <<storeVars, log, archives, rotation, rotations>>

\* cmd_rotate_events(): the file is renamed; with --gzip a copy of it is made.
Rotate ==
  /\ rotation = "no" /\ rotations < MaxRotations /\ log # None /\ held[log] # {}
  /\ rotations' = rotations + 1
  /\ \/ /\ archives' = archives \cup {NewFile}
        /\ held' = [held EXCEPT ![NewFile] = held[log]]
        /\ UNCHANGED log
     \/ /\ archives' = archives \cup {log}
        /\ log' = None
        /\ UNCHANGED held
  /\ rotation' = "moved"
  /\ UNCHANGED <<storeVars, logging, events, pruned>>

\* Mutated form of Touch: the new file is made empty.
TouchEmpty ==
  /\ rotation = "moved"
  /\ IF log = None THEN log' = NewFile /\ UNCHANGED held
                   ELSE held' = [held EXCEPT ![log] = {}] /\ UNCHANGED log
  /\ rotation' = "prune"
  /\ UNCHANGED <<storeVars, archives, logging, events, pruned, rotations>>

\* The log is there again, if no writer has made it meanwhile.
Touch ==
  /\ rotation = "moved"
  /\ log' = IF log = None THEN NewFile ELSE log
  /\ rotation' = "prune"
  /\ UNCHANGED <<storeVars, held, archives, logging, events, pruned, rotations>>

\* DUCKBOT_EVENTS_KEEP_ROTATED: which are the newest goes by a time that
\* writers move.
PruneArchives ==
  /\ rotation = "prune"
  /\ \E stay \in SUBSET archives :
       /\ Cardinality(stay) = IF Cardinality(archives) < Keep THEN Cardinality(archives) ELSE Keep
       /\ archives' = stay
       /\ pruned' = pruned \cup UNION {held[f] : f \in archives \ stay}
  /\ rotation' = "no"
  /\ UNCHANGED <<storeVars, log, held, logging, events, rotations>>

UpkeepNext ==
  \/ \E h \in Hosts : Reopen(h) \/ Add(h)
  \/ \E v \in Vacuums : VacuumDelete(v) \/ VacuumMake(v)
  \/ Prune \/ Rotate \/ Touch \/ PruneArchives
  \/ \E l \in Loggers : LogOpen(l) \/ LogCommit(l)

-----------------------------------------------------------------------------
(* Properties.                                                             *)

\* Maintenance beside a running brain loses nothing: each tier has its
\* collection unless a vacuum is about to make it again (chroma.py:592), and
\* each event that was committed is in the log or in an archive, unless the
\* archive was one too many (cli.py:664).
NothingSwept ==
  /\ \A n \in Names : named[n] = None => \E v \in Vacuums : vacuum[v] = n
  /\ \A e \in 1 .. events : e \in pruned \/ \E f \in archives \cup ({log} \ {None}) : e \in held[f]
=============================================================================
