------------------------------- MODULE Archive -------------------------------
(***************************************************************************)
(* The commands of src/cli.py and of scripts/ that treat data/ as a whole:  *)
(* backup, restore and reset.  One operator gives one command at a time,    *)
(* which may be killed between any two of its accesses to files; agents     *)
(* write to the stores all the while.                                       *)
(*                                                                          *)
(* A part of data/ is a store or a file of it; its content is the number of *)
(* the write that made it, Missing if there is none.  data/backups is no    *)
(* part: archives have places of their own.                                 *)
(***************************************************************************)
EXTENDS Naturals, Sequences

CONSTANTS Parts,        \* "chroma" is one of them
          Missing,      \* neither a content nor an archive
          MaxWrites,    \* bound: writes by agents
          MaxArchives,  \* bound: backups
          MaxCrashes    \* bound: commands that are killed

VARIABLES live,         \* part -> its content in data/
          writes,       \* writes so far
          archives,     \* [place, kind, whole, files]
          temp,         \* .restore-tmp-*: the files of an archive, or Missing
          cmd,          \* the command that runs: [name, step, n, force, todo, files]
          crashes,
          aim,          \* history: files of the archive that is being applied
          newer         \* history: parts written since the restore began

archiveVars == <<live, writes, archives, temp, cmd, crashes, aim, newer>>

Contents == 0 .. MaxWrites \cup {Missing}
Files    == [Parts -> Contents]
Places   == {"home", "data", "elsewhere", "deleted"}
Nothing  == [p \in Parts |-> Missing]
Kept(f)  == {p \in Parts : f[p] # Missing}
Archives == [place : Places, kind : {"zip", "tar"}, whole : BOOLEAN, files : Files]
Commands == [name : {"none", "backup", "restore", "reset"}, force : BOOLEAN, n : 0 .. MaxArchives,
             step : {"", "check", "clear", "copy"} \cup Places, todo : SUBSET Parts, files : Files]
Idle     == [name |-> "none", step |-> "", n |-> 0, force |-> FALSE, todo |-> {}, files |-> Nothing]

ArchiveTypeOK ==
  /\ live \in Files /\ writes \in 0 .. MaxWrites
  /\ archives \in Seq(Archives)
  /\ temp \in Files \cup {Missing} /\ aim \in Files \cup {Missing}
  /\ newer \subseteq Parts /\ crashes \in 0 .. MaxCrashes

ArchiveInit ==
  /\ live = Nothing /\ writes = 0 /\ archives = <<>> /\ temp = Missing
  /\ cmd = Idle /\ crashes = 0 /\ aim = Missing /\ newer = {}

Write(p) ==
  /\ writes < MaxWrites
  /\ writes' = writes + 1
  /\ live' = [live EXCEPT ![p] = writes + 1]
  /\ newer' = newer \cup {p}
  /\ UNCHANGED <<archives, temp, cmd, crashes, aim>>

-----------------------------------------------------------------------------
(* backup                                                                  *)

\* cmd_backup() writes the zip under its name, the script a tar elsewhere.
BackupOpen(kind, place) ==
  /\ cmd = Idle /\ Len(archives) < MaxArchives
  /\ kind = "tar" => place \in {"data", "elsewhere"}
  /\ archives' = Append(archives, [place |-> IF kind = "zip" THEN place ELSE "deleted", kind |-> kind,
                                   whole |-> FALSE, files |-> Nothing])
  /\ cmd' = [Idle EXCEPT !.name = "backup", !.step = place, !.n = Len(archives) + 1, !.todo = Kept(live)]
  /\ UNCHANGED <<live, writes, temp, crashes, aim, newer>>

\* One file is added; one that cannot be read is left out of a zip, and ends
\* the script.
BackupFile ==
  /\ cmd.name = "backup"
  /\ \E p \in cmd.todo :
       \/ cmd' = [cmd EXCEPT !.todo = @ \ {p}, !.files[p] = live[p]]
       \/ cmd' = IF archives[cmd.n].kind = "zip" THEN [cmd EXCEPT !.todo = @ \ {p}] ELSE Idle
  /\ UNCHANGED <<live, writes, archives, temp, crashes, aim, newer>>

BackupClose ==
  /\ cmd.name = "backup" /\ cmd.todo = {}
  /\ archives' = [archives EXCEPT ![cmd.n] = [@ EXCEPT !.place = cmd.step, !.whole = TRUE, !.files = cmd.files]]
  /\ cmd' = Idle
  /\ UNCHANGED <<live, writes, temp, crashes, aim, newer>>

-----------------------------------------------------------------------------
(* restore                                                                 *)

\* cmd_restore() refuses what is not a zip file with data/ in it, and
\* extracts the others into a directory of its own.
RestoreExtract(n, force) ==
  /\ cmd = Idle /\ n \in DOMAIN archives
  /\ archives[n].place # "deleted" /\ archives[n].kind = "zip" /\ archives[n].whole
  /\ Kept(archives[n].files) # {}
  /\ temp' = archives[n].files
  /\ newer' = {} /\ aim' = Missing
  /\ cmd' = [Idle EXCEPT !.name = "restore", !.step = "check", !.n = n, !.force = force]
  /\ UNCHANGED <<live, writes, archives, crashes>>

\* live_has_data looks for an SQLite file under chroma/ alone.
LiveHasData == live["chroma"] # Missing

RestoreCheck ==
  /\ cmd.name = "restore" /\ cmd.step = "check"
  /\ IF LiveHasData /\ ~ cmd.force
       THEN cmd' = Idle /\ UNCHANGED aim
       ELSE cmd' = [cmd EXCEPT !.step = "clear"] /\ aim' = temp
  /\ UNCHANGED <<live, writes, archives, temp, crashes, newer>>

Here == {n \in DOMAIN archives : archives[n].place = "data"}

\* copy_tree(): everything under data/ goes, archives too, one by one ...
RestoreClear ==
  /\ cmd.name = "restore" /\ cmd.step = "clear"
  /\ \/ \E p \in Kept(live) : live' = [live EXCEPT ![p] = Missing] /\ UNCHANGED <<archives, cmd>>
     \/ \E n \in Here : archives' = [archives EXCEPT ![n].place = "deleted"] /\ UNCHANGED <<live, cmd>>
     \/ /\ Kept(live) \subseteq newer /\ Here = {}
        /\ cmd' = [cmd EXCEPT !.step = "copy", !.todo = Kept(temp)]
        /\ UNCHANGED <<live, archives>>
  /\ UNCHANGED <<writes, temp, crashes, aim, newer>>

\* Mutated form of RestoreCopy: files are moved out of the temporary directory.
CopyMoves ==
  /\ cmd.name = "restore" /\ cmd.step = "copy"
  /\ \E p \in cmd.todo :
       /\ live' = [live EXCEPT ![p] = temp[p]]
       /\ temp' = [temp EXCEPT ![p] = Missing]
       /\ newer' = newer \ {p}
       /\ cmd' = [cmd EXCEPT !.todo = @ \ {p}]
  /\ UNCHANGED <<writes, archives, crashes, aim>>

\* ... and then the files come, one by one.
RestoreCopy ==
  /\ cmd.name = "restore" /\ cmd.step = "copy"
  /\ \E p \in cmd.todo :
       /\ live' = [live EXCEPT ![p] = temp[p]]
       /\ newer' = newer \ {p}
       /\ cmd' = [cmd EXCEPT !.todo = @ \ {p}]
  /\ UNCHANGED <<writes, archives, temp, crashes, aim>>

RestoreEnd ==
  /\ cmd.name = "restore" /\ cmd.step = "copy" /\ cmd.todo = {}
  /\ temp' = Missing /\ aim' = Missing /\ cmd' = Idle
  /\ UNCHANGED <<live, writes, archives, crashes, newer>>

\* restore-brain.sh adds the export in a tar to a brain without vectors.
ScriptRestore(n, force) ==
  /\ cmd = Idle /\ n \in DOMAIN archives /\ writes < MaxWrites
  /\ archives[n].place # "deleted" /\ archives[n].kind = "tar" /\ archives[n].whole
  /\ archives[n].files["export"] # Missing
  /\ LiveHasData => force
  /\ writes' = writes + 1
  /\ live' = [live EXCEPT !["chroma"] = writes + 1]
  /\ newer' = newer \cup {"chroma"}
  /\ UNCHANGED <<archives, temp, cmd, crashes, aim>>

-----------------------------------------------------------------------------
(* reset                                                                   *)

\* cmd_reset() looks for archives where they usually are, then wipes chroma/
\* in two goes: store.reset(), and the directory.
ResetCheck ==
  /\ cmd = Idle
  /\ \A n \in DOMAIN archives : archives[n].place \notin {"home", "data"}
  /\ cmd' = [Idle EXCEPT !.name = "reset"]
  /\ UNCHANGED <<live, writes, archives, temp, crashes, aim, newer>>

ResetWipe ==
  /\ cmd.name = "reset"
  /\ live' = [live EXCEPT !["chroma"] = Missing]
  /\ cmd' \in {cmd, Idle}
  /\ UNCHANGED <<writes, archives, temp, crashes, aim, newer>>

Kill ==
  /\ cmd # Idle /\ crashes < MaxCrashes
  /\ crashes' = crashes + 1
  /\ cmd' = Idle
  /\ UNCHANGED <<live, writes, archives, temp, aim, newer>>

ArchiveNext ==
  \/ \E p \in Parts : Write(p)
  \/ \E k \in {"zip", "tar"}, p \in Places \ {"deleted"} : BackupOpen(k, p)
  \/ BackupFile \/ BackupClose
  \/ \E n \in 1 .. MaxArchives, f \in BOOLEAN : RestoreExtract(n, f) \/ ScriptRestore(n, f)
  \/ RestoreCheck \/ RestoreClear \/ RestoreCopy \/ RestoreEnd
  \/ ResetCheck \/ ResetWipe \/ Kill

-----------------------------------------------------------------------------
(* Properties.                                                             *)

\* From the moment a restore takes the first file of the live brain away, and
\* also when it is killed then, all it was to bring is still on disk in one
\* place, even if the archive was under data/ and is gone (cli.py:1207).
SomeCopyRemains ==
  aim # Missing =>
    temp = aim \/ \E n \in DOMAIN archives : archives[n].place # "deleted" /\ archives[n].files = aim

\* When a restore ends, data/ is as the archive has it: what is there besides
\* was written while the restore ran (cli.py:1209).
AppliedIsArchived ==
  [][cmd.name = "restore" /\ cmd.step = "copy" /\ cmd' = Idle /\ crashes' = crashes =>
       \A p \in Parts \ newer : live[p] = aim[p]]_archiveVars

\* What makes AppliedIsArchived so: the command that runs is of its type, and a
\* backup has the archive it opened (cli.py:1050) ...
CommandOK ==
  /\ cmd \in Commands
  /\ cmd.name = "backup" => cmd.step \in Places /\ cmd.n \in DOMAIN archives

\* ... and a restore applies what it extracted: before the copy it has left
\* nothing behind, and what is not to come still has come (cli.py:1209).
Applying ==
  /\ aim # Missing => temp = aim
  /\ cmd.name = "restore" => temp \in Files /\ (cmd.step \in {"clear", "copy"} => aim = temp)
  /\ cmd.name = "restore" /\ cmd.step = "copy" =>
       \A p \in Parts \ newer : p \notin cmd.todo => live[p] = temp[p]

\* Data of the live brain are overwritten only by a restore with --force
\* (cli.py:1100).
KeptWithoutForce ==
  [][cmd.name = "restore" /\ ~ cmd.force => \A p \in Kept(live) : live'[p] # Missing]_archiveVars
=============================================================================
