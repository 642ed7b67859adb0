---------------------------- MODULE Persistence ----------------------------
(***************************************************************************)
(* The save file of an A3SQL process: handle_save / handle_load (client    *)
(* SAVE and LOAD), persist_save / persist_load (the --db file), the        *)
(* autosave thread, the final save of graceful_shutdown, and a process     *)
(* that may die between any two file-system calls.                         *)
(*                                                                         *)
(* A save is four steps under the database mutex: truncate <file>.tmp,     *)
(* fill it, rename <file> to <file>.bak, rename <file>.tmp to <file>.      *)
(* Every step may fail, and the process may be killed between two of them. *)
(* A load reads <file>, then <file>.bak, and never <file>.tmp.             *)
(*                                                                         *)
(* A database is abstracted to what a reload can tell apart: the table     *)
(* contents, whether it has a view, and whether some table holds two rows  *)
(* with one primary key.                                                   *)
(***************************************************************************)
EXTENDS Naturals

CONSTANTS Data,          \* table contents
          NoData,        \* contents of the empty database
          DupKeys,       \* values the dup flag may take: {FALSE} or BOOLEAN
          MaxFailures,   \* bound: failing file-system calls
          MaxFaults,     \* bound: saves damaged on disk behind the program's back
          Absent,        \* the file does not exist
          Corrupt        \* the file exists and its checksum does not match

Database == [data : Data, view : BOOLEAN, dup : DupKeys]

ASSUME PersistenceAssumption ==
    /\ NoData \in Data
    /\ FALSE \in DupKeys /\ DupKeys \subseteq BOOLEAN
    /\ Absent \notin Database /\ Corrupt \notin Database /\ Absent # Corrupt
    /\ Absent \notin Data
    /\ MaxFailures \in Nat /\ MaxFaults \in Nat

Empty == [data |-> NoData, view |-> FALSE, dup |-> FALSE]

(* export_binary writes tables only: views do not reach the file. *)
Image(db) == [db EXCEPT !.view = FALSE]

(* import_binary re-inserts every row through Table::insert, so a file     *)
(* holding a duplicate primary key is rejected like a corrupt one.         *)
Importable(f) == f \in Database /\ ~f.dup

Files == {db \in Database : ~db.view} \cup {Absent, Corrupt}

VARIABLES mem,        \* the Database behind the DB mutex
          up,         \* is the process alive
          main,       \* <file>
          bak,        \* <file>.bak
          tmp,        \* <file>.tmp
          pc,         \* step of the save in progress (it holds the mutex)
          saver,      \* who is saving: "save", "autosave" or "shutdown"
          stopping,   \* "no", then "requested" (SIGINT), then "saved"
          acked,      \* the last save reported successful, or Absent
          since,      \* databases whose save began after that one
          failures,   \* file-system calls that have failed
          faults      \* files damaged from outside

vars == <<mem, up, main, bak, tmp, pc, saver, stopping, acked, since,
          failures, faults>>

TypeOK ==
    /\ mem \in Database
    /\ up \in BOOLEAN
    /\ main \in Files /\ bak \in Files /\ tmp \in Files
    /\ pc \in {"idle", "truncated", "written", "rotated", "installed"}
    /\ saver \in {"save", "autosave", "shutdown"}
    /\ stopping \in {"no", "requested", "saved"}
    /\ acked \in Database \cup {Absent}
    /\ since \subseteq Database
    /\ failures \in Nat /\ faults \in Nat

Init ==
    /\ mem = Empty /\ up = TRUE
    /\ main = Absent /\ bak = Absent /\ tmp = Absent
    /\ pc = "idle" /\ saver = "save" /\ stopping = "no"
    /\ acked = Absent /\ since = {}
    /\ failures = 0 /\ faults = 0

-----------------------------------------------------------------------------
(* Mutant: a load that does not fall back to <file>.bak. *)
LoadMainOnly == IF Importable(main) THEN main ELSE Absent

(* What a load started now would bring back: the main save, else the       *)
(* backup, else nothing.                                                   *)
LoadResult ==
    IF Importable(main) THEN main
    ELSE IF Importable(bak) THEN bak
    ELSE Absent

(* The mutex is free: no save is between two of its steps. *)
Unlocked == up /\ pc = "idle"

(* Any statement that changes the database. *)
Write ==
    /\ Unlocked
    /\ mem' \in Database
    /\ UNCHANGED <<up, main, bak, tmp, pc, saver, stopping, acked, since,
                   failures, faults>>

(* Mutant: the autosave loop ends at the first error. *)
BeginSaveUntilError(who) ==
    /\ Unlocked
    /\ who = "shutdown" => stopping = "requested"
    /\ who = "autosave" => failures = 0
    /\ pc' = "truncated" /\ saver' = who
    /\ tmp' = Corrupt
    /\ since' = since \cup {mem}
    /\ UNCHANGED <<mem, up, main, bak, stopping, acked, failures, faults>>

(* A save takes the mutex and opens <file>.tmp, which truncates it. *)
BeginSave(who) ==
    /\ Unlocked
    /\ who = "shutdown" => stopping = "requested"
    /\ pc' = "truncated" /\ saver' = who
    /\ tmp' = Corrupt
    /\ since' = since \cup {mem}
    /\ UNCHANGED <<mem, up, main, bak, stopping, acked, failures, faults>>

(* The save is over and the mutex free.  graceful_shutdown goes on to      *)
(* return from main whether or not its save succeeded.                     *)
EndSave ==
    /\ pc' = "idle"
    /\ stopping' = IF saver = "shutdown" THEN "saved" ELSE stopping

(* <file>.tmp cannot be opened: the save ends before it has begun. *)
OpenFails(who) ==
    /\ Unlocked
    /\ who = "shutdown" => stopping = "requested"
    /\ failures < MaxFailures /\ failures' = failures + 1
    /\ stopping' = IF who = "shutdown" THEN "saved" ELSE stopping
    /\ UNCHANGED <<mem, up, main, bak, tmp, pc, saver, acked, since, faults>>

(* write_all succeeds: the whole image is in <file>.tmp. *)
FillTmp ==
    /\ up /\ pc = "truncated"
    /\ tmp' = Image(mem)
    /\ pc' = "written"
    /\ UNCHANGED <<mem, up, main, bak, saver, stopping, acked, since,
                   failures, faults>>

(* write_all fails half way: the partial file is left behind. *)
FillTmpFails ==
    /\ up /\ pc = "truncated"
    /\ failures < MaxFailures /\ failures' = failures + 1
    /\ EndSave
    /\ UNCHANGED <<mem, up, main, bak, tmp, saver, acked, since, faults>>

(* Mutant: <file>.bak is replaced even when there is no <file>. *)
RotateAlways ==
    /\ up /\ pc = "written"
    /\ pc' = "rotated"
    /\ bak' = main /\ main' = Absent
    /\ UNCHANGED <<mem, up, tmp, saver, stopping, acked, since,
                   failures, faults>>

(* Keep the previous save as .bak: only when <file> exists. *)
Rotate ==
    /\ up /\ pc = "written"
    /\ pc' = "rotated"
    /\ IF main = Absent
       THEN UNCHANGED <<main, bak>>
       ELSE bak' = main /\ main' = Absent
    /\ UNCHANGED <<mem, up, tmp, saver, stopping, acked, since,
                   failures, faults>>

(* ... whose error is ignored. *)
RotateFails ==
    /\ up /\ pc = "written" /\ main # Absent
    /\ failures < MaxFailures /\ failures' = failures + 1
    /\ pc' = "rotated"
    /\ UNCHANGED <<mem, up, main, bak, tmp, saver, stopping, acked, since,
                   faults>>

(* Rename <file>.tmp over <file>. *)
Install ==
    /\ up /\ pc = "rotated"
    /\ main' = tmp /\ tmp' = Absent
    /\ pc' = "installed"
    /\ UNCHANGED <<mem, up, bak, saver, stopping, acked, since,
                   failures, faults>>

(* The save returns Ok: from here on its caller counts on it. *)
Report ==
    /\ up /\ pc = "installed"
    /\ acked' = mem /\ since' = {}
    /\ EndSave
    /\ UNCHANGED <<mem, up, main, bak, tmp, saver, failures, faults>>

(* The rename fails: handle_save removes the temporary file, persist_save  *)
(* leaves it.                                                              *)
InstallFails ==
    /\ up /\ pc = "rotated"
    /\ failures < MaxFailures /\ failures' = failures + 1
    /\ tmp' = IF saver = "save" THEN Absent ELSE tmp
    /\ EndSave
    /\ UNCHANGED <<mem, up, main, bak, saver, acked, since, faults>>

(* Mutant: LOAD swaps in whatever the read brought, nothing included. *)
LoadUnasked ==
    /\ Unlocked
    /\ mem' = LoadResult
    /\ UNCHANGED <<up, main, bak, tmp, pc, saver, stopping, acked, since,
                   failures, faults>>

(* LOAD: swap in what was read, or answer with an error and keep memory.   *)
LoadDb ==
    /\ Unlocked
    /\ mem' = IF LoadResult = Absent THEN mem ELSE LoadResult
    /\ UNCHANGED <<up, main, bak, tmp, pc, saver, stopping, acked, since,
                   failures, faults>>

-----------------------------------------------------------------------------
(* SIGINT: main leaves its loop and enters graceful_shutdown. *)
RequestShutdown ==
    /\ up /\ stopping = "no"
    /\ stopping' = "requested"
    /\ UNCHANGED <<mem, up, main, bak, tmp, pc, saver, acked, since,
                   failures, faults>>

(* The process ends and loses its memory.  After graceful_shutdown main    *)
(* returns, which kills the autosave and client threads wherever they are; *)
(* a crash does the same at any time.                                      *)
Halt ==
    /\ up /\ up' = FALSE
    /\ mem' = Empty /\ pc' = "idle" /\ stopping' = "no"
    /\ UNCHANGED <<main, bak, tmp, saver, acked, since, failures, faults>>

(* Mutant: recovery that prefers a complete <file>.tmp. *)
RestartFromTmp ==
    /\ ~up /\ up' = TRUE
    /\ mem' = IF Importable(tmp) THEN tmp
              ELSE IF LoadResult = Absent THEN Empty ELSE LoadResult
    /\ UNCHANGED <<main, bak, tmp, pc, saver, stopping, acked, since,
                   failures, faults>>

(* start_server: persist_load, and a failed load is only logged. *)
Restart ==
    /\ ~up /\ up' = TRUE
    /\ mem' = IF LoadResult = Absent THEN Empty ELSE LoadResult
    /\ UNCHANGED <<main, bak, tmp, pc, saver, stopping, acked, since,
                   failures, faults>>

(* The environment damages <file>: the case the checksum is there for. *)
Damage ==
    /\ faults < MaxFaults /\ faults' = faults + 1
    /\ main \in Database
    /\ main' = Corrupt
    /\ UNCHANGED <<mem, up, bak, tmp, pc, saver, stopping, acked, since,
                   failures>>

Next ==
    \/ Write
    \/ \E who \in {"save", "autosave", "shutdown"} : BeginSave(who) \/ OpenFails(who)
    \/ FillTmp \/ FillTmpFails
    \/ Rotate \/ RotateFails
    \/ Install \/ InstallFails \/ Report
    \/ LoadDb
    \/ RequestShutdown \/ Halt \/ Restart
    \/ Damage

Spec == Init /\ [][Next]_vars

(* The autosave thread loops for as long as the process lives, and a save  *)
(* that has begun runs on: no client has to cooperate for either.          *)
SaveStep == FillTmp \/ Rotate \/ Install \/ Report
FairSpec ==
    /\ Spec
    /\ WF_vars(BeginSave("autosave"))
    /\ WF_vars(SaveStep)

-----------------------------------------------------------------------------
(* No acknowledged save is lost, whatever call fails and wherever the      *)
(* process dies: what a load would bring back is the last save reported    *)
(* successful, or one begun after it; and never a torn or an older file.   *)
NoAckedSaveLost ==
    \/ LoadResult = Absent /\ acked = Absent
    \/ \E db \in Database : db \in since \cup {acked} /\ LoadResult = Image(db)

(* The program's own steps never make the last loadable save unloadable:   *)
(* "a crash never corrupts the last good save" (persist_save).             *)
KeepsAGoodSave ==
    [][LoadResult # Absent /\ faults' = faults => LoadResult' # Absent]_vars

(* A change that stays in memory reaches the disk: the autosave thread     *)
(* gets to it unless it is overwritten or the process dies first, also     *)
(* after calls have failed and after the main file was damaged.            *)
ChangesReachDisk ==
    \A db \in Database :
        (up /\ mem = db) ~> (LoadResult = Image(db) \/ mem # db \/ ~up)

(* Seen from outside, the file steps are invisible: saves are atomic and   *)
(* loads whole.                                                            *)
Store == INSTANCE DurableStore WITH
            Nothing <- Absent,
            memory  <- mem.data,
            durable <- IF LoadResult = Absent THEN Absent ELSE LoadResult.data,
            running <- up
ImplementsStore == Store!StoreSpec
=============================================================================
