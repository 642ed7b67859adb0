---------------------------- MODULE DurableStore ----------------------------
(***************************************************************************)
(* What SAVE, LOAD and `a3sql-server --db` promise, with the files left    *)
(* out: a memory image, one durable image, and a process that can die at   *)
(* any moment.  A save replaces the durable image in one step; a load or a *)
(* restart brings it back whole; nothing else touches it.  Persistence is  *)
(* the detailed specification that implements this one.                    *)
(***************************************************************************)
CONSTANTS Data,        \* table contents a database may hold
          NoData,      \* the contents of the empty database
          Nothing      \* no durable image exists yet

VARIABLES memory,      \* contents of the running database
          durable,     \* contents a load would bring back, or Nothing
          running      \* is the process alive

storeVars == <<memory, durable, running>>

StoreInit ==
    /\ memory = NoData
    /\ durable = Nothing
    /\ running = TRUE

(* A client changes the database. *)
Change ==
    /\ running
    /\ memory' \in Data
    /\ UNCHANGED <<durable, running>>

(* A save takes effect: all of the memory image, at once. *)
Save ==
    /\ running
    /\ durable' = memory
    /\ UNCHANGED <<memory, running>>

(* A load replaces the memory image by the durable one. *)
Load ==
    /\ running
    /\ durable # Nothing
    /\ memory' = durable
    /\ UNCHANGED <<durable, running>>

(* The process dies, at any point of any operation. *)
Die ==
    /\ running
    /\ running' = FALSE
    /\ memory' = NoData
    /\ UNCHANGED durable

(* A new process starts from the durable image. *)
Start ==
    /\ ~running
    /\ running' = TRUE
    /\ memory' = IF durable = Nothing THEN NoData ELSE durable
    /\ UNCHANGED durable

StoreNext == Change \/ Save \/ Load \/ Die \/ Start

StoreSpec == StoreInit /\ [][StoreNext]_storeVars
=============================================================================
