------------------------- MODULE PersistenceProofs -------------------------
(***************************************************************************)
(* What TLC checks of Persistence on three table contents, proved for any  *)
(* set of contents and any number of failing calls.                        *)
(***************************************************************************)
EXTENDS Persistence, TLAPS

(* Saving a database drops its view and keeps the rest. *)
LEMMA ImageFacts ==
    ASSUME NEW db \in Database
    PROVE  /\ Image(db) \in Database
           /\ ~Image(db).view
           /\ Image(db).data = db.data
           /\ Image(db).dup = db.dup
           /\ Image(db) \in Files
  BY PersistenceAssumption DEF Image, Database, Files

(* Whatever a load brings back is a file's contents. *)
LEMMA LoadResultFacts ==
    ASSUME main \in Files, bak \in Files
    PROVE  /\ LoadResult \in Database \cup {Absent}
           /\ LoadResult \in {main, bak, Absent}
  BY PersistenceAssumption DEF LoadResult, Importable, Files

LEMMA EmptyType == Empty \in Database
  BY PersistenceAssumption DEF Empty, Database

-----------------------------------------------------------------------------
(* Type correctness of the save protocol, every failure path included.     *)
THEOREM TypeCorrect == Spec => []TypeOK
<1>1. Init => TypeOK
  BY EmptyType DEF Init, TypeOK, Files
<1>2. TypeOK /\ [Next]_vars => TypeOK'
  <2> SUFFICES ASSUME TypeOK, [Next]_vars PROVE TypeOK'
    OBVIOUS
  <2> USE DEF TypeOK
  <2>1. CASE Write
    BY <2>1 DEF Write, Unlocked
  <2>2. ASSUME NEW who \in {"save", "autosave", "shutdown"}, BeginSave(who)
        PROVE  TypeOK'
    BY <2>2 DEF BeginSave, Files
  <2>3. CASE FillTmp
    BY <2>3, ImageFacts DEF FillTmp
  <2>4. CASE FillTmpFails
    BY <2>4 DEF FillTmpFails, EndSave
  <2>5. CASE Rotate
    BY <2>5 DEF Rotate, Files
  <2>6. CASE RotateFails
    BY <2>6 DEF RotateFails
  <2>7. CASE Install
    BY <2>7 DEF Install, Files
  <2>8. CASE InstallFails
    BY <2>8 DEF InstallFails, EndSave, Files
  <2>9. CASE Report
    BY <2>9 DEF Report, EndSave
  <2>10. CASE LoadDb
    BY <2>10, LoadResultFacts DEF LoadDb
  <2>11. CASE RequestShutdown
    BY <2>11 DEF RequestShutdown
  <2>12. CASE Halt
    BY <2>12, EmptyType DEF Halt
  <2>13. CASE Restart
    BY <2>13, EmptyType, LoadResultFacts DEF Restart
  <2>14. CASE Damage
    BY <2>14 DEF Damage, Files
  <2>15. CASE UNCHANGED vars
    BY <2>15 DEF vars
  <2>16. ASSUME NEW who \in {"save", "autosave", "shutdown"}, OpenFails(who)
         PROVE  TypeOK'
    BY <2>16 DEF OpenFails
  <2> QED
    BY <2>1, <2>2, <2>3, <2>4, <2>5, <2>6, <2>7, <2>8, <2>9, <2>10, <2>11,
       <2>12, <2>13, <2>14, <2>15, <2>16 DEF Next
<1> QED
  BY <1>1, <1>2, PTL DEF Spec

-----------------------------------------------------------------------------
(***************************************************************************)
(* Durability.  It holds while no file is damaged from outside and no      *)
(* table has a duplicate primary key; the two violation runs show that     *)
(* neither condition can be dropped.                                       *)
(***************************************************************************)
Healthy == DupKeys = {FALSE} /\ MaxFaults = 0

(* The save in progress holds the mutex, so memory is what it began to     *)
(* save; and neither readable file is ever the half-written one.           *)
SaveInv ==
    /\ faults = 0
    /\ main # Corrupt /\ bak # Corrupt
    /\ pc # "idle" => up /\ mem \in since
    /\ pc \in {"written", "rotated"} => tmp = Image(mem)
    /\ pc = "installed" => main = Image(mem)

DurableInv == TypeOK /\ SaveInv /\ NoAckedSaveLost

(* In a healthy store a file is either missing or can be loaded. *)
LEMMA HealthyLoad ==
    ASSUME Healthy, TypeOK, SaveInv
    PROVE  LoadResult = IF main # Absent THEN main ELSE bak
  BY PersistenceAssumption DEF Healthy, TypeOK, SaveInv, LoadResult, Importable, Files, Database

LEMMA DurableInit == Healthy /\ Init => DurableInv
<1> SUFFICES ASSUME Healthy, Init PROVE DurableInv
  OBVIOUS
<1>1. TypeOK
  BY EmptyType DEF Init, TypeOK, Files
<1>2. SaveInv
  BY PersistenceAssumption DEF Init, SaveInv
<1>3. LoadResult = Absent /\ acked = Absent
  BY <1>1, <1>2, HealthyLoad DEF Init
<1> QED
  BY <1>1, <1>2, <1>3 DEF DurableInv, NoAckedSaveLost

(* A step that leaves alone what a load would return, and forgets no save  *)
(* that is acknowledged or in flight, loses nothing.                       *)
LEMMA KeepLoadResult ==
    ASSUME NoAckedSaveLost, LoadResult' = LoadResult, acked' = acked,
           since \subseteq since'
    PROVE  NoAckedSaveLost'
  BY DEF NoAckedSaveLost

LEMMA DurableStep == Healthy /\ DurableInv /\ TypeOK' /\ [Next]_vars => DurableInv'
<1> SUFFICES ASSUME Healthy, DurableInv, TypeOK', [Next]_vars PROVE DurableInv'
  OBVIOUS
<1> USE DEF DurableInv
<1>h. LoadResult = IF main # Absent THEN main ELSE bak
  BY HealthyLoad
<1>l. main' = main /\ bak' = bak => LoadResult' = LoadResult
  BY DEF LoadResult, Importable
<1>k. SaveInv' => LoadResult' = IF main' # Absent THEN main' ELSE bak'
  BY PersistenceAssumption DEF Healthy, TypeOK, SaveInv, LoadResult, Importable, Files, Database
<1>f. /\ Image(mem) \in Database /\ mem \in Database
      /\ Absent \notin Database /\ Corrupt \notin Database /\ Absent # Corrupt
  BY ImageFacts, PersistenceAssumption DEF TypeOK
<1>1. CASE Write
  BY <1>1, <1>l, KeepLoadResult DEF Write, Unlocked, SaveInv
<1>2. ASSUME NEW who \in {"save", "autosave", "shutdown"}, BeginSave(who)
      PROVE  DurableInv'
  BY <1>2, <1>l, KeepLoadResult DEF BeginSave, Unlocked, SaveInv
<1>3. CASE FillTmp
  BY <1>3, <1>l, KeepLoadResult DEF FillTmp, SaveInv
<1>4. CASE FillTmpFails
  BY <1>4, <1>l, KeepLoadResult DEF FillTmpFails, EndSave, SaveInv
<1>5. CASE Rotate
  <2>1. SaveInv'
    BY <1>5, <1>f DEF Rotate, SaveInv
  <2>2. LoadResult' = LoadResult
    BY <1>5, <2>1, <1>h, <1>k DEF Rotate
  <2> QED
    BY <1>5, <2>1, <2>2, KeepLoadResult DEF Rotate
<1>6. CASE RotateFails
  BY <1>6, <1>l, KeepLoadResult DEF RotateFails, SaveInv
<1>7. CASE Install
  <2>1. SaveInv'
    BY <1>7, <1>f DEF Install, SaveInv
  <2>2. LoadResult' = Image(mem)
    BY <1>7, <2>1, <1>k, <1>f DEF Install, SaveInv
  <2>3. mem \in since'
    BY <1>7 DEF Install, SaveInv
  <2> QED
    BY <2>1, <2>2, <2>3, <1>f DEF NoAckedSaveLost
<1>8. CASE InstallFails
  BY <1>8, <1>l, KeepLoadResult DEF InstallFails, EndSave, SaveInv
<1>9. CASE Report
  <2>1. SaveInv'
    BY <1>9 DEF Report, EndSave, SaveInv
  <2>2. LoadResult' = Image(mem)
    BY <1>9, <2>1, <1>k, <1>f DEF Report, SaveInv
  <2>3. acked' = mem
    BY <1>9 DEF Report
  <2> QED
    BY <2>1, <2>2, <2>3, <1>f DEF NoAckedSaveLost
<1>10. CASE LoadDb
  BY <1>10, <1>l, KeepLoadResult DEF LoadDb, Unlocked, SaveInv
<1>11. CASE RequestShutdown
  BY <1>11, <1>l, KeepLoadResult DEF RequestShutdown, SaveInv
<1>12. CASE Halt
  BY <1>12, <1>l, KeepLoadResult DEF Halt, SaveInv
<1>13. CASE Restart
  BY <1>13, <1>l, KeepLoadResult DEF Restart, SaveInv
<1>14. CASE Damage
  BY <1>14 DEF Damage, Healthy, SaveInv
<1>15. CASE UNCHANGED vars
  BY <1>15, <1>l, KeepLoadResult DEF vars, SaveInv
<1>16. ASSUME NEW who \in {"save", "autosave", "shutdown"}, OpenFails(who)
       PROVE  DurableInv'
  BY <1>16, <1>l, KeepLoadResult DEF OpenFails, Unlocked, SaveInv
<1> QED
  BY <1>1, <1>2, <1>3, <1>4, <1>5, <1>6, <1>7, <1>8, <1>9, <1>10, <1>11,
     <1>12, <1>13, <1>14, <1>15, <1>16 DEF Next

(* No acknowledged save is ever lost, for any data, any interleaving of    *)
(* clients, autosave and shutdown, and any number of crashes and failures. *)
THEOREM Durability ==
    ASSUME Healthy
    PROVE  Spec => []NoAckedSaveLost
<1>1. Init => DurableInv
  BY DurableInit
<1>2. TypeOK' /\ DurableInv /\ [Next]_vars => DurableInv'
  BY DurableStep
<1>3. DurableInv => NoAckedSaveLost
  BY DEF DurableInv
<1> QED
  BY <1>1, <1>2, <1>3, TypeCorrect, PTL DEF Spec

-----------------------------------------------------------------------------
(* Of all the steps of a save only the last rename changes what a load     *)
(* would return, and it does so in one go.                                 *)
LEMMA OnlyInstallSaves ==
    ASSUME Healthy, DurableInv, DurableInv', [Next]_vars
    PROVE  \/ LoadResult' = LoadResult
           \/ Install /\ LoadResult' = Image(mem)
<1> USE DEF DurableInv
<1>h. /\ LoadResult = IF main # Absent THEN main ELSE bak
      /\ LoadResult' = IF main' # Absent THEN main' ELSE bak'
  BY PersistenceAssumption
  DEF Healthy, TypeOK, SaveInv, LoadResult, Importable, Files, Database
<1>f. Image(mem) # Absent
  BY ImageFacts, PersistenceAssumption DEF TypeOK
<1>1. CASE Rotate
  BY <1>1, <1>h DEF Rotate
<1>2. CASE Install
  BY <1>2, <1>h, <1>f DEF Install, SaveInv
<1>3. CASE main' = main /\ bak' = bak
  BY <1>3, <1>h
<1>4. CASE Damage
  BY <1>4 DEF Damage, Healthy, SaveInv
<1> QED
  BY <1>1, <1>2, <1>3, <1>4
  DEF Next, Write, BeginSave, OpenFails, FillTmp, FillTmpFails, RotateFails,
      InstallFails, Report, LoadDb, RequestShutdown, Halt, Restart, vars

(* Saving over a good save, a crash at any step of it included, never      *)
(* leaves nothing to load.                                                 *)
THEOREM GoodSaveKept ==
    ASSUME Healthy
    PROVE  Spec => KeepsAGoodSave
<1>1. Init => DurableInv
  BY DurableInit
<1>2. TypeOK' /\ DurableInv /\ [Next]_vars => DurableInv'
  BY DurableStep
<1>3. DurableInv /\ DurableInv' /\ [Next]_vars
      => [LoadResult # Absent /\ faults' = faults => LoadResult' # Absent]_vars
  <2> SUFFICES ASSUME DurableInv, DurableInv', [Next]_vars,
                      LoadResult # Absent
               PROVE  LoadResult' # Absent
    OBVIOUS
  <2>1. Image(mem) # Absent
    BY ImageFacts, PersistenceAssumption DEF DurableInv, TypeOK
  <2> QED
    BY <2>1, OnlyInstallSaves
<1> QED
  BY <1>1, <1>2, <1>3, TypeCorrect, PTL DEF Spec, KeepsAGoodSave

(* The file protocol implements the atomic store: Install is its Save, the *)
(* other steps of a save are invisible, and a load or restart after any    *)
(* crash brings back the durable image whole.                              *)
THEOREM Refinement ==
    ASSUME Healthy
    PROVE  Spec => ImplementsStore
<1>1. Init => DurableInv
  BY DurableInit
<1>2. TypeOK' /\ DurableInv /\ [Next]_vars => DurableInv'
  BY DurableStep
<1>3. Init => Store!StoreInit
  <2> SUFFICES ASSUME Init PROVE Store!StoreInit
    OBVIOUS
  <2>1. LoadResult = Absent
    BY PersistenceAssumption DEF Init, LoadResult, Importable
  <2> QED
    BY <2>1 DEF Init, Store!StoreInit, Empty
<1>4. DurableInv /\ DurableInv' /\ [Next]_vars
      => [Store!StoreNext]_(Store!storeVars)
  <2> SUFFICES ASSUME DurableInv, DurableInv', [Next]_vars
               PROVE  [Store!StoreNext]_(Store!storeVars)
    OBVIOUS
  <2> DEFINE Durable == IF LoadResult = Absent THEN Absent ELSE LoadResult.data
  <2>1. LoadResult' = LoadResult \/ (Install /\ LoadResult' = Image(mem))
    BY OnlyInstallSaves
  <2>2. mem \in Database /\ mem' \in Database
    BY DEF DurableInv, TypeOK
  <2>3. LoadResult \in Database \cup {Absent}
    BY LoadResultFacts DEF DurableInv, TypeOK
  <2>4. \A db \in Database : db.data \in Data /\ db.data # Absent
    BY PersistenceAssumption DEF Database
  <2>u. LoadResult' = LoadResult => Durable' = Durable
    OBVIOUS
  <2>5. CASE Install
    <3>1. Durable' = mem.data \/ LoadResult' = LoadResult
      BY <2>1, <2>2, ImageFacts, PersistenceAssumption
    <3>2. up /\ up' = up /\ mem' = mem
      BY <2>5 DEF Install
    <3>3. CASE Durable' = mem.data
      BY <3>2, <3>3 DEF Store!StoreNext, Store!Save
    <3>4. CASE LoadResult' = LoadResult
      BY <3>2, <3>4, <2>u DEF Store!storeVars
    <3> QED
      BY <3>1, <3>3, <3>4
  <2>6. CASE ~Install
    <3>1. Durable' = Durable
      BY <2>1, <2>6, <2>u
    <3>2. CASE Write
      BY <3>1, <3>2, <2>2, <2>4 DEF Write, Unlocked, Store!StoreNext, Store!Change
    <3>3. CASE LoadDb
      <4>1. CASE LoadResult = Absent
        BY <3>1, <3>3, <4>1 DEF LoadDb, Store!storeVars
      <4>2. CASE LoadResult # Absent
        BY <3>1, <3>3, <4>2, <2>3, <2>4
        DEF LoadDb, Unlocked, Store!StoreNext, Store!Load
      <4> QED
        BY <4>1, <4>2
    <3>4. CASE Halt
      BY <3>1, <3>4 DEF Halt, Empty, Store!StoreNext, Store!Die
    <3>5. CASE Restart
      BY <3>1, <3>5, <2>3, <2>4, PersistenceAssumption
      DEF Restart, Empty, Store!StoreNext, Store!Start
    <3>6. CASE mem' = mem /\ up' = up
      BY <3>1, <3>6 DEF Store!storeVars
    <3> QED
      BY <2>6, <3>2, <3>3, <3>4, <3>5, <3>6
      DEF Next, BeginSave, OpenFails, FillTmp, FillTmpFails, Rotate, RotateFails,
          InstallFails, Report, RequestShutdown, Damage, vars
  <2> QED
    BY <2>5, <2>6
<1> QED
  BY <1>1, <1>2, <1>3, <1>4, TypeCorrect, PTL
  DEF Spec, ImplementsStore, Store!StoreSpec
=============================================================================
