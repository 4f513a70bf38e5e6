-------------------------- MODULE DaemonLife_proofs --------------------------
(***************************************************************************)
(* Proofs about DaemonLife for any number of daemons, columns and faults.  *)
(*                                                                         *)
(* The refinement needs two facts that its statement does not show: being  *)
(* at a point between RequestName and conn.Close is the same as owning the *)
(* name, and a daemon in the middle of its migration knows, in todo, every *)
(* column that is still missing, although others add columns meanwhile.    *)
(***************************************************************************)
EXTENDS DaemonLife, TLAPS

(* The types, for any daemons, columns and bound on faults. *)
THEOREM DaemonTypeCorrect == DaemonSpec => []DaemonTypeOK
<1>1. DaemonInit => DaemonTypeOK
  BY MaxFaultsAssumption DEF DaemonInit, DaemonTypeOK, DaemonPCs
<1>2. DaemonTypeOK /\ [DaemonNext]_daemonVars => DaemonTypeOK'
  <2> SUFFICES ASSUME DaemonTypeOK, [DaemonNext]_daemonVars PROVE DaemonTypeOK'
    OBVIOUS
  <2> USE DEF DaemonTypeOK, DaemonPCs
  <2>1. CASE UNCHANGED daemonVars
    BY <2>1 DEF daemonVars, databaseVars
  <2>2. ASSUME NEW d \in Daemons, Ends(d), faults' \in 0..MaxFaults PROVE DaemonTypeOK'
    BY <2>2 DEF Ends, Goto, databaseVars
  <2>3. ASSUME NEW d \in Daemons, Start(d) PROVE DaemonTypeOK'
    BY <2>3 DEF Start, Goto, databaseVars
  <2>4. ASSUME NEW d \in Daemons, CreateTable(d) PROVE DaemonTypeOK'
    BY <2>4, ColumnsAssumption DEF CreateTable, Goto
  <2>5. ASSUME NEW d \in Daemons, ListColumns(d) PROVE DaemonTypeOK'
    BY <2>5 DEF ListColumns, Goto, databaseVars
  <2>6. ASSUME NEW d \in Daemons, AddColumn(d) PROVE DaemonTypeOK'
    <3>1. PICK c \in todo[d] :
             IF c \in columns
             THEN Ends(d)
             ELSE /\ columns' = columns \cup {c}
                  /\ todo' = [todo EXCEPT ![d] = @ \ {c}]
                  /\ UNCHANGED <<table, pc, asked, owner, online>>
      BY <2>6 DEF AddColumn
    <3>2. UNCHANGED faults
      BY <2>6 DEF AddColumn
    <3>3. CASE c \in columns
      BY <3>1, <3>2, <3>3, <2>2
    <3>4. CASE c \notin columns
      BY <3>1, <3>2, <3>4
    <3>5. QED BY <3>3, <3>4
  <2>7. ASSUME NEW d \in Daemons, Migrated(d) PROVE DaemonTypeOK'
    BY <2>7 DEF Migrated, Goto, databaseVars
  <2>8. ASSUME NEW d \in Daemons, TakeName(d) PROVE DaemonTypeOK'
    <3>1. CASE owner = Nobody
      BY <2>8, <3>1 DEF TakeName, Goto, databaseVars
    <3>2. CASE owner # Nobody
      BY <2>8, <3>2, <2>2 DEF TakeName
    <3>3. QED BY <3>1, <3>2
  <2>9. ASSUME NEW d \in Daemons, Export(d) PROVE DaemonTypeOK'
    BY <2>9 DEF Export, Goto, databaseVars
  <2>10. ASSUME NEW d \in Daemons, Connects(d) \/ Terminate(d) PROVE DaemonTypeOK'
    BY <2>10 DEF Connects, Terminate, databaseVars
  <2>11. ASSUME NEW d \in Daemons, Shutdown(d) \/ CloseStores(d) \/ ReleaseName(d)
         PROVE  DaemonTypeOK'
    BY <2>11 DEF Shutdown, CloseStores, ReleaseName, Goto, databaseVars
  <2>12. ASSUME NEW d \in Daemons, Exit(d) PROVE DaemonTypeOK'
    BY <2>12, <2>2 DEF Exit
  <2>13. ASSUME NEW d \in Daemons, Fault(d) PROVE DaemonTypeOK'
    <3>1. faults' \in 0..MaxFaults
      BY <2>13, MaxFaultsAssumption DEF Fault
    <3>2. QED BY <2>13, <3>1, <2>2 DEF Fault
  <2>14. QED
    BY <2>1, <2>3, <2>4, <2>5, <2>6, <2>7, <2>8, <2>9, <2>10, <2>11, <2>12, <2>13
    DEF DaemonNext, Startup, Leaves
<1>3. QED BY <1>1, <1>2, PTL DEF DaemonSpec

-----------------------------------------------------------------------------
(* The inductive invariant.                                                  *)

NameInv == \A d \in Daemons : d \in Serving <=> owner = d

SchemaInv ==
    /\ ~table => columns = {}
    /\ \A d \in Daemons :
          /\ pc[d] \notin {"off", "create"} => table
          /\ pc[d] = "migrate" => Columns \subseteq columns \cup todo[d]
          /\ pc[d] \in {"bus", "export", "run", "close", "release"} => columns = Columns

OnlineInv == \A d \in online : pc[d] \in {"run", "close", "release", "exit"}

LifeInv == NameInv /\ SchemaInv /\ OnlineInv

LEMMA LifeInvInit == DaemonInit => LifeInv
BY NobodyAssumption DEF DaemonInit, LifeInv, NameInv, SchemaInv, OnlineInv, Serving

(* A process that ends takes its name and its connection with it. *)
LEMMA EndsKeeps ==
    ASSUME DaemonTypeOK, LifeInv, NEW d \in Daemons, Ends(d)
    PROVE  LifeInv'
<1>1. /\ pc' = [pc EXCEPT ![d] = "off"]
      /\ \A e \in Daemons : e # d => todo'[e] = todo[e]
      /\ UNCHANGED <<table, columns>>
  BY DEF Ends, Goto, DaemonTypeOK, databaseVars
<1>2. SchemaInv'
  BY <1>1 DEF SchemaInv, LifeInv, DaemonTypeOK
<1>3. NameInv'
  BY <1>1, NobodyAssumption DEF Ends, NameInv, LifeInv, Serving, DaemonTypeOK
<1>4. OnlineInv'
  BY <1>1 DEF Ends, OnlineInv, LifeInv, DaemonTypeOK
<1>5. QED BY <1>2, <1>3, <1>4 DEF LifeInv

LEMMA LifeInvStep ==
    ASSUME DaemonTypeOK, LifeInv, [DaemonNext]_daemonVars
    PROVE  LifeInv'
<1> USE DEF LifeInv
<1>1. CASE UNCHANGED daemonVars
  BY <1>1 DEF daemonVars, databaseVars, NameInv, SchemaInv, OnlineInv, Serving
<1>2. ASSUME NEW d \in Daemons, Start(d) PROVE LifeInv'
  BY <1>2 DEF Start, At, Goto, databaseVars, NameInv, SchemaInv, OnlineInv, Serving, DaemonTypeOK
<1>3. ASSUME NEW d \in Daemons, CreateTable(d) PROVE LifeInv'
  <2>1. NameInv' /\ OnlineInv'
    BY <1>3 DEF CreateTable, At, Goto, NameInv, OnlineInv, Serving, DaemonTypeOK
  <2>2. SchemaInv'
    <3>1. table' = TRUE /\ pc' = [pc EXCEPT ![d] = "list"] /\ UNCHANGED todo
      BY <1>3 DEF CreateTable, Goto
    <3>2. CASE table
      BY <1>3, <3>1, <3>2 DEF CreateTable, SchemaInv, DaemonTypeOK
    <3>3. CASE ~table
      BY <1>3, <3>1, <3>3 DEF CreateTable, SchemaInv, DaemonTypeOK
    <3>4. QED BY <3>2, <3>3
  <2>3. QED BY <2>1, <2>2
<1>4. ASSUME NEW d \in Daemons, ListColumns(d) PROVE LifeInv'
  BY <1>4 DEF ListColumns, At, Goto, databaseVars, NameInv, SchemaInv, OnlineInv, Serving,
              DaemonTypeOK
<1>5. ASSUME NEW d \in Daemons, AddColumn(d) PROVE LifeInv'
  <2>1. PICK c \in todo[d] :
           IF c \in columns
           THEN Ends(d)
           ELSE /\ columns' = columns \cup {c}
                /\ todo' = [todo EXCEPT ![d] = @ \ {c}]
                /\ UNCHANGED <<table, pc, asked, owner, online>>
    BY <1>5 DEF AddColumn
  <2>2. CASE c \in columns
    BY <2>1, <2>2, EndsKeeps
  <2>3. CASE c \notin columns
    <3>1. NameInv' /\ OnlineInv'
      BY <2>1, <2>3 DEF NameInv, OnlineInv, Serving
    <3>2. columns' \subseteq Columns /\ columns \subseteq columns'
      BY <2>1, <2>3 DEF DaemonTypeOK
    <3>3. table
      BY <1>5 DEF AddColumn, At, SchemaInv
    <3>4. SchemaInv'
      BY <2>1, <2>3, <3>2, <3>3 DEF SchemaInv, DaemonTypeOK
    <3>5. QED BY <3>1, <3>4
  <2>4. QED BY <2>2, <2>3
<1>6. ASSUME NEW d \in Daemons, Migrated(d) PROVE LifeInv'
  <2>1. columns = Columns /\ table
    BY <1>6 DEF Migrated, At, SchemaInv, DaemonTypeOK
  <2>2. QED
    BY <1>6, <2>1 DEF Migrated, At, Goto, databaseVars, NameInv, SchemaInv, OnlineInv, Serving,
                      DaemonTypeOK
<1>7. ASSUME NEW d \in Daemons, TakeName(d) PROVE LifeInv'
  <2>1. CASE owner = Nobody
    BY <1>7, <2>1, NobodyAssumption
    DEF TakeName, At, Goto, databaseVars, NameInv, SchemaInv, OnlineInv, Serving, DaemonTypeOK
  <2>2. CASE owner # Nobody
    BY <1>7, <2>2, EndsKeeps DEF TakeName
  <2>3. QED BY <2>1, <2>2
<1>8. ASSUME NEW d \in Daemons, Export(d) PROVE LifeInv'
  BY <1>8 DEF Export, At, Goto, databaseVars, NameInv, SchemaInv, OnlineInv, Serving, DaemonTypeOK
<1>9. ASSUME NEW d \in Daemons, Connects(d) PROVE LifeInv'
  BY <1>9 DEF Connects, At, databaseVars, NameInv, SchemaInv, OnlineInv, Serving
<1>10. ASSUME NEW d \in Daemons, Terminate(d) PROVE LifeInv'
  BY <1>10 DEF Terminate, databaseVars, NameInv, SchemaInv, OnlineInv, Serving
<1>11. ASSUME NEW d \in Daemons, Shutdown(d) PROVE LifeInv'
  BY <1>11 DEF Shutdown, At, Goto, databaseVars, NameInv, SchemaInv, OnlineInv, Serving,
               DaemonTypeOK
<1>12. ASSUME NEW d \in Daemons, CloseStores(d) PROVE LifeInv'
  BY <1>12 DEF CloseStores, At, Goto, databaseVars, NameInv, SchemaInv, OnlineInv, Serving,
               DaemonTypeOK
<1>13. ASSUME NEW d \in Daemons, ReleaseName(d) PROVE LifeInv'
  BY <1>13, NobodyAssumption
  DEF ReleaseName, At, Goto, databaseVars, NameInv, SchemaInv, OnlineInv, Serving, DaemonTypeOK
<1>14. ASSUME NEW d \in Daemons, Exit(d) \/ Fault(d) PROVE LifeInv'
  BY <1>14, EndsKeeps DEF Exit, Fault
<1>15. QED
  BY <1>1, <1>2, <1>3, <1>4, <1>5, <1>6, <1>7, <1>8, <1>9, <1>10, <1>11, <1>12, <1>13, <1>14
  DEF DaemonNext, Startup, Leaves

LEMMA LifeInvCorrect == DaemonSpec => []LifeInv
BY LifeInvInit, LifeInvStep, DaemonTypeCorrect, PTL DEF DaemonSpec

(* Two connections only while one daemon is about to end: for any number of *)
(* daemons.                                                                  *)
THEOREM ConnectionCorrect == DaemonSpec => []OneConnection
<1>1. ASSUME DaemonTypeOK, LifeInv PROVE OneConnection
  <2> SUFFICES ASSUME NEW d \in online, NEW e \in online, ~At(d, "exit"), ~At(e, "exit")
               PROVE  d = e
    BY DEF OneConnection
  <2>1. d \in Serving /\ e \in Serving
    BY <1>1 DEF LifeInv, OnlineInv, Serving, At, DaemonTypeOK
  <2>2. QED BY <1>1, <2>1 DEF LifeInv, NameInv, Serving
<1>2. QED BY <1>1, DaemonTypeCorrect, LifeInvCorrect, PTL

-----------------------------------------------------------------------------
(* The refinement.                                                           *)

(* A step that only moves daemons among the points between the two ends of   *)
(* serving, or among those outside, and leaves the columns alone.            *)
LEMMA SingleKept ==
    ASSUME Serving' = Serving, UNCHANGED columns
    PROVE  [Single!Next]_(Single!vars)
BY DEF Single!vars

(* Columns are only added, so the database becomes complete or stays as it is*)
LEMMA SingleCompletes ==
    ASSUME Serving' = Serving, columns = Columns => columns' = Columns
    PROVE  [Single!Next]_(Single!vars)
<1>1. CASE columns = Columns
  BY <1>1 DEF Single!vars
<1>2. CASE columns # Columns /\ columns' # Columns
  BY <1>2 DEF Single!vars
<1>3. CASE columns # Columns /\ columns' = Columns
  <2>1. Single!Complete
    BY <1>3 DEF Single!Complete
  <2>2. QED BY <2>1 DEF Single!Next
<1>4. QED BY <1>1, <1>2, <1>3

(* A process that ends stops serving, if it was the one that served. *)
LEMMA SingleEnds ==
    ASSUME DaemonTypeOK, LifeInv, NEW d \in Daemons, Ends(d)
    PROVE  [Single!Next]_(Single!vars)
<1>1. pc' = [pc EXCEPT ![d] = "off"] /\ UNCHANGED columns
  BY DEF Ends, Goto, databaseVars
<1>2. CASE d \in Serving
  <2>1. Serving = {d} /\ Serving' = {}
    BY <1>1, <1>2 DEF Serving, LifeInv, NameInv, DaemonTypeOK
  <2>2. Single!Stop(d)
    BY <1>1, <2>1 DEF Single!Stop
  <2>3. QED BY <2>2 DEF Single!Next
<1>3. CASE d \notin Serving
  <2>1. Serving' = Serving
    BY <1>1, <1>3 DEF Serving, DaemonTypeOK
  <2>2. QED BY <1>1, <2>1, SingleKept
<1>4. QED BY <1>2, <1>3

LEMMA SingleStep ==
    ASSUME DaemonTypeOK, LifeInv, [DaemonNext]_daemonVars
    PROVE  [Single!Next]_(Single!vars)
<1>1. CASE UNCHANGED daemonVars
  <2>1. Serving' = Serving /\ UNCHANGED columns
    BY <1>1 DEF daemonVars, databaseVars, Serving
  <2>2. QED BY <2>1, SingleKept
<1>2. ASSUME NEW d \in Daemons,
             Start(d) \/ ListColumns(d) \/ Migrated(d) \/ Export(d) \/ Connects(d)
                \/ Terminate(d) \/ Shutdown(d) \/ CloseStores(d)
      PROVE  [Single!Next]_(Single!vars)
  <2>1. UNCHANGED columns
    BY <1>2 DEF Start, ListColumns, Migrated, Export, Connects, Terminate, Shutdown,
                CloseStores, databaseVars
  <2>2. Serving' = Serving
    BY <1>2 DEF Start, ListColumns, Migrated, Export, Connects, Terminate, Shutdown,
                CloseStores, At, Goto, Serving, DaemonTypeOK
  <2>3. QED BY <2>1, <2>2, SingleKept
<1>3. ASSUME NEW d \in Daemons, CreateTable(d) PROVE [Single!Next]_(Single!vars)
  <2>1. Serving' = Serving
    BY <1>3 DEF CreateTable, At, Goto, Serving, DaemonTypeOK
  <2>2. columns = Columns => columns' = Columns
    BY <1>3, ColumnsAssumption DEF CreateTable, LifeInv, SchemaInv
  <2>3. QED BY <2>1, <2>2, SingleCompletes
<1>4. ASSUME NEW d \in Daemons, AddColumn(d) PROVE [Single!Next]_(Single!vars)
  <2>1. PICK c \in todo[d] :
           IF c \in columns
           THEN Ends(d)
           ELSE /\ columns' = columns \cup {c}
                /\ todo' = [todo EXCEPT ![d] = @ \ {c}]
                /\ UNCHANGED <<table, pc, asked, owner, online>>
    BY <1>4 DEF AddColumn
  <2>2. CASE c \in columns
    BY <2>1, <2>2, SingleEnds
  <2>3. CASE c \notin columns
    <3>1. Serving' = Serving
      BY <2>1, <2>3 DEF Serving
    <3>2. columns = Columns => columns' = Columns
      BY <2>1, <2>3 DEF DaemonTypeOK
    <3>3. QED BY <3>1, <3>2, SingleCompletes
  <2>4. QED BY <2>2, <2>3
<1>5. ASSUME NEW d \in Daemons, TakeName(d) PROVE [Single!Next]_(Single!vars)
  <2>1. CASE owner = Nobody
    <3>1. Serving = {} /\ columns = Columns
      BY <1>5, <2>1, NobodyAssumption DEF TakeName, At, LifeInv, NameInv, SchemaInv, Serving
    <3>2. Serving' = {d} /\ UNCHANGED columns
      BY <1>5, <2>1, <3>1 DEF TakeName, Goto, databaseVars, Serving, DaemonTypeOK
    <3>3. Single!Serve(d)
      BY <3>1, <3>2 DEF Single!Serve
    <3>4. QED BY <3>3 DEF Single!Next
  <2>2. CASE owner # Nobody
    BY <1>5, <2>2, SingleEnds DEF TakeName
  <2>3. QED BY <2>1, <2>2
<1>6. ASSUME NEW d \in Daemons, ReleaseName(d) PROVE [Single!Next]_(Single!vars)
  <2>1. Serving = {d} /\ Serving' = {} /\ UNCHANGED columns
    BY <1>6 DEF ReleaseName, At, Goto, databaseVars, Serving, LifeInv, NameInv, DaemonTypeOK
  <2>2. Single!Stop(d)
    BY <2>1 DEF Single!Stop
  <2>3. QED BY <2>2 DEF Single!Next
<1>7. ASSUME NEW d \in Daemons, Exit(d) \/ Fault(d) PROVE [Single!Next]_(Single!vars)
  BY <1>7, SingleEnds DEF Exit, Fault
<1>8. QED
  BY <1>1, <1>2, <1>3, <1>4, <1>5, <1>6, <1>7 DEF DaemonNext, Startup, Leaves

(* The daemon's life implements SingleDaemon: whatever races the starts run, *)
(* at most one daemon serves, and on a database that has every column.       *)
THEOREM SingleRefinement == DaemonSpec => ImplementsSingleDaemon
<1>1. DaemonInit => Single!Init
  BY DEF DaemonInit, Single!Init, Serving
<1>2. DaemonTypeOK /\ LifeInv /\ [DaemonNext]_daemonVars => [Single!Next]_(Single!vars)
  BY SingleStep
<1>3. QED
  BY <1>1, <1>2, DaemonTypeCorrect, LifeInvCorrect, PTL
  DEF DaemonSpec, Single!Spec, ImplementsSingleDaemon

=============================================================================
