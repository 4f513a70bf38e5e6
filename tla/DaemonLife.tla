----------------------------- MODULE DaemonLife -----------------------------
(***************************************************************************)
(* Daemon processes from start to exit. Launchers and users start them     *)
(* without asking whether one runs; they share one database and one D-Bus  *)
(* name. A daemon opens and migrates the database first and asks for the   *)
(* name only then, so the one that is turned away has already changed      *)
(* tables another one may be using, or may be changing as well.            *)
(***************************************************************************)
EXTENDS Naturals

CONSTANTS
    Daemons,        \* bound on the processes alive at one time
    Nobody,
    Columns,        \* the columns migrateColumns sees to
    FirstColumns,   \* those the CREATE TABLE statement has by itself
    MaxFaults       \* bound on crashes and failing statements

ASSUME NobodyAssumption == Nobody \notin Daemons
ASSUME ColumnsAssumption == FirstColumns \subseteq Columns
ASSUME MaxFaultsAssumption == MaxFaults \in Nat

VARIABLES
    table,          \* the table messages exists
    columns,        \* which of Columns it has
    pc,             \* pc[d]: where daemon d stands
    todo,           \* todo[d]: the columns d has found missing
    asked,          \* the daemons that were sent SIGTERM or SIGINT
    owner,          \* the owner of org.khaapp.Daemon
    online,         \* the daemons with a connection to WhatsApp
    faults

databaseVars == <<table, columns>>
daemonVars ==
    <<databaseVars, pc, todo, asked, owner, online, faults>>

DaemonPCs ==
    {"off", "create", "list", "migrate", "bus", "export", "run",
     "close", "release", "exit"}

DaemonTypeOK ==
    /\ table \in BOOLEAN
    /\ columns \subseteq Columns
    /\ pc \in [Daemons -> DaemonPCs]
    /\ todo \in [Daemons -> SUBSET Columns]
    /\ asked \subseteq Daemons
    /\ owner \in Daemons \cup {Nobody}
    /\ online \subseteq Daemons
    /\ faults \in 0..MaxFaults

(* No database yet, or one that any earlier version has left behind *)
DaemonInit ==
    /\ table \in BOOLEAN
    /\ columns \in IF table THEN SUBSET Columns ELSE {{}}
    /\ pc = [d \in Daemons |-> "off"]
    /\ todo = [d \in Daemons |-> {}]
    /\ asked = {} /\ owner = Nobody /\ online = {}
    /\ faults = 0

-----------------------------------------------------------------------------

At(d, p) == pc[d] = p

Goto(d, p) == pc' = [pc EXCEPT ![d] = p]

(* The process ends, by os.Exit, a signal or itself: the bus takes the name  *)
(* back and the connection breaks.                                           *)
Ends(d) ==
    /\ Goto(d, "off")
    /\ todo' = [todo EXCEPT ![d] = {}]
    /\ asked' = asked \ {d}
    /\ owner' = IF owner = d THEN Nobody ELSE owner
    /\ online' = online \ {d}
    /\ UNCHANGED databaseVars

(* The session store is opened on the way; without it the daemon is off again*)
Start(d) ==
    /\ At(d, "off")
    /\ Goto(d, "create")
    /\ UNCHANGED <<databaseVars, todo, asked, owner, online, faults>>

-----------------------------------------------------------------------------
(* NewMessageStore.                                                          *)

CreateTableStrictly(d) ==       \* mutant: CREATE TABLE without IF NOT EXISTS
    /\ At(d, "create")
    /\ IF table
       THEN Ends(d) /\ UNCHANGED faults
       ELSE /\ table' = TRUE
            /\ columns' = FirstColumns
            /\ Goto(d, "list")
            /\ UNCHANGED <<todo, asked, owner, online, faults>>

(* CREATE TABLE IF NOT EXISTS *)
CreateTable(d) ==
    /\ At(d, "create")
    /\ table' = TRUE
    /\ columns' = IF table THEN columns ELSE FirstColumns
    /\ Goto(d, "list")
    /\ UNCHANGED <<todo, asked, owner, online, faults>>

(* PRAGMA table_info *)
ListColumns(d) ==
    /\ At(d, "list")
    /\ todo' = [todo EXCEPT ![d] = Columns \ columns]
    /\ Goto(d, "migrate")
    /\ UNCHANGED <<databaseVars, asked, owner, online, faults>>

(* ALTER TABLE for the next missing column, in the order of a Go map: none.  *)
(* A column another daemon has added since the listing is an error, and the  *)
(* daemon gives up.                                                          *)
AddColumn(d) ==
    /\ At(d, "migrate")
    /\ \E c \in todo[d] :
          IF c \in columns
          THEN Ends(d)
          ELSE /\ columns' = columns \cup {c}
               /\ todo' = [todo EXCEPT ![d] = @ \ {c}]
               /\ UNCHANGED <<table, pc, asked, owner, online>>
    /\ UNCHANGED faults

(* The rest of NewMessageStore, and NewWAClient *)
Migrated(d) ==
    /\ At(d, "migrate") /\ todo[d] = {}
    /\ Goto(d, "bus")
    /\ UNCHANGED <<databaseVars, todo, asked, owner, online, faults>>

-----------------------------------------------------------------------------
(* The name, and the life under it.                                          *)

TakeNameUnchecked(d) ==         \* mutant: the reply is not looked at
    /\ At(d, "bus")
    /\ owner' = IF owner = Nobody THEN d ELSE owner
    /\ Goto(d, "export")
    /\ UNCHANGED <<databaseVars, todo, asked, online, faults>>

TakeNameQueued(d) ==            \* mutant: RequestName without DoNotQueue
    /\ At(d, "bus")
    /\ IF owner = Nobody
       THEN owner' = d /\ Goto(d, "export")
       ELSE Goto(d, "queued") /\ UNCHANGED owner
    /\ UNCHANGED <<databaseVars, todo, asked, online, faults>>

(* RequestName with DoNotQueue: a second daemon exits *)
TakeName(d) ==
    /\ At(d, "bus")
    /\ IF owner = Nobody
       THEN /\ owner' = d
            /\ Goto(d, "export")
            /\ UNCHANGED <<databaseVars, todo, asked, online>>
       ELSE Ends(d)
    /\ UNCHANGED faults

(* Until here a call is answered with an error by the bus library *)
Export(d) ==
    /\ At(d, "export")
    /\ Goto(d, "run")
    /\ UNCHANGED <<databaseVars, todo, asked, owner, online, faults>>

(* A dial or a loss. AutoConnect dials in main(), and until the process ends *)
(* so may whatever Shutdown does not stop: RequestLogin, answered until      *)
(* conn.Close; a retry loop that is past its select; and the library's 515   *)
(* goroutine.                                                                *)
Connects(d) ==
    /\ pc[d] \in {"run", "close", "release", "exit"}
    /\ online' = IF d \in online THEN online \ {d} ELSE online \cup {d}
    /\ UNCHANGED <<databaseVars, pc, todo, asked, owner, faults>>

(* The signal is looked at only once main() has come to <-ctx.Done() *)
Terminate(d) ==
    /\ ~At(d, "off") /\ d \notin asked
    /\ asked' = asked \cup {d}
    /\ UNCHANGED <<databaseVars, pc, todo, owner, online, faults>>

ShutdownUnowned(d) ==           \* mutant: conn.Close before the daemon hangs up
    /\ At(d, "run") /\ d \in asked
    /\ owner' = Nobody
    /\ Goto(d, "close")
    /\ UNCHANGED <<databaseVars, todo, asked, online, faults>>

(* StopReconnect, Disconnect *)
Shutdown(d) ==
    /\ At(d, "run") /\ d \in asked
    /\ online' = online \ {d}
    /\ Goto(d, "close")
    /\ UNCHANGED <<databaseVars, todo, asked, owner, faults>>

(* The stores, while D-Bus calls are still answered *)
CloseStores(d) ==
    /\ At(d, "close")
    /\ Goto(d, "release")
    /\ UNCHANGED <<databaseVars, todo, asked, owner, online, faults>>

(* The deferred conn.Close *)
ReleaseName(d) ==
    /\ At(d, "release")
    /\ owner' = Nobody
    /\ Goto(d, "exit")
    /\ UNCHANGED <<databaseVars, todo, asked, online, faults>>

Exit(d) ==
    /\ At(d, "exit")
    /\ Ends(d)
    /\ UNCHANGED faults

(* A crash, or an error that logger.Fatal makes one *)
Fault(d) ==
    /\ faults < MaxFaults
    /\ ~At(d, "off")
    /\ faults' = faults + 1
    /\ Ends(d)

-----------------------------------------------------------------------------

Startup(d) ==
    CreateTable(d) \/ ListColumns(d) \/ AddColumn(d) \/ Migrated(d) \/ TakeName(d) \/ Export(d)

Leaves(d) == Shutdown(d) \/ CloseStores(d) \/ ReleaseName(d) \/ Exit(d)

DaemonNext ==
    \E d \in Daemons :
        \/ Start(d) \/ Startup(d) \/ Leaves(d)
        \/ Connects(d) \/ Terminate(d) \/ Fault(d)

DaemonSpec == DaemonInit /\ [][DaemonNext]_daemonVars

(***************************************************************************)
(* Fairness: a process runs, and where no daemon runs some launcher or user*)
(* starts one. Nobody has to stop one.                                     *)
(***************************************************************************)
SomebodyStarts == (\A d \in Daemons : At(d, "off")) /\ \E d \in Daemons : Start(d)

FairDaemonSpec ==
    /\ DaemonSpec
    /\ \A d \in Daemons : WF_daemonVars(Startup(d)) /\ WF_daemonVars(Leaves(d))
    /\ WF_daemonVars(SomebodyStarts)

-----------------------------------------------------------------------------
(* Properties.                                                               *)

(* From RequestName to conn.Close *)
Serving == {d \in Daemons : pc[d] \in {"export", "run", "close", "release"}}

Single == INSTANCE SingleDaemon WITH serving <- Serving, complete <- columns = Columns

(* However many daemons start, migrate the same database, are terminated and *)
(* crash at once: at most one of them serves, and it never runs a statement  *)
(* over a column that is missing.                                            *)
ImplementsSingleDaemon == Single!Spec

(* WhatsApp knows one connection per device. However many daemons start and  *)
(* end at once, two of them have one at the same time only while one is past *)
(* conn.Close and about to end: the name that keeps a second daemon out is   *)
(* free by then, and a late dial may have connected the first one again.     *)
OneConnection ==
    \A d, e \in online : d # e => At(d, "exit") \/ At(e, "exit")

(* khaapp-bundle-launcher.sh: "Starts the daemon, waits for its D-Bus name". *)
(* Two daemons that migrate one database can both give up over a column the  *)
(* other one added; whatever they have done to it and however they were cut  *)
(* short, a daemon that is started again gets to serve.                      *)
ServiceComesUp == []<>(owner # Nobody)

=============================================================================
