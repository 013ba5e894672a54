------------------------------ MODULE Startup ------------------------------
(***************************************************************************)
(* Instances of the service that start at the same time, die and start     *)
(* again (db/_pool.py, db/_migrate.py): the migrations behind an advisory  *)
(* lock, and the move of the users of older releases, with the credits     *)
(* they own, into an organization of their own.                            *)
(***************************************************************************)
EXTENDS Integers, FiniteSets, FiniteSetsExt

CONSTANTS
    Instances,      \* processes that share the database
    Migrations,     \* the files are 1 .. Migrations, in the order of their names
    OldUsers,       \* users without an organization
    OldCents,       \* bonus_credits of each of them
    MaxDeaths       \* bound: how often an instance dies while it starts

VARIABLES
    instance,       \* where an instance is, the migration or the users it has before it
    advisory,       \* who holds the advisory lock: the instance or NoInstance
    applied,        \* _migrations
    executed,       \* history: how often a file was executed
    purse,          \* what a user and the user's organization own; whether there is one
    deaths

startVars == <<instance, advisory, applied, executed, purse, deaths>>

NoInstance == "nobody"
Down == [at |-> "down", file |-> 0, todo |-> {}]

StartInit ==
    /\ instance = [i \in Instances |-> Down]
    /\ advisory = NoInstance
    /\ applied = {}
    /\ executed = [m \in 1 .. Migrations |-> 0]
    /\ purse \in [OldUsers -> {[moved |-> FALSE, own |-> OldCents, org |-> 0, taken |-> t] : t \in BOOLEAN}]
    /\ deaths = 0

StartTypeOK ==
    /\ \A i \in Instances : /\ instance[i].at \in {"down", "waiting", "checking", "recording", "listing", "moving", "up"}
                            /\ instance[i].file \in 0 .. Migrations + 1 /\ instance[i].todo \subseteq OldUsers
    /\ advisory \in Instances \cup {NoInstance}
    /\ applied \subseteq 1 .. Migrations

On(i, p) == instance[i].at = p
Reaches(i, p) == instance' = [instance EXCEPT ![i].at = p]

\* init_database: the pool, then run_migrations asks for the lock.
Boot(i) ==
    /\ On(i, "down")
    /\ Reaches(i, "waiting")
    /\ UNCHANGED <<advisory, applied, executed, purse, deaths>>

\* pg_advisory_lock
Lock(i) ==
    /\ On(i, "waiting") /\ advisory = NoInstance
    /\ advisory' = i
    /\ instance' = [instance EXCEPT ![i].at = "checking", ![i].file = 1]
    /\ UNCHANGED <<applied, executed, purse, deaths>>

\* The loop over the files: the check, and what is not applied is executed (one statement string,
\* one transaction).  After the last file the lock is given back.
ApplyFile(i) ==
    LET m == instance[i].file
    IN  /\ On(i, "checking")
        /\ \/ /\ m > Migrations
              /\ advisory' = NoInstance
              /\ Reaches(i, "listing")
              /\ UNCHANGED executed
           \/ /\ m \in applied
              /\ instance' = [instance EXCEPT ![i].file = @ + 1]
              /\ UNCHANGED <<advisory, executed>>
           \/ /\ m \in 1 .. Migrations \ applied
              /\ executed' = [executed EXCEPT ![m] = @ + 1]
              /\ Reaches(i, "recording")
              /\ UNCHANGED advisory
        /\ UNCHANGED <<applied, purse, deaths>>

RecordFile(i) ==
    /\ On(i, "recording")
    /\ applied' = applied \cup {instance[i].file}
    /\ instance' = [instance EXCEPT ![i].at = "checking", ![i].file = @ + 1]
    /\ UNCHANGED <<advisory, executed, purse, deaths>>

\* The stale jobs are failed (modelled with the jobs) and the users to move are read.
ListUsers(i) ==
    /\ On(i, "listing")
    /\ instance' = [instance EXCEPT ![i].at = "moving", ![i].todo = {u \in OldUsers : ~purse[u].moved}]
    /\ UNCHANGED <<advisory, applied, executed, purse, deaths>>

\* The transaction for one user: locked and looked at again; the organization takes the credits over.
MoveUser(i) ==
    \E u \in instance[i].todo :
        /\ On(i, "moving")
        /\ IF purse[u].moved \/ ~purse[u].taken
           THEN /\ purse' = IF purse[u].moved THEN purse
                            ELSE [purse EXCEPT ![u] = [moved |-> TRUE, own |-> 0, org |-> purse[u].org + purse[u].own,
                                                      taken |-> purse[u].taken]]
                /\ instance' = [instance EXCEPT ![i].todo = @ \ {u}]
                /\ UNCHANGED deaths
           \* The slug is taken: the statements of the handler fail too, in a transaction that
           \* has already failed, and the start with them.
           ELSE /\ deaths < MaxDeaths /\ deaths' = deaths + 1
                /\ instance' = [instance EXCEPT ![i] = Down]
                /\ UNCHANGED purse
        /\ UNCHANGED <<advisory, applied, executed>>

Serve(i) ==
    /\ On(i, "moving") /\ instance[i].todo = {}
    /\ Reaches(i, "up")
    /\ UNCHANGED <<advisory, applied, executed, purse, deaths>>

\* The connection goes with the process, and the lock with the connection.
DieStarting(i) ==
    /\ instance[i].at \notin {"down"} /\ deaths < MaxDeaths
    /\ deaths' = deaths + 1
    /\ instance' = [instance EXCEPT ![i] = Down]
    /\ advisory' = IF advisory = i THEN NoInstance ELSE advisory
    /\ UNCHANGED <<applied, executed, purse>>

StartNext == \E i \in Instances :
    \/ Boot(i) \/ Lock(i) \/ ApplyFile(i) \/ RecordFile(i) \/ ListUsers(i) \/ MoveUser(i) \/ Serve(i)
    \/ DieStarting(i)

StartSpec == StartInit /\ [][StartNext]_startVars
-----------------------------------------------------------------------------
(* However many instances start at the same time, a file is executed once, *)
(* after all the files before it, and again only if an instance died       *)
(* between the file and its entry in _migrations, which are two statements *)
(* (run_migrations).                                                       *)
FilesInOrder ==
    \A m \in 1 .. Migrations :
        /\ executed[m] <= 1 + deaths
        /\ executed[m] > 0 => 1 .. m - 1 \subseteq applied

(* The credits of a user of an older release are moved once: the user and  *)
(* the organization own together what the user owned, whichever instances  *)
(* got that far and wherever they died (init_database, its transactions).  *)
CreditsMovedOnce == \A u \in OldUsers : purse[u].own + purse[u].org = OldCents
=============================================================================
