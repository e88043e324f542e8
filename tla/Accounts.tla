------------------------------ MODULE Accounts ------------------------------
(***************************************************************************)
(* The NEX passwords of the consoles: the accounts map, the ffe_accounts   *)
(* table behind it, /register, and the order in which main() fills the map *)
(* when the server starts.  Postgres, the process supervisor and the       *)
(* patcher that posts registrations are the environment.                   *)
(*                                                                         *)
(* handleRegister runs in a goroutine per request: the upsert and the      *)
(* update of the map are separate steps, and a crash may fall between.     *)
(*                                                                         *)
(* Faults names what the run lets happen at its worst:                     *)
(*   open_fails    Postgres does not answer openPostgres's ping            *)
(*   load_fails    the SELECT of loadAccountsFromDB fails                  *)
(*   save_unknown  the upsert takes effect and its Exec returns an error   *)
(*   same_pid      two registrations of one console at the same time       *)
(***************************************************************************)
EXTENDS Naturals, FiniteSets

CONSTANTS
    Pid,             \* the consoles
    Password,        \* their passwords
    Seeded,          \* the consoles FFE_NEX_ACCOUNTS lists
    Faults,          \* see above
    MaxRequests,     \* bound: registrations
    MaxStarts        \* bound: times the server starts

\* handleRegister refuses an empty password, which is None here.
ASSUME AccountsAssumption ==
    /\ Seeded \subseteq Pid
    /\ "none" \notin Password
    /\ Faults \subseteq {"open_fails", "load_fails", "save_unknown", "same_pid"}
    /\ MaxRequests \in Nat
    /\ MaxStarts \in Nat

VARIABLES
    phase,           \* how far main() is: "down", "opened", "seeded", "up"
    postgres,        \* postgres # nil in the running process
    accounts,        \* accountStore.m
    table,           \* ffe_accounts
    inFlight,        \* registrations being handled
    allowed,         \* history: the passwords a login of each console may rest on
    ever, recent,    \* history: the faults that happened, ever and since the last start
    requests, starts \* how often

vars == <<phase, postgres, accounts, table, inFlight, allowed, ever, recent,
          requests, starts>>

None == "none"
Guest == "guest-password"
Dumped == "dumped"
Stored == Password \cup {None, Dumped}

NoAccounts == [p \in Pid |-> None]
SeedOf(p) == IF p \in Seeded THEN Dumped ELSE None

\* passwordForPID without FFE_FIXED_PASSWORD
PasswordForPID(p) == IF accounts[p] = None THEN Guest ELSE accounts[p]

Init ==
    /\ phase = "down"
    /\ postgres = FALSE
    /\ accounts = NoAccounts
    /\ table = NoAccounts
    /\ inFlight = {}
    /\ allowed = [p \in Pid |-> {IF p \in Seeded THEN Dumped ELSE Guest}]
    /\ ever = {}
    /\ recent = {}
    /\ requests = 0
    /\ starts = 0

\* The given fault happens in this step; none does.
Fault(f) ==
    /\ f \in Faults
    /\ ever' = ever \cup {f}
    /\ recent' = recent \cup {f}

NoFault == UNCHANGED <<ever, recent>>

------------------------------------------------------------------------------
(* Start and crash *)

\* openPostgres
OpenPostgres ==
    /\ phase = "down"
    /\ starts < MaxStarts
    /\ starts' = starts + 1
    /\ phase' = "opened"
    /\ \/ postgres' = TRUE /\ recent' = {} /\ UNCHANGED ever
       \/ /\ postgres' = FALSE
          /\ "open_fails" \in Faults
          /\ recent' = {"open_fails"}
          /\ ever' = ever \cup {"open_fails"}
    /\ UNCHANGED <<accounts, table, inFlight, allowed, requests>>

\* seedAccountsFromEnv
SeedAccountsFromEnv ==
    /\ phase = "opened"
    /\ phase' = "seeded"
    /\ accounts' = [p \in Pid |-> IF SeedOf(p) # None THEN SeedOf(p) ELSE accounts[p]]
    /\ NoFault
    /\ UNCHANGED <<postgres, table, inFlight, allowed, requests, starts>>

\* The row of a console overrides what is in the map.
Loaded(p) == IF table[p] # None THEN table[p] ELSE accounts[p]

\* ensureAccountsTable and loadAccountsFromDB; then the servers start.
LoadAccountsFromDB ==
    /\ phase = "seeded"
    /\ phase' = "up"
    /\ \/ postgres /\ accounts' = [p \in Pid |-> Loaded(p)] /\ NoFault
       \/ ~postgres /\ UNCHANGED accounts /\ NoFault
       \/ postgres /\ UNCHANGED accounts /\ Fault("load_fails")
    /\ UNCHANGED <<postgres, table, inFlight, allowed, requests, starts>>

\* The process ends at any point; the table stays.
Crash ==
    /\ phase # "down"
    /\ phase' = "down"
    /\ postgres' = FALSE
    /\ accounts' = NoAccounts
    /\ inFlight' = {}
    /\ NoFault
    /\ UNCHANGED <<table, allowed, requests, starts>>

------------------------------------------------------------------------------
(* Registration *)

\* handleRegister up to saveAccount, of a request that passes its checks.  From here
\* on the console may log in with the new password, once the request is through.
Register(p, pw) ==
    /\ phase = "up"
    /\ requests < MaxRequests
    /\ IF \E r \in inFlight : r.pid = p THEN Fault("same_pid") ELSE NoFault
    /\ requests' = requests + 1
    /\ inFlight' = inFlight \cup {[id |-> requests', pid |-> p, pw |-> pw, saved |-> FALSE]}
    /\ allowed' = [allowed EXCEPT ![p] = @ \cup {pw}]
    /\ UNCHANGED <<phase, postgres, accounts, table, starts>>

Upsert(r) == table' = [table EXCEPT ![r.pid] = r.pw]

\* saveAccount succeeds; without a database it does so at once.
SaveAccount(r) ==
    /\ ~r.saved
    /\ inFlight' = (inFlight \ {r}) \cup {[r EXCEPT !.saved = TRUE]}
    /\ IF postgres THEN Upsert(r) ELSE UNCHANGED table
    /\ NoFault
    /\ UNCHANGED <<phase, postgres, accounts, allowed, requests, starts>>

\* saveAccount fails: handleRegister answers 500 and leaves the map.
SaveAccountFails(r) ==
    /\ ~r.saved
    /\ postgres
    /\ inFlight' = inFlight \ {r}
    /\ \/ UNCHANGED table /\ NoFault
       \/ Upsert(r) /\ Fault("save_unknown")
    /\ UNCHANGED <<phase, postgres, accounts, allowed, requests, starts>>

\* The passwords of p's requests that are not answered yet, without r
Unanswered(r) == {s.pw : s \in {q \in inFlight \ {r} : q.pid = r.pid}}

\* Mutant: the answer is given and the map is not updated.
SetAndAnswerForgetsMap(r) ==
    /\ r.saved
    /\ inFlight' = inFlight \ {r}
    /\ allowed' = [allowed EXCEPT ![r.pid] = {r.pw} \cup Unanswered(r)]
    /\ NoFault
    /\ UNCHANGED <<phase, postgres, accounts, table, requests, starts>>

\* accounts.set and the answer {"ok":true}: from now on the console counts on it.
SetAndAnswer(r) ==
    /\ r.saved
    /\ accounts' = [accounts EXCEPT ![r.pid] = r.pw]
    /\ inFlight' = inFlight \ {r}
    /\ allowed' = [allowed EXCEPT ![r.pid] = {r.pw} \cup Unanswered(r)]
    /\ NoFault
    /\ UNCHANGED <<phase, postgres, table, requests, starts>>

Next ==
    \/ OpenPostgres
    \/ SeedAccountsFromEnv
    \/ LoadAccountsFromDB
    \/ Crash
    \/ \E p \in Pid, pw \in Password : Register(p, pw)
    \/ \E r \in inFlight : SaveAccount(r) \/ SaveAccountFails(r) \/ SetAndAnswer(r)

Spec == Init /\ [][Next]_vars

------------------------------------------------------------------------------
(* Properties *)

\* The type invariant.
TypeOK ==
    /\ phase \in {"down", "opened", "seeded", "up"}
    /\ postgres \in BOOLEAN
    /\ accounts \in [Pid -> Stored]
    /\ table \in [Pid -> Password \cup {None}]
    /\ inFlight \subseteq [id : 1..MaxRequests, pid : Pid, pw : Password, saved : BOOLEAN]
    /\ allowed \in [Pid -> SUBSET (Password \cup {Guest, Dumped})]
    /\ recent \subseteq ever
    /\ ever \subseteq Faults
    /\ requests \in 0..MaxRequests
    /\ starts \in 0..MaxStarts

\* A console whose registration was answered logs in with that password from then on,
\* through crashes and restarts, until it registers again: passwordForPID returns the
\* answered password, or one of a later request that was cut off or failed.  It takes a
\* server that has started without Postgres, overlapping requests of a console, or rows
\* that could not be read at this start, to break it; a save that is reported as failed
\* and took effect does not.
RegisteredCanLogin ==
    phase = "up" /\ ever \cap {"open_fails", "same_pid"} = {} /\ "load_fails" \notin recent =>
        \A p \in Pid : PasswordForPID(p) \in allowed[p]

\* While no registration is being handled, the map and the table agree about every
\* console in the table: a restart changes nobody's password.  Whatever went wrong
\* before, a start that finds Postgres and reads its rows repairs it.
StoreMatchesTable ==
    phase = "up" /\ inFlight = {} /\ recent = {} =>
        \A p \in Pid : table[p] # None => accounts[p] = table[p]
==============================================================================
