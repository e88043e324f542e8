--------------------------- MODULE Accounts_proofs ---------------------------
(***************************************************************************)
(* Proofs about what a console's login rests on, for any consoles,         *)
(* passwords, users and upstreams and any number of registrations, logins, *)
(* requests, crashes and starts.                                           *)
(*                                                                         *)
(* Tickets: JoinedAgreesAlways.  The invariant says that until a CONNECT   *)
(* of another login, or one that is refused, was handled, an answer exists *)
(* only if the connection has the keys of the login.                       *)
(*                                                                         *)
(* Accounts: TypeCorrect, RegisteredCanLoginAlways and                     *)
(* StoreMatchesTableAlways.  Neither property is inductive: a crash takes  *)
(* the map, so what a console may count on has to be in the table or in    *)
(* the dumped accounts at every moment, also between the upsert and the    *)
(* update of the map.  Covered says so while no start has missed Postgres  *)
(* and no two requests of a console have overlapped; Agreeing says what    *)
(* relates map, table and requests since a start that found everything in  *)
(* order.                                                                  *)
(*                                                                         *)
(* The patcher: PatcherRefinesAccounts and ConnectedCanLoginAlways.  A     *)
(* console that was told it is registered counts on an answer it got       *)
(* before, from a server that may be another one by now: PatcherInv says   *)
(* that it waits for the answer to its own password only, and that from    *)
(* that answer on the server finds that password wherever it looks.        *)
(*                                                                         *)
(* NASC: TokenNamesUserAlways, NeverLoopsAlways, TriesAllUpstreamsAlways.  *)
(* The invariant says of every request where its handler has left it: its  *)
(* token is its own from the time it is made, an address is refused, this  *)
(* process's own or still to be dialed, and a request this process sends   *)
(* itself is on its way only when FFE_PUBLIC_HOST is another address; and  *)
(* that the transport keeps no connection of this process to itself.       *)
(***************************************************************************)
EXTENDS Tickets, Patcher, NASC, TLAPS

------------------------------------------------------------------------------
(* Tickets *)

\* The connection the console of the current login expects
Agreed == [state |-> "connected", pid |-> Console, sessionKey |-> login.session,
           cipher |-> login.session]

\* Until a CONNECT that is not of the current login, or is refused, was handled, an
\* answer exists only if the connection has the keys of the login.
TIInv ==
    /\ login.number \in Nat
    /\ login.number > 0 =>
          /\ login.ticket.box.data.sessionKey = login.session
          /\ login.ticket.box.data.sourcePID = Console
    /\ \A p \in connects :
          /\ p.number \in Nat /\ 0 < p.number /\ p.number <= login.number
          /\ p.number = login.number => p.sentTicket = login.ticket
    /\ joined => answers # {}
    /\ ~disturbed /\ answers # {} => connection = Agreed

\* No session, no keys to agree on.
LEMMA TInitInv == TInit => TIInv
BY DEF TInit, TIInv

\* Every step of the login, of the CONNECT and of its answer keeps the invariant.
LEMMA TNextInv == TIInv /\ [TNext]_tvars => TIInv'
<1> SUFFICES ASSUME TIInv, [TNext]_tvars PROVE TIInv'
  OBVIOUS
<1> USE DEF TIInv
<1>1. CASE TimePasses
  BY <1>1 DEF TimePasses, Agreed
<1>2. ASSUME NEW check \in 0..(CheckValues - 1), Login(check) PROVE TIInv'
  <2>1. /\ login'.number = login.number + 1 /\ login'.session = login.number + 1
        /\ login'.ticket = InternalData(Timestamp(now), login.number + 1)
        /\ answers' = {} /\ ~joined' /\ ~disturbed' /\ connects' = connects
    BY <1>2 DEF Login
  <2>2. /\ login'.ticket.box.data.sessionKey = login.number + 1
        /\ login'.ticket.box.data.sourcePID = Console
    BY <2>1 DEF InternalData, Encrypt
  <2>3. \A p \in connects : p.number < login'.number BY <2>1
  <2>4. login'.number \in Nat /\ login'.number > 0 BY <2>1
  <2>5. \A p \in connects : /\ p.number \in Nat /\ 0 < p.number /\ p.number <= login'.number
                            /\ p.number # login'.number
    BY <2>3, <2>4
  <2> QED BY <2>1, <2>2, <2>4, <2>5
<1>3. CASE SendConnect
  <2> DEFINE new == [number |-> login.number, sentTicket |-> login.ticket,
            request |-> Encrypt(login.session, [pid |-> Console, check |-> login.check])]
  <2>1. connects' = connects \cup {new} /\ login.number > 0
        /\ UNCHANGED <<login, connection, answers, joined, disturbed>>
    BY <1>3 DEF SendConnect
  <2>2. new.number = login.number /\ new.sentTicket = login.ticket OBVIOUS
  <2> HIDE DEF new
  <2> QED BY <2>1, <2>2 DEF Agreed
<1>4. ASSUME NEW p \in connects, LoseConnect(p) PROVE TIInv'
  BY <1>4 DEF LoseConnect, Agreed
<1>5. ASSUME NEW p \in connects, HandleConnect(p) PROVE TIInv'
  <2>1. /\ UNCHANGED <<login, connects, joined>>
        /\ disturbed' = (disturbed \/ ~ReadKerberosTicket(p) \/ p.number # login.number)
    BY <1>5 DEF HandleConnect
  <2>2. answers \subseteq answers'
    BY <1>5 DEF HandleConnect
  <2>3. ASSUME ~disturbed' PROVE connection' = Agreed
    <3>1. ReadKerberosTicket(p) /\ p.number = login.number BY <2>1, <2>3, Zenon
    <3>2. p.sentTicket = login.ticket /\ login.number > 0 BY <3>1
    <3>3. connection' = Accept(p.sentTicket.box.data) BY <1>5, <3>1 DEF HandleConnect
    <3> QED BY <3>2, <3>3 DEF Accept, Agreed
  <2>4. Agreed' = Agreed BY <2>1 DEF Agreed
  <2> QED BY <2>1, <2>2, <2>3, <2>4
<1>6. ASSUME NEW a \in answers, ConsoleJoins(a) PROVE TIInv'
  BY <1>6 DEF ConsoleJoins, Agreed
<1>7. CASE UNCHANGED tvars
  BY <1>7 DEF tvars, Agreed
<1> QED BY <1>1, <1>2, <1>3, <1>4, <1>5, <1>6, <1>7 DEF TNext

\* handleConnect and ReadKerberosTicket: a console that has joined with the current login's
\* ticket and the connection agree on PID and session key, for any number of logins and
\* CONNECT packets, lost, late or repeated.
THEOREM JoinedAgreesAlways == TSpec => []JoinedAgrees
<1>1. TIInv => JoinedAgrees BY DEF TIInv, JoinedAgrees, Agreed
<1> QED BY <1>1, TInitInv, TNextInv, PTL DEF TSpec

------------------------------------------------------------------------------
(* Accounts *)

Requests == [id : 1..MaxRequests, pid : Pid, pw : Password, saved : BOOLEAN]

\* What the map holds before the table is read
MapFollowsPhase ==
    /\ phase \in {"down", "opened"} => accounts = NoAccounts
    /\ phase = "seeded" => \A p \in Pid : accounts[p] = SeedOf(p)
    /\ phase # "up" => inFlight = {}

OnePerConsole == \A r, s \in inFlight : r.pid = s.pid => r = s

SavedInTable == \A r \in inFlight : r.saved => table[r.pid] = r.pw

\* The password a console has after the next start
Durable(p) == IF table[p] # None THEN table[p] ELSE IF p \in Seeded THEN Dumped ELSE Guest

Covered ==
    /\ phase # "down" => postgres
    /\ OnePerConsole
    /\ SavedInTable
    /\ \A r \in inFlight : r.pw \in allowed[r.pid]
    /\ \A p \in Pid : Durable(p) \in allowed[p]
    /\ phase = "up" /\ "load_fails" \notin recent =>
          \A p \in Pid : PasswordForPID(p) \in allowed[p]

Agreeing ==
    /\ phase # "down" => postgres
    /\ OnePerConsole
    /\ SavedInTable
    /\ phase = "up" =>
          \A p \in Pid : table[p] # None =>
              accounts[p] = table[p] \/ \E r \in inFlight : r.saved /\ r.pid = p

AccountsInv ==
    /\ TypeOK
    /\ MapFollowsPhase
    /\ ever \cap {"open_fails", "same_pid"} = {} => Covered
    /\ recent = {} => Agreeing

\* The first start of the process is in AccountsInv.
LEMMA AccountsInitInv == Init => AccountsInv
<1> SUFFICES ASSUME Init PROVE AccountsInv
  OBVIOUS
<1> USE AccountsAssumption DEF Init, NoAccounts, None
<1>1. TypeOK
  <2>1. allowed \in [Pid -> SUBSET (Password \cup {Guest, Dumped})]
    OBVIOUS
  <2>2. accounts \in [Pid -> Stored] /\ table \in [Pid -> Password \cup {None}]
    BY DEF Stored
  <2>3. postgres \in BOOLEAN /\ phase \in {"down", "opened", "seeded", "up"}
    BY Zenon
  <2>4. requests \in 0..MaxRequests /\ starts \in 0..MaxStarts
    OBVIOUS
  <2>5. inFlight = {} /\ recent = {} /\ ever = {}
    OBVIOUS
  <2> HIDE DEF Init, NoAccounts, None
  <2>6. QED
    BY <2>1, <2>2, <2>3, <2>4, <2>5 DEF TypeOK
<1>2. MapFollowsPhase
  BY DEF MapFollowsPhase
<1>3. Covered
  BY DEF Covered, OnePerConsole, SavedInTable, Durable
<1>4. Agreeing
  BY DEF Agreeing, OnePerConsole, SavedInTable
<1>5. QED
  BY <1>1, <1>2, <1>3, <1>4 DEF AccountsInv

\* Every step of a start, a request or a crash keeps AccountsInv.
LEMMA AccountsNextInv == AccountsInv /\ [Next]_vars => AccountsInv'
<1> SUFFICES ASSUME AccountsInv, [Next]_vars PROVE AccountsInv'
  OBVIOUS
<1> USE AccountsAssumption DEF AccountsInv, None
<1>t. TypeOK
  OBVIOUS
<1>1. CASE OpenPostgres
  <2>1. TypeOK'
    <3>1. recent' \subseteq ever' /\ ever' \subseteq Faults
      BY <1>1, <1>t, Zenon DEF OpenPostgres, TypeOK
    <3>2. postgres' \in BOOLEAN /\ phase' = "opened"
      BY <1>1, Zenon DEF OpenPostgres
    <3>3. starts' \in 0..MaxStarts
      BY <1>1, <1>t DEF OpenPostgres, TypeOK
    <3>4. UNCHANGED <<accounts, table, inFlight, allowed, requests>>
      BY <1>1 DEF OpenPostgres
    <3>5. QED
      BY <1>t, <3>1, <3>2, <3>3, <3>4 DEF TypeOK
  <2>2. MapFollowsPhase'
    BY <1>1 DEF OpenPostgres, MapFollowsPhase, NoAccounts
  <2>3. inFlight' = {}
    BY <1>1 DEF OpenPostgres, MapFollowsPhase
  <2>4. ASSUME ever' \cap {"open_fails", "same_pid"} = {} PROVE Covered'
    <3>1. postgres' /\ ever \cap {"open_fails", "same_pid"} = {}
      BY <1>1, <2>4 DEF OpenPostgres
    <3>2. QED
      BY <1>1, <2>3, <3>1 DEF OpenPostgres, Covered, OnePerConsole, SavedInTable, Durable
  <2>5. ASSUME recent' = {} PROVE Agreeing'
    BY <1>1, <2>3, <2>5 DEF OpenPostgres, Agreeing, OnePerConsole, SavedInTable
  <2>6. QED
    BY <2>1, <2>2, <2>4, <2>5
<1>2. CASE SeedAccountsFromEnv
  <2>1. TypeOK'
    <3>1. accounts' \in [Pid -> Stored]
      BY <1>2, <1>t DEF SeedAccountsFromEnv, TypeOK, SeedOf, Stored
    <3>2. QED
      BY <1>2, <1>t, <3>1 DEF SeedAccountsFromEnv, NoFault, TypeOK
  <2>2. MapFollowsPhase'
    BY <1>2 DEF SeedAccountsFromEnv, MapFollowsPhase, NoAccounts, SeedOf
  <2>3. inFlight' = {} /\ inFlight = {}
    BY <1>2 DEF SeedAccountsFromEnv, MapFollowsPhase
  <2>4. ASSUME ever' \cap {"open_fails", "same_pid"} = {} PROVE Covered'
    BY <1>2, <2>3, <2>4
    DEF SeedAccountsFromEnv, NoFault, Covered, OnePerConsole, SavedInTable, Durable
  <2>5. ASSUME recent' = {} PROVE Agreeing'
    BY <1>2, <2>3, <2>5
    DEF SeedAccountsFromEnv, NoFault, Agreeing, OnePerConsole, SavedInTable
  <2>6. QED
    BY <2>1, <2>2, <2>4, <2>5
<1>3. CASE LoadAccountsFromDB
  <2>1. TypeOK'
    <3>1. accounts' \in [Pid -> Stored]
      BY <1>3, <1>t DEF LoadAccountsFromDB, TypeOK, Loaded, Stored
    <3>2. recent' \subseteq ever' /\ ever' \subseteq Faults
      BY <1>3, <1>t, Zenon DEF LoadAccountsFromDB, TypeOK, NoFault, Fault
    <3>3. QED
      BY <1>3, <1>t, <3>1, <3>2 DEF LoadAccountsFromDB, TypeOK
  <2>2. MapFollowsPhase'
    BY <1>3 DEF LoadAccountsFromDB, MapFollowsPhase
  <2>3. inFlight' = {} /\ inFlight = {}
    BY <1>3 DEF LoadAccountsFromDB, MapFollowsPhase
  <2>4. ASSUME ever' \cap {"open_fails", "same_pid"} = {} PROVE Covered'
    <3>1. Covered /\ postgres
      BY <1>3, <2>4 DEF LoadAccountsFromDB, NoFault, Fault, Covered
    <3>2. ASSUME "load_fails" \notin recent', NEW p \in Pid PROVE PasswordForPID(p)' = Durable(p)
      <4>1. accounts' = [q \in Pid |-> Loaded(q)]
        BY <1>3, <3>1, <3>2 DEF LoadAccountsFromDB, Fault
      <4>2. accounts[p] = SeedOf(p)
        BY <1>3 DEF LoadAccountsFromDB, MapFollowsPhase
      <4>3. QED
        BY <4>1, <4>2 DEF Loaded, PasswordForPID, Durable, SeedOf, Dumped, Guest
    <3>3. UNCHANGED <<postgres, table, allowed>>
      BY <1>3 DEF LoadAccountsFromDB
    <3>4. QED
      BY <2>3, <3>1, <3>2, <3>3 DEF Covered, OnePerConsole, SavedInTable, Durable
  <2>5. ASSUME recent' = {} PROVE Agreeing'
    <3>1. Agreeing /\ postgres /\ accounts' = [q \in Pid |-> Loaded(q)]
      BY <1>3, <2>5 DEF LoadAccountsFromDB, NoFault, Fault, Agreeing
    <3>2. UNCHANGED <<postgres, table>>
      BY <1>3 DEF LoadAccountsFromDB
    <3>3. QED
      BY <2>3, <3>1, <3>2 DEF Agreeing, OnePerConsole, SavedInTable, Loaded
  <2>6. QED
    BY <2>1, <2>2, <2>4, <2>5
<1>4. CASE Crash
  <2>1. TypeOK'
    <3>1. accounts' \in [Pid -> Stored]
      BY <1>4 DEF Crash, NoAccounts, Stored
    <3>2. QED
      BY <1>4, <1>t, <3>1, Zenon DEF Crash, NoFault, TypeOK
  <2>2. MapFollowsPhase'
    BY <1>4 DEF Crash, MapFollowsPhase, NoAccounts
  <2>3. ASSUME ever' \cap {"open_fails", "same_pid"} = {} PROVE Covered'
    BY <1>4, <2>3 DEF Crash, NoFault, Covered, OnePerConsole, SavedInTable, Durable
  <2>4. Agreeing'
    BY <1>4 DEF Crash, Agreeing, OnePerConsole, SavedInTable
  <2>5. QED
    BY <2>1, <2>2, <2>3, <2>4
<1>5. ASSUME NEW p \in Pid, NEW pw \in Password, Register(p, pw) PROVE AccountsInv'
  <2> DEFINE new == [id |-> requests', pid |-> p, pw |-> pw, saved |-> FALSE]
  <2>1. inFlight' = inFlight \cup {new} /\ new \in Requests
    BY <1>5, <1>t DEF Register, TypeOK, Requests
  <2>2. new.pid = p /\ new.pw = pw /\ ~new.saved
    OBVIOUS
  <2> HIDE DEF new
  <2>3. /\ allowed' \in [Pid -> SUBSET (Password \cup {Guest, Dumped})]
        /\ \A q \in Pid : allowed[q] \subseteq allowed'[q]
        /\ pw \in allowed'[p]
    BY <1>5, <1>t DEF Register, TypeOK
  <2>4. UNCHANGED <<phase, postgres, accounts, table, starts>> /\ phase = "up"
    BY <1>5 DEF Register
  <2>5. TypeOK'
    <3>1. recent' \subseteq ever' /\ ever' \subseteq Faults
      BY <1>5, <1>t, Zenon DEF Register, Fault, NoFault, TypeOK
    <3>2. requests' \in 0..MaxRequests
      BY <1>5, <1>t DEF Register, TypeOK
    <3>3. QED
      BY <1>t, <2>1, <2>3, <2>4, <3>1, <3>2 DEF TypeOK, Requests
  <2>6. MapFollowsPhase'
    BY <2>4 DEF MapFollowsPhase
  <2>7. ASSUME "same_pid" \notin recent' PROVE NoFault /\ \A s \in inFlight : s.pid # p
    BY <1>5, <2>7 DEF Register, Fault
  <2>8. ASSUME "same_pid" \notin recent', OnePerConsole, SavedInTable
        PROVE  OnePerConsole' /\ SavedInTable'
    BY <2>1, <2>2, <2>4, <2>7, <2>8 DEF OnePerConsole, SavedInTable
  <2>9. ASSUME ever' \cap {"open_fails", "same_pid"} = {} PROVE Covered'
    <3>1. "same_pid" \notin recent'
      BY <2>5, <2>9 DEF TypeOK
    <3>2. Covered /\ NoFault
      BY <2>7, <2>9, <3>1 DEF NoFault
    <3>3. \A s \in inFlight' : s.pw \in allowed'[s.pid]
      BY <1>t, <2>1, <2>2, <2>3, <3>2 DEF Covered, TypeOK
    <3>4. \A q \in Pid : Durable(q)' \in allowed'[q]
      BY <2>3, <2>4, <3>2 DEF Covered, Durable
    <3>5. "load_fails" \notin recent' => \A q \in Pid : PasswordForPID(q)' \in allowed'[q]
      BY <2>3, <2>4, <3>2 DEF Covered, PasswordForPID, NoFault
    <3>6. QED
      BY <2>4, <2>8, <3>1, <3>2, <3>3, <3>4, <3>5 DEF Covered
  <2>10. ASSUME recent' = {} PROVE Agreeing'
    <3>1. Agreeing
      BY <2>7, <2>10 DEF NoFault
    <3>2. QED
      BY <2>1, <2>4, <2>8, <2>10, <3>1 DEF Agreeing
  <2>11. QED
    BY <2>5, <2>6, <2>9, <2>10
<1>r. \A r \in inFlight : r \in Requests /\ r.pid \in Pid /\ r.pw \in Password
  BY <1>t DEF TypeOK, Requests
<1>6. ASSUME NEW r \in inFlight, SaveAccount(r) PROVE AccountsInv'
  <2> DEFINE new == [r EXCEPT !.saved = TRUE]
  <2>1. inFlight' = (inFlight \ {r}) \cup {new}
    BY <1>6 DEF SaveAccount
  <2>2. new \in Requests /\ new.pid = r.pid /\ new.pw = r.pw /\ new.saved
    BY <1>r, Zenon DEF Requests
  <2> HIDE DEF new
  <2>3. /\ table' \in [Pid -> Password \cup {None}]
        /\ \A q \in Pid : q # r.pid => table'[q] = table[q]
        /\ table'[r.pid] = IF postgres THEN r.pw ELSE table[r.pid]
    BY <1>6, <1>t, <1>r DEF SaveAccount, Upsert, TypeOK
  <2>4. UNCHANGED <<phase, postgres, accounts, allowed, requests, starts, ever, recent>>
    BY <1>6 DEF SaveAccount, NoFault
  <2>5. phase = "up"
    BY <1>t DEF MapFollowsPhase, TypeOK
  <2>6. TypeOK'
    BY <1>t, <2>1, <2>2, <2>3, <2>4 DEF TypeOK, Requests
  <2>7. MapFollowsPhase'
    BY <2>4, <2>5 DEF MapFollowsPhase
  <2>8. ASSUME postgres, OnePerConsole, SavedInTable PROVE OnePerConsole' /\ SavedInTable'
    <3>1. \A s \in inFlight' : s = new \/ (s \in inFlight /\ s.pid # r.pid)
      BY <2>1, <2>8 DEF OnePerConsole
    <3>2. OnePerConsole'
      BY <2>2, <2>8, <3>1 DEF OnePerConsole
    <3>3. SavedInTable'
      BY <1>r, <2>2, <2>3, <2>8, <3>1 DEF SavedInTable
    <3>4. QED
      BY <3>2, <3>3
  <2>9. ASSUME ever' \cap {"open_fails", "same_pid"} = {} PROVE Covered'
    <3>1. Covered /\ postgres
      BY <2>4, <2>5, <2>9 DEF Covered
    <3>2. \A s \in inFlight' : s.pw \in allowed'[s.pid]
      BY <2>1, <2>2, <2>4, <3>1 DEF Covered
    <3>3. \A q \in Pid : Durable(q)' \in allowed'[q]
      BY <1>r, <2>3, <2>4, <3>1 DEF Covered, Durable
    <3>4. QED
      BY <2>4, <2>8, <3>1, <3>2, <3>3 DEF Covered, PasswordForPID
  <2>10. ASSUME recent' = {} PROVE Agreeing'
    <3>1. Agreeing /\ postgres
      BY <2>4, <2>5, <2>10 DEF Agreeing
    <3>2. ASSUME NEW p \in Pid, table'[p] # None
          PROVE  accounts[p] = table'[p] \/ \E s \in inFlight' : s.saved /\ s.pid = p
      <4>1. CASE p = r.pid
        BY <2>1, <2>2, <4>1
      <4>2. CASE p # r.pid
        BY <2>1, <2>3, <2>5, <3>1, <3>2, <4>2 DEF Agreeing
      <4>3. QED
        BY <4>1, <4>2
    <3>3. QED
      BY <2>4, <2>8, <3>1, <3>2 DEF Agreeing
  <2>11. QED
    BY <2>6, <2>7, <2>9, <2>10
<1>7. ASSUME NEW r \in inFlight, SaveAccountFails(r) PROVE AccountsInv'
  <2>1. inFlight' = inFlight \ {r} /\ UNCHANGED <<phase, postgres, accounts, allowed, requests, starts>>
    BY <1>7 DEF SaveAccountFails
  <2>2. /\ table' \in [Pid -> Password \cup {None}]
        /\ \A q \in Pid : q # r.pid => table'[q] = table[q]
        /\ table'[r.pid] \in {table[r.pid], r.pw}
    BY <1>7, <1>t, <1>r DEF SaveAccountFails, Upsert, TypeOK
  <2>3. phase = "up" /\ ~r.saved
    BY <1>7, <1>t DEF SaveAccountFails, MapFollowsPhase, TypeOK
  <2>4. recent' \subseteq ever' /\ ever' \subseteq Faults
    BY <1>7, <1>t, Zenon DEF SaveAccountFails, Fault, NoFault, TypeOK
  <2>5. ever \subseteq ever' /\ recent \subseteq recent'
    BY <1>7 DEF SaveAccountFails, Fault, NoFault
  <2>6. TypeOK'
    BY <1>t, <2>1, <2>2, <2>4 DEF TypeOK
  <2>7. MapFollowsPhase'
    BY <2>1, <2>3 DEF MapFollowsPhase
  <2>8. ASSUME OnePerConsole, SavedInTable PROVE OnePerConsole' /\ SavedInTable'
    <3>1. \A s \in inFlight' : s \in inFlight /\ s.pid # r.pid
      BY <2>1, <2>8 DEF OnePerConsole
    <3>2. QED
      BY <1>r, <2>2, <2>8, <3>1 DEF OnePerConsole, SavedInTable
  <2>9. ASSUME ever' \cap {"open_fails", "same_pid"} = {} PROVE Covered'
    <3>1. Covered
      BY <2>5, <2>9
    <3>2. \A q \in Pid : Durable(q)' \in allowed'[q]
      BY <1>r, <2>1, <2>2, <3>1 DEF Covered, Durable
    <3>3. "load_fails" \notin recent' => "load_fails" \notin recent
      BY <2>5
    <3>4. QED
      BY <2>1, <2>8, <3>1, <3>2, <3>3 DEF Covered, PasswordForPID
  <2>10. ASSUME recent' = {} PROVE Agreeing'
    <3>1. Agreeing /\ UNCHANGED table
      BY <1>7, <2>5, <2>10 DEF SaveAccountFails, Fault
    <3>2. \A s \in inFlight : s.saved => s \in inFlight'
      BY <2>1, <2>3
    <3>3. QED
      BY <2>1, <2>8, <3>1, <3>2 DEF Agreeing
  <2>11. QED
    BY <2>6, <2>7, <2>9, <2>10
<1>8. ASSUME NEW r \in inFlight, SetAndAnswer(r) PROVE AccountsInv'
  <2>1. /\ inFlight' = inFlight \ {r} /\ r.saved
        /\ UNCHANGED <<phase, postgres, table, requests, starts, ever, recent>>
    BY <1>8 DEF SetAndAnswer, NoFault
  <2>2. /\ accounts' \in [Pid -> Stored]
        /\ accounts'[r.pid] = r.pw
        /\ \A q \in Pid : q # r.pid => accounts'[q] = accounts[q]
    BY <1>8, <1>t, <1>r DEF SetAndAnswer, TypeOK, Stored
  <2>3. Unanswered(r) \subseteq Password
    BY <1>r DEF Unanswered
  <2>4. /\ allowed' \in [Pid -> SUBSET (Password \cup {Guest, Dumped})]
        /\ r.pw \in allowed'[r.pid]
        /\ \A q \in Pid : q # r.pid => allowed'[q] = allowed[q]
    BY <1>8, <1>t, <1>r, <2>3 DEF SetAndAnswer, TypeOK
  <2>5. phase = "up"
    BY <1>t DEF MapFollowsPhase, TypeOK
  <2>6. TypeOK'
    BY <1>t, <2>1, <2>2, <2>4 DEF TypeOK
  <2>7. MapFollowsPhase'
    BY <2>1, <2>5 DEF MapFollowsPhase
  <2>8. ASSUME OnePerConsole, SavedInTable
        PROVE  OnePerConsole' /\ SavedInTable' /\ \A s \in inFlight' : s.pid # r.pid
    BY <2>1, <2>8 DEF OnePerConsole, SavedInTable
  <2>9. ASSUME ever' \cap {"open_fails", "same_pid"} = {} PROVE Covered'
    <3>1. Covered
      BY <2>1, <2>9
    <3>2. \A s \in inFlight' : s.pw \in allowed'[s.pid]
      BY <1>r, <2>1, <2>4, <2>8, <3>1 DEF Covered
    <3>3. \A q \in Pid : Durable(q)' \in allowed'[q]
      <4>1. Durable(r.pid)' = r.pw
        BY <1>r, <2>1, <3>1 DEF Covered, SavedInTable, Durable
      <4>2. QED
        BY <2>1, <2>4, <3>1, <4>1 DEF Covered, Durable
    <3>4. "load_fails" \notin recent' => \A q \in Pid : PasswordForPID(q)' \in allowed'[q]
      BY <1>r, <2>1, <2>2, <2>4, <2>5, <3>1 DEF Covered, PasswordForPID
    <3>5. QED
      BY <2>1, <2>8, <3>1, <3>2, <3>3, <3>4 DEF Covered
  <2>10. ASSUME recent' = {} PROVE Agreeing'
    <3>1. Agreeing
      BY <2>1, <2>10
    <3>2. accounts'[r.pid] = table[r.pid]
      BY <2>1, <2>2, <3>1 DEF Agreeing, SavedInTable
    <3>3. ASSUME NEW p \in Pid, table[p] # None
          PROVE  accounts'[p] = table[p] \/ \E s \in inFlight' : s.saved /\ s.pid = p
      BY <2>1, <2>2, <2>5, <3>1, <3>2, <3>3 DEF Agreeing
    <3>4. QED
      BY <2>1, <2>8, <3>1, <3>3 DEF Agreeing
  <2>11. QED
    BY <2>6, <2>7, <2>9, <2>10
<1>9. CASE UNCHANGED vars
  <2>1. TypeOK' /\ MapFollowsPhase'
    BY <1>9 DEF vars, TypeOK, MapFollowsPhase
  <2>2. Covered => Covered'
    BY <1>9 DEF vars, Covered, OnePerConsole, SavedInTable, Durable, PasswordForPID
  <2>3. Agreeing => Agreeing'
    BY <1>9 DEF vars, Agreeing, OnePerConsole, SavedInTable
  <2>4. QED
    BY <1>9, <2>1, <2>2, <2>3 DEF vars
<1>10. QED
  BY <1>1, <1>2, <1>3, <1>4, <1>5, <1>6, <1>7, <1>8, <1>9 DEF Next

\* The state of the accounts keeps its type.
THEOREM TypeCorrect == Spec => []TypeOK
<1>1. AccountsInv => TypeOK
  BY DEF AccountsInv
<1>2. QED
  BY <1>1, AccountsInitInv, AccountsNextInv, PTL DEF Spec

\* handleRegister and the start sequence of main(): a console whose registration was
\* answered logs in with it through any number of crashes and restarts, with the
\* exceptions RegisteredCanLogin names.
THEOREM RegisteredCanLoginAlways == Spec => []RegisteredCanLogin
<1>1. AccountsInv => RegisteredCanLogin
  BY DEF AccountsInv, Covered, RegisteredCanLogin
<1>2. QED
  BY <1>1, AccountsInitInv, AccountsNextInv, PTL DEF Spec

\* loadAccountsFromDB and handleRegister: since a start that found everything in order,
\* and while no registration is being handled, the map agrees with the table.
THEOREM StoreMatchesTableAlways == Spec => []StoreMatchesTable
<1>1. AccountsInv => StoreMatchesTable
  BY DEF AccountsInv, Agreeing, StoreMatchesTable
<1>2. QED
  BY <1>1, AccountsInitInv, AccountsNextInv, PTL DEF Spec

------------------------------------------------------------------------------
(* The patcher *)

PatcherTypes ==
    /\ app \in [Patched -> {"menu", "posting", "writing", "offer"}]
    /\ own \in [Patched -> Password]
    /\ request \in [Patched -> Nat]
    /\ sd \in [Patched -> {"nimbus", "ffe", "broken"}]
    /\ connected \in [Patched -> BOOLEAN]

\* A console that waits for an answer waits for that to its own password.
WaitsForOwn ==
    /\ \A r \in inFlight : r.id <= requests
    /\ \A c \in Patched : request[c] <= requests
    /\ \A c \in Patched, r \in inFlight :
           app[c] = "posting" /\ request[c] = r.id => r.pid = c /\ r.pw = own[c]

\* A registration of c was answered, for all that the console has seen since.
Registered(c) == app[c] = "writing" \/ sd[c] = "ffe"

\* The server knows the consoles that have or are about to write the patch, and will know
\* them after the next start.
PatchedKnown ==
    /\ phase # "down" => postgres
    /\ \A r \in inFlight : r.saved => table[r.pid] # None
    /\ \A c \in Patched : Registered(c) =>
           /\ table[c] # None
           /\ phase = "up" /\ "load_fails" \notin recent => accounts[c] # None

\* Table, map and registrations have the password of a console that has connected or is
\* about to.
PasswordsOwn ==
    \A c \in Patched : connected[c] \/ app[c] = "writing" =>
        /\ table[c] = own[c]
        /\ phase = "up" /\ "load_fails" \notin recent => accounts[c] = own[c]
        /\ \A r \in inFlight : r.pid = c => r.pw = own[c]

PatcherInv ==
    /\ AccountsInv
    /\ PatcherTypes
    /\ WaitsForOwn
    /\ "open_fails" \notin ever => PatchedKnown
    /\ ever \cap {"open_fails", "same_pid"} = {} => PasswordsOwn

\* Nobody has the patch at first.
LEMMA PatcherInitInv == PatcherInit => PatcherInv
<1> SUFFICES ASSUME PatcherInit PROVE PatcherInv
  OBVIOUS
<1>1. AccountsInv
  BY AccountsInitInv DEF PatcherInit
<1>2. PatcherTypes
  BY DEF PatcherInit, PatcherTypes
<1>3. inFlight = {} /\ requests = 0 /\ phase = "down"
  BY DEF PatcherInit, Init
<1>4. \A c \in Patched : app[c] = "menu" /\ sd[c] = "nimbus" /\ ~connected[c] /\ request[c] = 0
  BY DEF PatcherInit
<1>5. QED
  BY <1>1, <1>2, <1>3, <1>4 DEF PatcherInv, WaitsForOwn, PatchedKnown, PasswordsOwn, Registered

\* What the application does to the accounts is what Accounts lets any client do.
LEMMA PatcherStep ==
    ASSUME PatcherTypes, [PatcherNext]_<<vars, consoleVars>> PROVE [Next]_vars
<1>1. ASSUME NEW c \in Patched, DoConnect(c) PROVE Next
  <2>1. c \in Pid /\ own[c] \in Password
    BY PatcherAssumption DEF PatcherTypes
  <2>2. Register(c, own[c])
    BY <1>1 DEF DoConnect, Posted
  <2>3. QED
    BY <2>1, <2>2 DEF Next
<1>2. QED
  BY <1>1 DEF PatcherNext, Next, ServerCrashes, RegisterRefused, RegisterAnswered, InstallPatch,
              DoUndo, OfferReboot, SwitchOff, ChangePassword

\* The three parts that relate consoles and server
Consistent == WaitsForOwn /\ ("open_fails" \notin ever => PatchedKnown)
              /\ (ever \cap {"open_fails", "same_pid"} = {} => PasswordsOwn)

\* main() starts the server.
LEMMA StartConsistent ==
    ASSUME PatcherInv, OpenPostgres \/ SeedAccountsFromEnv \/ LoadAccountsFromDB,
           UNCHANGED consoleVars
    PROVE  Consistent'
<1> USE DEF PatcherInv
<1>1. /\ UNCHANGED <<table, inFlight, requests, app, own, request, sd, connected>>
      /\ ever \subseteq ever' /\ inFlight = {}
  BY DEF OpenPostgres, SeedAccountsFromEnv, LoadAccountsFromDB, consoleVars, NoFault, Fault,
         AccountsInv, MapFollowsPhase
<1>2. WaitsForOwn'
  BY <1>1 DEF WaitsForOwn
<1>3. "open_fails" \notin ever' => postgres' /\ "open_fails" \notin ever
  BY <1>1 DEF OpenPostgres, SeedAccountsFromEnv, LoadAccountsFromDB, NoFault, Fault, PatchedKnown
<1>4. phase' = "up" /\ "load_fails" \notin recent' /\ "open_fails" \notin ever' =>
          \A p \in Pid : table[p] # None => accounts'[p] = table[p]
  BY <1>1, <1>3
  DEF OpenPostgres, SeedAccountsFromEnv, LoadAccountsFromDB, NoFault, Fault, PatchedKnown, Loaded
<1>5. ASSUME "open_fails" \notin ever' PROVE PatchedKnown'
  BY <1>1, <1>3, <1>4, <1>5, PatcherAssumption DEF PatchedKnown, Registered
<1>6. ASSUME ever' \cap {"open_fails", "same_pid"} = {} PROVE PasswordsOwn'
  <2>1. \A c \in Patched : own[c] # None /\ c \in Pid
    BY AccountsAssumption, PatcherAssumption DEF PatcherTypes, None
  <2>2. QED
    BY <1>1, <1>4, <1>6, <2>1 DEF PasswordsOwn
<1>7. QED
  BY <1>2, <1>5, <1>6 DEF Consistent

\* The server goes down.
LEMMA CrashConsistent == PatcherInv /\ ServerCrashes => Consistent'
<1> SUFFICES ASSUME PatcherInv, ServerCrashes PROVE Consistent'
  OBVIOUS
<1> USE DEF PatcherInv
<1>1. /\ UNCHANGED <<table, requests, own, sd, connected, ever>>
      /\ inFlight' = {} /\ phase' = "down"
  BY DEF ServerCrashes, Crash, NoFault, Answer
<1>2. /\ \A c \in Patched : app'[c] = "writing" => app[c] = "writing"
      /\ \A c \in Patched : request'[c] \in {0, request[c]}
  BY DEF ServerCrashes, Answer, AfterAnswer
<1>3. requests \in Nat
  BY AccountsAssumption DEF AccountsInv, TypeOK
<1>4. QED
  BY <1>1, <1>2, <1>3, SMTT(30) DEF Consistent, WaitsForOwn, PatchedKnown, PasswordsOwn, Registered

\* What the server knows of a request
LEMMA RequestType ==
    ASSUME AccountsInv, NEW r \in inFlight
    PROVE  /\ r \in Requests /\ r.id \in Nat \ {0} /\ r.pid \in Pid /\ r.pw \in Password
           /\ r.pw # None /\ phase = "up"
<1>1. r \in Requests
  BY DEF AccountsInv, TypeOK, Requests
<1>2. phase = "up"
  BY DEF AccountsInv, MapFollowsPhase
<1>3. QED
  BY <1>1, <1>2, AccountsAssumption DEF Requests, None

\* saveAccount succeeds.
LEMMA SaveConsistent ==
    ASSUME PatcherInv, NEW r \in inFlight, SaveAccount(r), UNCHANGED consoleVars
    PROVE  Consistent'
<1> USE DEF PatcherInv
<1> DEFINE new == [r EXCEPT !.saved = TRUE]
<1>1. /\ inFlight' = (inFlight \ {r}) \cup {new}
      /\ UNCHANGED <<phase, postgres, accounts, requests, ever, recent, app, own, request, sd, connected>>
  BY DEF SaveAccount, NoFault, consoleVars
<1>2. /\ r.pid \in Pid /\ r.pw # None /\ phase = "up"
      /\ new.id = r.id /\ new.pid = r.pid /\ new.pw = r.pw
  BY RequestType DEF Requests
<1>3. \A p \in Pid : table'[p] = IF postgres /\ p = r.pid THEN r.pw ELSE table[p]
  BY DEF SaveAccount, Upsert, AccountsInv, TypeOK
<1> HIDE DEF new
<1>4. WaitsForOwn'
  BY <1>1, <1>2 DEF WaitsForOwn
<1>5. ASSUME "open_fails" \notin ever' PROVE PatchedKnown'
  <2>1. PatchedKnown /\ postgres
    BY <1>1, <1>2, <1>5 DEF PatchedKnown
  <2>2. \A s \in inFlight' : s.saved => table'[s.pid] # None
    <3>1. \A s \in inFlight : s.pid \in Pid
      BY RequestType
    <3>2. QED
      BY <1>1, <1>2, <1>3, <2>1, <3>1 DEF PatchedKnown
  <2>3. QED
    BY <1>1, <1>2, <1>3, <2>1, <2>2, PatcherAssumption DEF PatchedKnown, Registered
<1>6. ASSUME ever' \cap {"open_fails", "same_pid"} = {} PROVE PasswordsOwn'
  <2>1. PasswordsOwn
    BY <1>1, <1>6
  <2>2. QED
    BY <1>1, <1>2, <1>3, <2>1, PatcherAssumption DEF PasswordsOwn
<1>7. QED
  BY <1>4, <1>5, <1>6 DEF Consistent

\* saveAccount fails, also when the upsert took effect.
LEMMA RefuseConsistent ==
    ASSUME PatcherInv, NEW r \in inFlight, RegisterRefused(r)
    PROVE  Consistent'
<1> USE DEF PatcherInv
<1>1. /\ inFlight' = inFlight \ {r} /\ postgres
      /\ UNCHANGED <<phase, postgres, accounts, requests, own, sd, connected>>
      /\ ever \subseteq ever' /\ recent \subseteq recent'
  BY DEF RegisterRefused, SaveAccountFails, NoFault, Fault, Answer
<1>2. r.pid \in Pid /\ r.pw # None /\ phase = "up" /\ \A s \in inFlight : s.pid \in Pid
  BY RequestType
<1>3. \A p \in Pid : table'[p] = table[p] \/ (p = r.pid /\ table'[p] = r.pw)
  BY DEF RegisterRefused, SaveAccountFails, Upsert, AccountsInv, TypeOK
<1>4. /\ \A c \in Patched : app'[c] \in {"menu", app[c]} /\ (app'[c] = "posting" => request'[c] = request[c])
      /\ \A c \in Patched : request'[c] \in {0, request[c]}
  BY DEF RegisterRefused, Answer, AfterAnswer
<1>5. requests \in Nat
  BY AccountsAssumption DEF AccountsInv, TypeOK
<1>6. WaitsForOwn'
  BY <1>1, <1>4, <1>5 DEF WaitsForOwn
<1>7. ASSUME "open_fails" \notin ever' PROVE PatchedKnown'
  <2>1. PatchedKnown
    BY <1>1, <1>7
  <2>2. \A p \in Pid : table[p] # None => table'[p] # None
    BY <1>2, <1>3
  <2>3. QED
    BY <1>1, <1>2, <1>4, <2>1, <2>2, PatcherAssumption DEF PatchedKnown, Registered
<1>8. ASSUME ever' \cap {"open_fails", "same_pid"} = {} PROVE PasswordsOwn'
  <2>1. PasswordsOwn
    BY <1>1, <1>8
  <2>2. QED
    BY <1>1, <1>2, <1>3, <1>4, <2>1, PatcherAssumption DEF PasswordsOwn
<1>9. QED
  BY <1>6, <1>7, <1>8 DEF Consistent

\* accounts.set and the answer, whether it arrives or not.
LEMMA AnswerConsistent ==
    ASSUME PatcherInv, NEW r \in inFlight, RegisterAnswered(r)
    PROVE  Consistent'
<1> USE DEF PatcherInv
<1>1. /\ inFlight' = inFlight \ {r} /\ r.saved
      /\ UNCHANGED <<phase, postgres, table, requests, own, sd, connected, ever, recent>>
  BY DEF RegisterAnswered, SetAndAnswer, NoFault, Answer
<1>2. r.pid \in Pid /\ r.pw # None /\ phase = "up" /\ r.id \in Nat \ {0}
  BY RequestType
<1>3. \A p \in Pid : accounts'[p] = IF p = r.pid THEN r.pw ELSE accounts[p]
  BY DEF RegisterAnswered, SetAndAnswer, AccountsInv, TypeOK
<1>4. /\ \A c \in Patched : app'[c] = app[c] \/ app'[c] = "menu" \/ (app'[c] = "writing" /\ c \in WaitingFor(r))
      /\ \A c \in Patched : app'[c] = "posting" => request'[c] = request[c]
      /\ \A c \in Patched : request'[c] \in {0, request[c]}
  <2>1. PICK status \in {0, 200} : Answer(WaitingFor(r), status)
    BY DEF RegisterAnswered
  <2>2. \A c \in Patched : c \notin WaitingFor(r) => app'[c] = app[c] /\ request'[c] = request[c]
    BY <2>1 DEF Answer
  <2>3. \A c \in Patched : c \in WaitingFor(r) => app'[c] \in {"menu", "writing"} /\ request'[c] = 0
    BY <2>1 DEF Answer, AfterAnswer
  <2>4. QED
    BY <2>2, <2>3
<1>5. \A c \in WaitingFor(r) : r.pid = c /\ r.pw = own[c] /\ c \in Patched
  BY DEF WaitingFor, WaitsForOwn
<1>6. requests \in Nat
  BY AccountsAssumption DEF AccountsInv, TypeOK
<1>7. WaitsForOwn'
  BY <1>1, <1>4, <1>6, SMTT(30) DEF WaitsForOwn
<1>8. ASSUME "open_fails" \notin ever' PROVE PatchedKnown'
  <2>1. PatchedKnown /\ table[r.pid] # None
    BY <1>1, <1>8 DEF PatchedKnown
  <2>2. ASSUME NEW c \in Patched, Registered(c)'
        PROVE  /\ table'[c] # None
               /\ "load_fails" \notin recent' => accounts'[c] # None
    <3>1. c \in Pid
      BY PatcherAssumption
    <3>2. CASE Registered(c)
      BY <1>1, <1>2, <1>3, <2>1, <3>1, <3>2 DEF PatchedKnown
    <3>3. CASE ~Registered(c)
      <4>1. c = r.pid
        BY <1>1, <1>4, <1>5, <2>2, <3>3 DEF Registered
      <4>2. QED
        BY <1>1, <1>2, <1>3, <2>1, <4>1
    <3>4. QED
      BY <3>2, <3>3
  <2>3. QED
    BY <1>1, <2>1, <2>2 DEF PatchedKnown
<1>9. ASSUME ever' \cap {"open_fails", "same_pid"} = {} PROVE PasswordsOwn'
  <2>1. PasswordsOwn /\ Covered
    BY <1>1, <1>9 DEF AccountsInv
  <2>2. table[r.pid] = r.pw /\ \A s \in inFlight' : s.pid # r.pid
    BY <1>1, <2>1 DEF Covered, SavedInTable, OnePerConsole
  <2>3. ASSUME NEW c \in Patched, connected'[c] \/ app'[c] = "writing"
        PROVE  /\ table'[c] = own[c]
               /\ "load_fails" \notin recent' => accounts'[c] = own[c]
               /\ \A s \in inFlight' : s.pid = c => s.pw = own[c]
    <3>1. c \in Pid
      BY PatcherAssumption
    <3>2. CASE connected[c] \/ app[c] = "writing"
      BY <1>1, <1>2, <1>3, <2>1, <3>1, <3>2 DEF PasswordsOwn
    <3>3. CASE ~(connected[c] \/ app[c] = "writing")
      <4>1. c = r.pid /\ r.pw = own[c]
        BY <1>1, <1>4, <1>5, <2>3, <3>3
      <4>2. QED
        BY <1>1, <1>3, <2>2, <3>1, <4>1
    <3>4. QED
      BY <3>2, <3>3
  <2>4. QED
    BY <1>1, <2>3 DEF PasswordsOwn
<1>10. QED
  BY <1>7, <1>8, <1>9 DEF Consistent

\* do_connect posts the password.
LEMMA ConnectConsistent ==
    ASSUME PatcherInv, NEW c \in Patched, DoConnect(c)
    PROVE  Consistent'
<1> USE DEF PatcherInv
<1> DEFINE new == [id |-> requests', pid |-> c, pw |-> own[c], saved |-> FALSE]
<1>1. /\ inFlight' = inFlight \cup {new} /\ requests' = requests + 1 /\ app[c] = "menu"
      /\ UNCHANGED <<phase, postgres, accounts, table, own, sd, connected>>
      /\ ever \subseteq ever' /\ recent \subseteq recent'
  BY DEF DoConnect, Register, Posted, NoFault, Fault
<1>2. /\ \A d \in Patched : app'[d] = IF d = c THEN "posting" ELSE app[d]
      /\ \A d \in Patched : request'[d] = IF d = c THEN requests' ELSE request[d]
  BY DEF DoConnect, PatcherTypes
<1>3. new.id = requests' /\ new.pid = c /\ new.pw = own[c] /\ ~new.saved
  OBVIOUS
<1>4. /\ requests \in Nat /\ \A r \in inFlight : r.id \in Nat
      /\ \A d \in Patched : request[d] \in Nat
  BY AccountsAssumption, RequestType DEF AccountsInv, TypeOK, PatcherTypes
<1> HIDE DEF new
<1>5. WaitsForOwn'
  <2>0. requests' = requests + 1
    BY <1>1
  <2>1. \A r \in inFlight' : r.id <= requests'
    <3> SUFFICES ASSUME NEW r \in inFlight' PROVE r.id <= requests'
      OBVIOUS
    <3>1. CASE r = new
      BY <1>3, <1>4, <2>0, <3>1
    <3>2. CASE r \in inFlight
      <4>1. r.id <= requests
        BY <3>2 DEF WaitsForOwn
      <4>2. QED
        BY <1>4, <2>0, <3>2, <4>1
    <3>3. QED
      BY <1>1, <3>1, <3>2
  <2>2. \A d \in Patched : request'[d] <= requests'
    BY <1>1, <1>2, <1>4, SMTT(30) DEF WaitsForOwn
  <2>3. ASSUME NEW d \in Patched, NEW r \in inFlight', app'[d] = "posting", request'[d] = r.id
        PROVE  r.pid = d /\ r.pw = own[d]
    <3>1. CASE r = new
      <4>1. d = c
        <5> SUFFICES ASSUME d # c PROVE FALSE
          OBVIOUS
        <5>1. request[d] = requests + 1
          BY <1>2, <1>3, <2>0, <2>3, <3>1
        <5>2. request[d] <= requests
          BY DEF WaitsForOwn
        <5>3. QED
          BY <1>4, <5>1, <5>2
      <4>2. QED
        BY <1>3, <3>1, <4>1
    <3>2. CASE r \in inFlight
      <4>1. r.id \in Nat /\ r.id <= requests
        BY <1>4, <3>2 DEF WaitsForOwn
      <4>2. d # c
        <5> SUFFICES ASSUME d = c PROVE FALSE
          OBVIOUS
        <5>1. r.id = requests + 1
          BY <1>2, <2>0, <2>3
        <5>2. QED
          BY <1>4, <4>1, <5>1
      <4>3. QED
        BY <1>2, <2>3, <3>2, <4>2 DEF WaitsForOwn
    <3>3. QED
      BY <1>1, <3>1, <3>2
  <2>4. QED
    BY <1>1, <2>1, <2>2, <2>3 DEF WaitsForOwn
<1>6. ASSUME "open_fails" \notin ever' PROVE PatchedKnown'
  <2>1. PatchedKnown
    BY <1>1, <1>6
  <2>2. QED
    BY <1>1, <1>2, <1>3, <2>1 DEF PatchedKnown, Registered
<1>7. ASSUME ever' \cap {"open_fails", "same_pid"} = {} PROVE PasswordsOwn'
  <2>1. PasswordsOwn
    BY <1>1, <1>7
  <2>2. QED
    BY <1>1, <1>2, <1>3, <2>1 DEF PasswordsOwn
<1>8. QED
  BY <1>5, <1>6, <1>7 DEF Consistent

\* What the console does by itself changes nothing at the server and nothing at the other
\* consoles, and makes it neither wait for an answer nor count on one it did not get.
ConsoleOnly(c) ==
    /\ UNCHANGED vars
    /\ \A d \in Patched : d # c =>
          /\ app'[d] = app[d] /\ own'[d] = own[d] /\ request'[d] = request[d]
          /\ sd'[d] = sd[d] /\ connected'[d] = connected[d]
    /\ app'[c] # "posting" /\ app'[c] # "writing" /\ request'[c] \in {0, request[c]}
    /\ sd'[c] = "ffe" => Registered(c)
    /\ connected'[c] => own'[c] = own[c] /\ (connected[c] \/ app[c] = "writing")

\* The steps of the patcher that are the console's alone keep the types and the server.
LEMMA ConsoleSteps ==
    ASSUME PatcherTypes, NEW c \in Patched,
           \/ InstallPatch(c) \/ DoUndo(c) \/ OfferReboot(c) \/ SwitchOff(c)
           \/ \E pw \in Password : ChangePassword(c, pw)
    PROVE  PatcherTypes' /\ ConsoleOnly(c)
<1>1. UNCHANGED vars
  BY DEF InstallPatch, DoUndo, OfferReboot, SwitchOff, ChangePassword
<1>2. PatcherTypes'
  <2>1. app' \in [Patched -> {"menu", "posting", "writing", "offer"}]
    BY DEF InstallPatch, DoUndo, OfferReboot, SwitchOff, ChangePassword, WritePatch, PatcherTypes
  <2>2. own' \in [Patched -> Password] /\ request' \in [Patched -> Nat]
    BY DEF InstallPatch, DoUndo, OfferReboot, SwitchOff, ChangePassword, PatcherTypes
  <2>3. sd' \in [Patched -> {"nimbus", "ffe", "broken"}]
    BY DEF InstallPatch, DoUndo, OfferReboot, SwitchOff, ChangePassword, WritePatch, PatcherTypes
  <2>4. connected' \in [Patched -> BOOLEAN]
    <3>1. connected \in [Patched -> BOOLEAN]
      BY DEF PatcherTypes
    <3>2. \/ connected' = connected \/ \E b \in BOOLEAN : connected' = [connected EXCEPT ![c] = b]
      <4>1. (connected[c] \/ app'[c] = "offer") \in BOOLEAN
        OBVIOUS
      <4>2. QED
        BY <4>1, Zenon DEF InstallPatch, DoUndo, OfferReboot, SwitchOff, ChangePassword
    <3>3. QED
      BY <3>1, <3>2, Zenon
  <2>5. QED
    BY <2>1, <2>2, <2>3, <2>4 DEF PatcherTypes
<1>3. \A d \in Patched : d # c =>
          /\ app'[d] = app[d] /\ own'[d] = own[d] /\ request'[d] = request[d]
          /\ sd'[d] = sd[d] /\ connected'[d] = connected[d]
  BY DEF InstallPatch, DoUndo, OfferReboot, SwitchOff, ChangePassword, WritePatch, PatcherTypes
<1>4. /\ app'[c] # "posting" /\ app'[c] # "writing" /\ request'[c] \in {0, request[c]}
      /\ sd'[c] = "ffe" => Registered(c)
      /\ connected'[c] => own'[c] = own[c] /\ (connected[c] \/ app[c] = "writing")
  BY DEF InstallPatch, DoUndo, OfferReboot, SwitchOff, ChangePassword, WritePatch, PatcherTypes,
         Registered
<1>5. QED
  BY <1>1, <1>2, <1>3, <1>4 DEF ConsoleOnly

\* What a console was promised is not lost by what it does itself.
LEMMA ConsoleConsistent ==
    ASSUME PatcherInv, NEW c \in Patched, ConsoleOnly(c)
    PROVE  Consistent'
<1>1. UNCHANGED vars
  BY DEF ConsoleOnly
<1>2. requests \in Nat
  BY AccountsAssumption DEF PatcherInv, AccountsInv, TypeOK
<1>3. \A d \in Patched : d # c => app'[d] = app[d] /\ own'[d] = own[d] /\ request'[d] = request[d]
  BY DEF ConsoleOnly
<1>4. app'[c] # "posting" /\ app'[c] # "writing" /\ request'[c] \in {0, request[c]}
  BY DEF ConsoleOnly
<1>5. /\ WaitsForOwn /\ ("open_fails" \notin ever => PatchedKnown)
      /\ ever \cap {"open_fails", "same_pid"} = {} => PasswordsOwn
  BY DEF PatcherInv
<1>6. requests' = requests /\ inFlight' = inFlight /\ ever' = ever
  BY <1>1 DEF vars
<1>7. WaitsForOwn'
  <2>1. \A r \in inFlight' : r.id <= requests'
    BY <1>5, <1>6 DEF WaitsForOwn
  <2>2. \A d \in Patched : request[d] <= requests
    BY <1>5 DEF WaitsForOwn
  <2>3. \A d \in Patched : request'[d] <= requests'
    BY <1>2, <1>3, <1>4, <1>6, <2>2
  <2>4. ASSUME NEW d \in Patched, NEW r \in inFlight', app'[d] = "posting", request'[d] = r.id
        PROVE  r.pid = d /\ r.pw = own'[d]
    <3>1. d # c
      BY <1>4, <2>4
    <3>2. app[d] = "posting" /\ request[d] = r.id /\ own'[d] = own[d] /\ r \in inFlight
      BY <1>3, <1>6, <2>4, <3>1
    <3>3. QED
      BY <1>5, <3>2 DEF WaitsForOwn
  <2>5. QED
    BY <2>1, <2>3, <2>4 DEF WaitsForOwn
<1>8. ASSUME "open_fails" \notin ever' PROVE PatchedKnown'
  <2>1. PatchedKnown
    BY <1>5, <1>6, <1>8
  <2>2. UNCHANGED <<postgres, phase, recent, accounts, table, inFlight>>
    BY <1>1 DEF vars
  <2>3. \A d \in Patched : Registered(d)' => Registered(d)
    BY DEF ConsoleOnly, Registered
  <2>4. QED
    BY <2>1, <2>2, <2>3 DEF PatchedKnown
<1>9. ASSUME ever' \cap {"open_fails", "same_pid"} = {} PROVE PasswordsOwn'
  <2>1. PasswordsOwn
    BY <1>5, <1>6, <1>9
  <2>2. UNCHANGED <<table, phase, recent, accounts, inFlight>>
    BY <1>1 DEF vars
  <2>3. ASSUME NEW d \in Patched, connected'[d] \/ app'[d] = "writing"
        PROVE  own'[d] = own[d] /\ (connected[d] \/ app[d] = "writing")
    BY <2>3 DEF ConsoleOnly
  <2>4. QED
    BY <2>1, <2>2, <2>3 DEF PasswordsOwn
<1>10. QED
  BY <1>7, <1>8, <1>9 DEF Consistent

\* The steps of the server keep the types of the application's state.
LEMMA PatcherTypesStep ==
    ASSUME PatcherInv, [PatcherNext]_<<vars, consoleVars>> PROVE PatcherTypes'
<1> USE DEF PatcherInv
<1>1. ASSUME NEW cs, NEW status, Answer(cs, status) PROVE PatcherTypes'
  BY <1>1 DEF Answer, AfterAnswer, PatcherTypes
<1>2. ASSUME NEW c \in Patched, DoConnect(c) PROVE PatcherTypes'
  <2>1. requests' \in Nat
    BY <1>2, AccountsAssumption, SMTT(30) DEF DoConnect, Register, AccountsInv, TypeOK
  <2>2. QED
    BY <1>2, <2>1 DEF DoConnect, PatcherTypes
<1>3. UNCHANGED consoleVars => PatcherTypes'
  BY DEF consoleVars, PatcherTypes
<1>4. QED
  BY <1>1, <1>2, <1>3, ConsoleSteps
  DEF PatcherNext, ServerCrashes, RegisterRefused, RegisterAnswered

\* Every step of console and server keeps the invariant.
LEMMA PatcherNextInv == PatcherInv /\ [PatcherNext]_<<vars, consoleVars>> => PatcherInv'
<1> SUFFICES ASSUME PatcherInv, [PatcherNext]_<<vars, consoleVars>> PROVE PatcherInv'
  OBVIOUS
<1>1. AccountsInv' /\ PatcherTypes'
  BY PatcherStep, AccountsNextInv, PatcherTypesStep DEF PatcherInv
<1>2. ASSUME UNCHANGED <<vars, consoleVars>> PROVE Consistent'
  BY <1>2 DEF PatcherInv, Consistent, WaitsForOwn, PatchedKnown, PasswordsOwn, Registered, vars,
              consoleVars
<1>3. ASSUME PatcherNext PROVE Consistent'
  BY <1>3, StartConsistent, CrashConsistent, SaveConsistent, RefuseConsistent, AnswerConsistent,
     ConnectConsistent, ConsoleSteps, ConsoleConsistent
  DEF PatcherNext, PatcherInv
<1>4. QED
  BY <1>1, <1>2, <1>3 DEF PatcherInv, Consistent

\* do_connect, write_patch and the server: once the console has said "Connected!", its
\* password is the one the server has, through crashes, restarts, lost answers and a
\* console that is switched off, with ConnectedCanLogin's exceptions.
THEOREM ConnectedCanLoginAlways == PatcherSpec => []ConnectedCanLogin
<1>1. PatcherInv => ConnectedCanLogin
  <2> SUFFICES ASSUME PatcherInv, phase = "up", "open_fails" \notin ever, "load_fails" \notin recent,
                      NEW c \in Patched
               PROVE  /\ sd[c] = "ffe" => PasswordForPID(c) # Guest
                      /\ connected[c] /\ "same_pid" \notin ever => PasswordForPID(c) = own[c]
    BY DEF ConnectedCanLogin
  <2>1. c \in Pid /\ own[c] \in Password /\ own[c] # None /\ accounts[c] \in Stored
    BY PatcherAssumption, AccountsAssumption
    DEF PatcherInv, PatcherTypes, AccountsInv, TypeOK, None
  <2>2. sd[c] = "ffe" => PasswordForPID(c) # Guest
    <3>1. sd[c] = "ffe" => accounts[c] # None
      BY DEF PatcherInv, PatchedKnown, Registered
    <3>2. QED
      BY <2>1, <3>1, PatcherAssumption DEF PasswordForPID, Stored, Dumped, Guest, None
  <2>3. ASSUME connected[c], "same_pid" \notin ever PROVE PasswordForPID(c) = own[c]
    <3>1. accounts[c] = own[c]
      BY <2>3 DEF PatcherInv, PasswordsOwn
    <3>2. QED
      BY <2>1, <3>1 DEF PasswordForPID
  <2>4. QED
    BY <2>2, <2>3
<1>2. QED
  BY <1>1, PatcherInitInv, PatcherNextInv, PTL DEF PatcherSpec

\* The application composed with the server does to the accounts only what Accounts allows:
\* every behaviour of both is one of Accounts.
THEOREM PatcherRefinesAccounts == PatcherSpec => Spec
<1>1. PatcherInit => Init
  BY DEF PatcherInit
<1>2. PatcherInv /\ [PatcherNext]_<<vars, consoleVars>> => [Next]_vars
  BY PatcherStep DEF PatcherInv
<1>3. QED
  BY <1>1, <1>2, PatcherInitInv, PatcherNextInv, PTL DEF PatcherSpec, Spec

------------------------------------------------------------------------------
(* NASC *)

IDs == Nat \ {0}
AllGames == Games \cup OtherGames
IP == (UNION {{ips[i] : i \in DOMAIN ips} : ips \in Upstreams}) \cup {Self, ""}
AddressSets == SUBSET IP
Addresses == Seq(IP)
Stages == {"start", "store", "answer", "dial", "upstream", "looped", "done"}
Answers == {"none", "null", "110", "001", "unreachable", "pretendo", "looped"}

AC == [id : IDs, game : AllGames, action : Actions, user : Users, sentFor : Nat,
       at : Stages, ips : Addresses, rest : Addresses, refused : AddressSets,
       via : IP, token : Nat, answer : Answers]

\* The answers of DNS are lists of addresses.
LEMMA UpstreamsType == Upstreams \subseteq Addresses
<1>1. SUFFICES ASSUME NEW ips \in Upstreams PROVE ips \in Seq(IP)
  BY DEF Addresses
<1>2. {ips[i] : i \in DOMAIN ips} \subseteq IP
  BY Zenon DEF IP
<1>3. ips \in Seq({ips[i] : i \in DOMAIN ips})
  BY NASCAssumption
<1> DEFINE S == {ips[i] : i \in DOMAIN ips}
<1> HIDE DEF S
<1>4. QED
  BY <1>2, <1>3, SMTT(30) DEF S

\* Every address is refused, the process's own, or left to dial.
Tried(a, host) ==
    \A i \in DOMAIN a.ips : \/ a.ips[i] \in a.refused \cup {host}
                            \/ \E j \in DOMAIN a.rest : a.rest[j] = a.ips[i]

\* A request, with the tokens that are stored
Sound(a, tokens, host) ==
    /\ a.at # "done" => a.answer = "none"
    /\ a.token \in {0, a.id}
    /\ a.at \in {"store", "answer"} \/ a.answer = "001" => a.token = a.id
    /\ a.at = "answer" \/ a.answer = "001" =>
           a.token \in DOMAIN tokens /\ tokens[a.token] = a.user
    /\ a.at = "upstream" => a.via # Self
    /\ host = Self => a.sentFor = 0 /\ a.at # "looped"
    /\ a.at = "dial" \/ a.answer = "unreachable" => Tried(a, host)
    /\ a.answer = "unreachable" => a.rest = <<>>

NASCInv ==
    /\ acs \subseteq AC /\ acCount \in Nat /\ pooled \subseteq IP
    /\ \A a \in acs : a.id <= acCount /\ Sound(a, issuedTokens, publicHost)
    /\ \A a, b \in acs : a.id = b.id => a = b
    /\ publicHost = Self => Self \notin pooled

\* The server starts without requests, tokens and kept connections.
LEMMA NASCInitInv == NASCInit => NASCInv
BY DEF NASCInit, NASCInv

\* What NASCInv says of every request gives the three properties.
LEMMA InvImplies == NASCInv => TokenNamesUser /\ NeverLoops /\ TriesAllUpstreams
<1> SUFFICES ASSUME NASCInv PROVE TokenNamesUser /\ NeverLoops /\ TriesAllUpstreams
  OBVIOUS
<1>1. TokenNamesUser
  <2>1. SUFFICES ASSUME NEW a \in acs, a.answer = "001"
                 PROVE  /\ a.token \in DOMAIN issuedTokens /\ issuedTokens[a.token] = a.user
                        /\ \A b \in acs : b.token = a.token => b = a
    BY DEF TokenNamesUser
  <2>2. /\ a.token = a.id /\ a.id # 0
        /\ a.token \in DOMAIN issuedTokens /\ issuedTokens[a.token] = a.user
    BY <2>1 DEF NASCInv, Sound, AC, IDs
  <2>3. \A b \in acs : b.token \in {0, b.id}
    BY DEF NASCInv, Sound
  <2>4. QED
    BY <2>2, <2>3 DEF NASCInv
<1>2. NeverLoops
  BY DEF NASCInv, Sound, NeverLoops
<1>3. TriesAllUpstreams
  <2>1. SUFFICES ASSUME NEW a \in acs, a.answer = "unreachable"
                 PROVE  \A i \in DOMAIN a.ips : a.ips[i] \in a.refused \cup {publicHost}
    BY DEF TriesAllUpstreams
  <2>2. Tried(a, publicHost) /\ a.rest = <<>>
    BY <2>1 DEF NASCInv, Sound
  <2>3. DOMAIN a.rest = {}
    BY <2>2
  <2>4. QED
    BY <2>2, <2>3 DEF Tried
<1>4. QED
  BY <1>1, <1>2, <1>3

\* A handler goes on with its request and leaves the others and the tokens alone.
LEMMA ReplaceInv ==
    ASSUME NASCInv, NEW a \in acs, NEW b \in AC, b.id = a.id,
           Sound(b, issuedTokens, publicHost), Replace(a, b),
           UNCHANGED <<publicHost, issuedTokens, acCount>>, pooled' \subseteq IP,
           publicHost = Self => Self \notin pooled'
    PROVE  NASCInv'
<1>1. acs' = (acs \ {a}) \cup {b}
  BY DEF Replace
<1>2. acs' \subseteq AC /\ \A c \in acs' : c.id <= acCount /\ Sound(c, issuedTokens, publicHost)
  BY <1>1 DEF NASCInv
<1>3. \A c, d \in acs' : c.id = d.id => c = d
  BY <1>1 DEF NASCInv
<1>4. QED
  BY <1>2, <1>3 DEF NASCInv

\* A new request is added to those there are.
LEMMA AddInv ==
    ASSUME NASCInv, NEW b \in AC, b.id = acCount + 1, Sound(b, issuedTokens, publicHost),
           acs' = acs \cup {b}, acCount' = acCount + 1,
           UNCHANGED <<publicHost, issuedTokens, pooled>>
    PROVE  NASCInv'
<1>1. \A c \in acs : c \in AC /\ c.id \in Nat /\ c.id <= acCount
  BY DEF NASCInv, AC, IDs
<1>2. acs' \subseteq AC /\ acCount' \in Nat
  BY DEF NASCInv
<1>3. \A c \in acs' : c.id <= acCount' /\ Sound(c, issuedTokens, publicHost)
  BY <1>1 DEF NASCInv
<1>4. \A c, d \in acs' : c.id = d.id => c = d
  BY <1>1 DEF NASCInv
<1>5. QED
  BY <1>2, <1>3, <1>4 DEF NASCInv

\* A request that is made has its type.
LEMMA NewACSound ==
    ASSUME NASCInv, NEW g \in Games \cup OtherGames, NEW s \in Actions, NEW u \in Users,
           NEW f \in Nat, publicHost = Self => f = 0
    PROVE  LET b == NewAC(g, s, u, f)
           IN  b \in AC /\ b.id = acCount + 1 /\ Sound(b, issuedTokens, publicHost)
<1> DEFINE b == NewAC(g, s, u, f)
<1>1. acCount + 1 \in IDs
  BY DEF NASCInv, IDs
<1>2. b \in AC
  <2>1. /\ <<>> \in Addresses /\ {} \in AddressSets /\ g \in AllGames
        /\ "start" \in Stages /\ "" \in IP /\ "none" \in Answers
    <3>1. "" \in IP
      BY DEF IP
    <3>2. <<>> \in Addresses
      BY DEF Addresses
    <3>3. {} \in AddressSets /\ g \in AllGames
      BY DEF AddressSets, AllGames
    <3>4. QED
      BY <3>1, <3>2, <3>3, Zenon DEF Stages, Answers
  <2>2. QED
    BY <1>1, <2>1, Zenon DEF NewAC, AC
<1>3. /\ b.id = acCount + 1 /\ b.at = "start" /\ b.answer = "none" /\ b.token = 0
      /\ b.sentFor = f
  BY DEF NewAC
<1> HIDE DEF b
<1>4. Sound(b, issuedTokens, publicHost)
  BY <1>3 DEF Sound
<1>5. QED
  BY <1>2, <1>3, <1>4 DEF b

\* A request that is answered other than with a token or for want of upstreams.
LEMMA FinishInv ==
    ASSUME NASCInv, NEW a \in acs, NEW answer \in Answers \ {"001", "unreachable"},
           Finish(a, answer), UNCHANGED <<publicHost, issuedTokens, acCount>>,
           pooled' \subseteq IP, publicHost = Self => Self \notin pooled'
    PROVE  NASCInv'
<1> DEFINE b == [a EXCEPT !.at = "done", !.answer = answer]
<1>1. a \in AC /\ Sound(a, issuedTokens, publicHost)
  BY DEF NASCInv
<1>2. /\ b \in AC /\ b.id = a.id /\ b.at = "done" /\ b.answer = answer /\ b.token = a.token
      /\ b.sentFor = a.sentFor
  <2>1. "done" \in Stages /\ answer \in Answers
    BY DEF Stages
  <2>2. QED
    BY <1>1, <2>1, Zenon DEF AC
<1>3. Replace(a, b)
  BY DEF Finish
<1> HIDE DEF b
<1>4. Sound(b, issuedTokens, publicHost)
  BY <1>1, <1>2 DEF Sound
<1>5. QED
  BY <1>2, <1>3, <1>4, ReplaceInv

\* A request for which an address is found
LEMMA SendToInv ==
    ASSUME NASCInv, NEW a \in acs, a.at = "dial", NEW ip \in IP,
           publicHost = Self => ip # Self, SendTo(a, ip),
           UNCHANGED <<publicHost, issuedTokens, pooled>>
    PROVE  NASCInv'
<1>1. /\ a \in AC /\ Sound(a, issuedTokens, publicHost) /\ a.answer = "none" /\ a.id <= acCount
      /\ a.id \in Nat
  <2>1. a \in AC /\ Sound(a, issuedTokens, publicHost) /\ a.id <= acCount
    BY DEF NASCInv
  <2>2. QED
    BY <2>1 DEF Sound, AC, IDs
<1>2. CASE ip # Self /\ Replace(a, [a EXCEPT !.at = "upstream", !.via = ip]) /\ UNCHANGED acCount
  <2> DEFINE b == [a EXCEPT !.at = "upstream", !.via = ip]
  <2>1. /\ b \in AC /\ b.id = a.id /\ b.at = "upstream" /\ b.answer = "none"
        /\ b.token = a.token /\ b.sentFor = a.sentFor /\ b.via = ip
    <3>1. "upstream" \in Stages
      BY DEF Stages
    <3>2. QED
      BY <1>1, <3>1, Zenon DEF AC
  <2>2. Replace(a, b)
    BY <1>2
  <2> HIDE DEF b
  <2>3. Sound(b, issuedTokens, publicHost)
    BY <1>1, <1>2, <2>1 DEF Sound
  <2>4. QED
    BY <1>2, <2>1, <2>2, <2>3, ReplaceInv DEF NASCInv
<1>3. CASE /\ ip = Self /\ acCount' = acCount + 1
           /\ acs' = (acs \ {a}) \cup {[a EXCEPT !.at = "looped", !.via = ip],
                                       NewAC(a.game, a.action, a.user, a.id)}
  <2> DEFINE b == [a EXCEPT !.at = "looped", !.via = ip]
             d == NewAC(a.game, a.action, a.user, a.id)
  <2>1. publicHost # Self
    BY <1>3
  <2>2. /\ b \in AC /\ b.id = a.id /\ b.at = "looped" /\ b.answer = "none"
        /\ b.token = a.token
    <3>1. "looped" \in Stages
      BY DEF Stages
    <3>2. QED
      BY <1>1, <3>1, Zenon DEF AC
  <2>3. d \in AC /\ d.id = acCount + 1 /\ Sound(d, issuedTokens, publicHost)
    <3>1. a.game \in Games \cup OtherGames /\ a.action \in Actions /\ a.user \in Users
      BY <1>1 DEF AC, AllGames
    <3>2. QED
      BY <1>1, <2>1, <3>1, NewACSound
  <2>4. acs' = (acs \ {a}) \cup {b, d}
    BY <1>3
  <2> HIDE DEF b, d
  <2>5. Sound(b, issuedTokens, publicHost)
    BY <1>1, <2>1, <2>2 DEF Sound
  <2>6. \A c \in acs : c \in AC /\ c.id \in Nat /\ c.id <= acCount
    BY DEF NASCInv, AC, IDs
  <2>7. acs' \subseteq AC /\ acCount' \in Nat
    BY <1>3, <2>2, <2>3, <2>4, <2>6 DEF NASCInv
  <2>8. \A c \in acs' : c.id <= acCount' /\ Sound(c, issuedTokens, publicHost)
    BY <1>1, <1>3, <2>2, <2>3, <2>4, <2>5, <2>6 DEF NASCInv
  <2>9. \A c, e \in acs' : c.id = e.id => c = e
    BY <1>1, <2>2, <2>3, <2>4, <2>6 DEF NASCInv
  <2>10. QED
    BY <2>7, <2>8, <2>9 DEF NASCInv
<1>4. QED
  BY <1>2, <1>3 DEF SendTo

\* A round of the loop of DialContext
LEMMA DialInv ==
    ASSUME NASCInv, NEW a \in acs, Dial(a)
    PROVE  NASCInv'
<1> DEFINE ip == Head(a.rest)
           others == Tail(a.rest)
<1>1. /\ a \in AC /\ Sound(a, issuedTokens, publicHost) /\ a.answer = "none" /\ a.at = "dial"
      /\ a.rest \in Seq(IP) /\ a.rest # <<>> /\ a.refused \subseteq IP
  <2>1. a \in AC /\ Sound(a, issuedTokens, publicHost) /\ a.at = "dial" /\ a.rest # <<>>
    BY DEF NASCInv, Dial
  <2>2. QED
    BY <2>1 DEF Sound, AC, Addresses, AddressSets
<1>2. /\ ip \in IP /\ others \in Addresses
      /\ \A j \in DOMAIN a.rest : a.rest[j] = ip \/ \E k \in DOMAIN others : others[k] = a.rest[j]
  <2>0. a.rest \in Seq(IP) /\ a.rest # <<>>
    BY <1>1
  <2>1. ip \in IP /\ others \in Seq(IP)
    BY <2>0
  <2>2. ASSUME NEW j \in DOMAIN a.rest, j # 1 PROVE \E k \in DOMAIN others : others[k] = a.rest[j]
    <3>1. j - 1 \in DOMAIN others /\ others[j - 1] = a.rest[j]
      BY <2>0, <2>2
    <3>2. QED
      BY <3>1
  <2>3. a.rest[1] = ip
    BY <2>0
  <2>4. QED
    BY <2>1, <2>2, <2>3 DEF Addresses
<1>3. Tried(a, publicHost)
  BY <1>1 DEF Sound
<1> HIDE DEF ip, others
<1>4. ASSUME NEW R \in AddressSets, a.refused \subseteq R, ip \in R \cup {publicHost},
             Replace(a, [a EXCEPT !.rest = others, !.refused = R]), UNCHANGED acCount
      PROVE  NASCInv'
  <2> DEFINE b == [a EXCEPT !.rest = others, !.refused = R]
  <2>1. /\ b \in AC /\ b.id = a.id /\ b.at = "dial" /\ b.answer = "none"
        /\ b.token = a.token /\ b.sentFor = a.sentFor
        /\ b.ips = a.ips /\ b.rest = others /\ b.refused = R
    BY <1>1, <1>2, <1>4, Zenon DEF AC
  <2>2. Replace(a, b)
    BY <1>4
  <2> HIDE DEF b
  <2>3. Tried(b, publicHost)
    BY <1>2, <1>3, <1>4, <2>1 DEF Tried
  <2>4. Sound(b, issuedTokens, publicHost)
    BY <1>1, <2>1, <2>3 DEF Sound
  <2>5. UNCHANGED <<publicHost, issuedTokens, pooled>>
    BY DEF Dial
  <2>6. QED
    BY <1>4, <2>1, <2>2, <2>4, <2>5, ReplaceInv DEF NASCInv
<1>5. CASE /\ Skips(ip) /\ Replace(a, [a EXCEPT !.rest = others]) /\ UNCHANGED acCount
  <2>1. [a EXCEPT !.rest = others] = [a EXCEPT !.rest = others, !.refused = a.refused]
    BY <1>1, Zenon DEF AC
  <2>2. a.refused \in AddressSets /\ ip = publicHost
    BY <1>1, <1>5 DEF AddressSets, Skips
  <2>3. QED
    BY <1>4, <1>5, <2>1, <2>2, Zenon
<1>6. CASE /\ Replace(a, [a EXCEPT !.rest = AfterRefusal(others), !.refused = @ \cup {ip}])
           /\ UNCHANGED acCount
  <2>1. a.refused \cup {ip} \in AddressSets
    BY <1>1, <1>2 DEF AddressSets
  <2>2. Replace(a, [a EXCEPT !.rest = others, !.refused = a.refused \cup {ip}])
    BY <1>6 DEF AfterRefusal
  <2>3. QED
    BY <1>4, <1>6, <2>1, <2>2, Zenon
<1>7. CASE ~Skips(ip) /\ SendTo(a, ip)
  BY <1>1, <1>2, <1>7, SendToInv DEF Skips, Dial
<1>8. QED
  BY <1>5, <1>6, <1>7 DEF Dial, ip, others

\* Every step of handleAC and of the proxy keeps NASCInv.
LEMMA NASCNextInv == NASCInv /\ [NASCNext]_avars => NASCInv'
<1> SUFFICES ASSUME NASCInv, [NASCNext]_avars PROVE NASCInv'
  OBVIOUS
<1>1. \A a \in acs : a \in AC /\ Sound(a, issuedTokens, publicHost)
  BY DEF NASCInv
<1>2. ASSUME NEW g \in Games \cup OtherGames, NEW s \in Actions, NEW u \in Users, Arrive(g, s, u)
      PROVE  NASCInv'
  <2> DEFINE b == NewAC(g, s, u, 0)
  <2>1. b \in AC /\ b.id = acCount + 1 /\ Sound(b, issuedTokens, publicHost)
    BY NewACSound
  <2>2. acs' = acs \cup {b} /\ acCount' = acCount + 1 /\ UNCHANGED <<publicHost, issuedTokens, pooled>>
    BY <1>2 DEF Arrive
  <2> HIDE DEF b
  <2>3. QED
    BY <2>1, <2>2, AddInv
<1>3. ASSUME NEW a \in acs, HandleAC(a) PROVE NASCInv'
  <2>1. /\ a \in AC /\ Sound(a, issuedTokens, publicHost) /\ a.at = "start"
        /\ UNCHANGED <<publicHost, issuedTokens, pooled, acCount>>
    BY <1>1, <1>3, Zenon DEF HandleAC
  <2>2. CASE Finish(a, "null") \/ Finish(a, "110")
    BY <2>1, <2>2, FinishInv DEF NASCInv, Answers
  <2>3. ASSUME NEW ips \in Upstreams,
               Replace(a, [a EXCEPT !.at = "dial", !.ips = ips, !.rest = ips])
        PROVE  NASCInv'
    <3> DEFINE b == [a EXCEPT !.at = "dial", !.ips = ips, !.rest = ips]
    <3>1. "dial" \in Stages /\ ips \in Addresses
      BY UpstreamsType DEF Stages
    <3>2. /\ b \in AC /\ b.id = a.id /\ b.at = "dial" /\ b.answer = a.answer
          /\ b.token = a.token /\ b.sentFor = a.sentFor /\ b.ips = ips /\ b.rest = ips
      BY <2>1, <3>1, Zenon DEF AC
    <3> HIDE DEF b
    <3>3. Sound(b, issuedTokens, publicHost)
      BY <2>1, <3>2 DEF Sound, Tried
    <3>4. QED
      BY <2>1, <2>3, <3>2, <3>3, ReplaceInv, Zenon DEF NASCInv, b
  <2>4. CASE Replace(a, [a EXCEPT !.at = "store", !.token = a.id])
    <3> DEFINE b == [a EXCEPT !.at = "store", !.token = a.id]
    <3>1. "store" \in Stages /\ a.id \in Nat
      BY <2>1 DEF Stages, AC, IDs
    <3>2. /\ b \in AC /\ b.id = a.id /\ b.at = "store" /\ b.answer = a.answer
          /\ b.token = a.id /\ b.sentFor = a.sentFor
      BY <2>1, <3>1, Zenon DEF AC
    <3> HIDE DEF b
    <3>3. Sound(b, issuedTokens, publicHost)
      BY <2>1, <3>2 DEF Sound
    <3>4. QED
      BY <2>1, <2>4, <3>2, <3>3, ReplaceInv, Zenon DEF NASCInv, b
  <2>5. QED
    BY <1>3, <2>2, <2>3, <2>4, Zenon DEF HandleAC
<1>4. ASSUME NEW a \in acs, StoreToken(a) PROVE NASCInv'
  <2> DEFINE b == [a EXCEPT !.at = "answer"]
  <2>1. /\ a \in AC /\ Sound(a, issuedTokens, publicHost) /\ a.at = "store"
        /\ UNCHANGED <<publicHost, pooled, acCount>> /\ acs' = (acs \ {a}) \cup {b}
    BY <1>1, <1>4 DEF StoreToken, Replace
  <2>2. /\ b \in AC /\ b.id = a.id /\ b.at = "answer" /\ b.answer = a.answer
        /\ b.token = a.token /\ b.sentFor = a.sentFor /\ b.user = a.user
    <3>1. "answer" \in Stages
      BY DEF Stages
    <3>2. QED
      BY <2>1, <3>1 DEF AC
  <2> HIDE DEF b
  <2>3. /\ a.token = a.id /\ a.token \in DOMAIN issuedTokens' /\ issuedTokens'[a.token] = a.user
        /\ \A k \in DOMAIN issuedTokens :
               k # a.token => k \in DOMAIN issuedTokens' /\ issuedTokens'[k] = issuedTokens[k]
    BY <1>4, <2>1 DEF StoreToken, Sound
  <2>4. Sound(b, issuedTokens', publicHost)
    BY <2>1, <2>2, <2>3 DEF Sound
  <2>5. ASSUME NEW c \in acs \ {a} PROVE Sound(c, issuedTokens', publicHost)
    <3>1. Sound(c, issuedTokens, publicHost) /\ c.id # a.id
      BY <1>1 DEF NASCInv
    <3>2. QED
      BY <2>3, <3>1 DEF Sound
  <2>6. acs' \subseteq AC /\ \A c \in acs' : c.id <= acCount' /\ Sound(c, issuedTokens', publicHost')
    BY <2>1, <2>2, <2>4, <2>5 DEF NASCInv
  <2>7. \A c, d \in acs' : c.id = d.id => c = d
    BY <2>1, <2>2 DEF NASCInv
  <2>8. QED
    BY <2>1, <2>6, <2>7 DEF NASCInv
<1>5. ASSUME NEW a \in acs, AnswerLogin(a) PROVE NASCInv'
  <2> DEFINE b == [a EXCEPT !.at = "done", !.answer = "001"]
  <2>1. /\ a \in AC /\ Sound(a, issuedTokens, publicHost) /\ a.at = "answer"
        /\ UNCHANGED <<publicHost, issuedTokens, pooled, acCount>> /\ Replace(a, b)
    BY <1>1, <1>5 DEF AnswerLogin, Finish
  <2>2. /\ b \in AC /\ b.id = a.id /\ b.at = "done" /\ b.answer = "001"
        /\ b.token = a.token /\ b.sentFor = a.sentFor /\ b.user = a.user
    <3>1. "done" \in Stages /\ "001" \in Answers
      BY DEF Stages, Answers
    <3>2. QED
      BY <2>1, <3>1, Zenon DEF AC
  <2> HIDE DEF b
  <2>3. Sound(b, issuedTokens, publicHost)
    BY <2>1, <2>2 DEF Sound
  <2>4. QED
    BY <2>1, <2>2, <2>3, ReplaceInv DEF NASCInv
<1>6. ASSUME NEW a \in acs, Reuse(a) PROVE NASCInv'
  <2>1. PICK ip \in pooled : SendTo(a, ip)
    BY <1>6 DEF Reuse
  <2>2. a.at = "dial" /\ UNCHANGED <<publicHost, issuedTokens, pooled>>
    BY <1>6 DEF Reuse
  <2>3. ip \in IP /\ (publicHost = Self => ip # Self)
    BY <2>1 DEF NASCInv
  <2>4. QED
    BY <2>1, <2>2, <2>3, SendToInv
<1>7. ASSUME NEW a \in acs, DialFails(a) PROVE NASCInv'
  <2> DEFINE b == [a EXCEPT !.at = "done", !.answer = "unreachable"]
  <2>1. /\ a \in AC /\ Sound(a, issuedTokens, publicHost) /\ a.at = "dial" /\ a.rest = <<>>
        /\ UNCHANGED <<publicHost, issuedTokens, pooled, acCount>> /\ Replace(a, b)
    BY <1>1, <1>7 DEF DialFails, Finish
  <2>2. /\ b \in AC /\ b.id = a.id /\ b.at = "done" /\ b.answer = "unreachable"
        /\ b.token = a.token /\ b.sentFor = a.sentFor
        /\ b.ips = a.ips /\ b.rest = a.rest /\ b.refused = a.refused
    <3>1. "done" \in Stages /\ "unreachable" \in Answers
      BY DEF Stages, Answers
    <3>2. QED
      BY <2>1, <3>1, Zenon DEF AC
  <2> HIDE DEF b
  <2>3. Tried(b, publicHost)
    BY <2>1, <2>2 DEF Sound, Tried
  <2>4. Sound(b, issuedTokens, publicHost)
    BY <2>1, <2>2, <2>3 DEF Sound
  <2>5. QED
    BY <2>1, <2>2, <2>4, ReplaceInv DEF NASCInv
<1>8. ASSUME NEW a \in acs, UpstreamAnswers(a) PROVE NASCInv'
  <2>1. a.via \in IP /\ a.via # Self
    BY <1>1, <1>8 DEF UpstreamAnswers, Sound, AC
  <2>2. pooled' \subseteq IP /\ (publicHost = Self => Self \notin pooled')
    BY <1>8, <2>1 DEF UpstreamAnswers, NASCInv
  <2>3. PICK answer \in {"pretendo", "null"} : Finish(a, answer)
    BY <1>8 DEF UpstreamAnswers
  <2>4. answer \in Answers \ {"001", "unreachable"}
    BY DEF Answers
  <2>5. QED
    BY <1>8, <2>2, <2>3, <2>4, FinishInv DEF UpstreamAnswers
<1>9. ASSUME NEW a \in acs, SelfAnswers(a) PROVE NASCInv'
  <2>1. publicHost # Self
    BY <1>1, <1>9 DEF SelfAnswers, Sound
  <2>2. pooled' \subseteq IP
    BY <1>9, Zenon DEF SelfAnswers, NASCInv, IP
  <2>3. QED
    BY <1>9, <2>1, <2>2, FinishInv DEF SelfAnswers, Answers
<1>10. CASE UNCHANGED avars
  BY <1>10 DEF avars, NASCInv
<1>11. QED
  BY <1>2, <1>3, <1>4, <1>5, <1>6, <1>7, <1>8, <1>9, <1>10, DialInv DEF NASCNext

\* gameLogin: a console with an answer to its LOGIN has a token of its own that the server
\* has stored for it, however many requests overlap.
THEOREM TokenNamesUserAlways == NASCSpec => []TokenNamesUser
<1>1. NASCInv => TokenNamesUser
  BY InvImplies
<1>2. QED
  BY <1>1, NASCInitInv, NASCNextInv, PTL DEF NASCSpec

\* upstreamClient: with FFE_PUBLIC_HOST set right, no request comes back to this process,
\* neither by dialing nor by a connection that was kept.
THEOREM NeverLoopsAlways == NASCSpec => []NeverLoops
<1>1. NASCInv => NeverLoops
  BY InvImplies
<1>2. QED
  BY <1>1, NASCInitInv, NASCNextInv, PTL DEF NASCSpec

\* DialContext: a request is given up only when every address DNS gave, but this
\* process's own, has refused.
THEOREM TriesAllUpstreamsAlways == NASCSpec => []TriesAllUpstreams
<1>1. NASCInv => TriesAllUpstreams
  BY InvImplies
<1>2. QED
  BY <1>1, NASCInitInv, NASCNextInv, PTL DEF NASCSpec
==============================================================================
