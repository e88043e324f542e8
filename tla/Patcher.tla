------------------------------- MODULE Patcher -------------------------------
(***************************************************************************)
(* FFE Connect, the application a player runs on the console, composed     *)
(* with the accounts of the server: CONNECT registers the console's        *)
(* password and then writes the patch that sends the console to this       *)
(* server, UNDO writes Nimbus's patch back.  The console may be switched   *)
(* off and the server may crash at any point, requests and answers may be  *)
(* lost, and the SD card may refuse or cut short a write.                  *)
(***************************************************************************)
EXTENDS Accounts

CONSTANT Patched     \* the consoles with the application

\* No console has the password passwordForPID gives to guests.
ASSUME PatcherAssumption == Patched \subseteq Pid /\ Guest \notin Password

VARIABLES
    app,             \* what the application does: "menu", "posting", "writing", "offer"
    own,             \* the console's NEX password
    request,         \* the registration it waits for, 0: none
    sd,              \* the patch on the SD card: "nimbus", "ffe" or "broken"
    connected        \* history: "*** Connected! ***" was shown and the password is the same

consoleVars == <<app, own, request, sd, connected>>

PatcherInit ==
    /\ Init
    /\ app = [c \in Patched |-> "menu"]
    /\ own \in [Patched -> Password]
    /\ request = [c \in Patched |-> 0]
    /\ sd = [c \in Patched |-> "nimbus"]
    /\ connected = [c \in Patched |-> FALSE]

\* Mutant: the password arrives changed, as without url_encode.
PostedPlain(c) == CHOOSE pw \in Password : pw # own[c]

\* The password handleRegister reads from the body register_account makes
Posted(c) == own[c]

\* do_connect up to the POST of register_account.  Without an account on the console,
\* or without an answer from the server, it ends where it began.
DoConnect(c) ==
    /\ app[c] = "menu"
    /\ Register(c, Posted(c))
    /\ app' = [app EXCEPT ![c] = "posting"]
    /\ request' = [request EXCEPT ![c] = requests']
    /\ UNCHANGED <<own, sd, connected>>

\* Mutant: any answer will do.
AfterAnswerAny(status) == "writing"

\* do_connect after register_account returned a status, 0 if there was no answer
AfterAnswer(status) == IF status = 200 THEN "writing" ELSE "menu"

\* The consoles in cs get an answer to their request.
Answer(cs, status) ==
    /\ app' = [c \in Patched |-> IF c \in cs THEN AfterAnswer(status) ELSE app[c]]
    /\ request' = [c \in Patched |-> IF c \in cs THEN 0 ELSE request[c]]
    /\ UNCHANGED <<own, sd, connected>>

WaitingFor(r) == {c \in Patched : app[c] = "posting" /\ request[c] = r.id}

\* handleRegister ends; the answer may be lost.
RegisterAnswered(r) ==
    /\ SetAndAnswer(r)
    /\ \E status \in {0, 200} : Answer(WaitingFor(r), status)

RegisterRefused(r) ==
    /\ SaveAccountFails(r)
    /\ \E status \in {0, 500} : Answer(WaitingFor(r), status)

\* The server goes down, and with it the connections of the requests.
ServerCrashes == Crash /\ Answer({c \in Patched : app[c] = "posting"}, 0)

\* write_patch: all is written; fopen fails; fopen truncates the file and the write is
\* cut short.
WritePatch(c, patch) ==
    \/ sd' = [sd EXCEPT ![c] = patch] /\ app' = [app EXCEPT ![c] = "offer"]
    \/ UNCHANGED sd /\ app' = [app EXCEPT ![c] = "menu"]
    \/ sd' = [sd EXCEPT ![c] = "broken"] /\ app' = [app EXCEPT ![c] = "menu"]

\* do_connect from write_patch on
InstallPatch(c) ==
    /\ app[c] = "writing"
    /\ WritePatch(c, "ffe")
    /\ connected' = [connected EXCEPT ![c] = @ \/ app'[c] = "offer"]
    /\ UNCHANGED <<vars, own, request>>

DoUndo(c) ==
    /\ app[c] = "menu"
    /\ WritePatch(c, "nimbus")
    /\ UNCHANGED <<vars, own, request, connected>>

\* offer_reboot: a reboot, or back to the menu
OfferReboot(c) ==
    /\ app[c] = "offer"
    /\ app' = [app EXCEPT ![c] = "menu"]
    /\ UNCHANGED <<vars, own, request, sd, connected>>

\* The console is switched off in the middle of CONNECT.
SwitchOff(c) ==
    /\ app[c] \in {"posting", "writing"}
    /\ app' = [app EXCEPT ![c] = "menu"]
    /\ request' = [request EXCEPT ![c] = 0]
    /\ sd' \in IF app[c] = "writing" THEN {sd, [sd EXCEPT ![c] = "broken"]} ELSE {sd}
    /\ UNCHANGED <<vars, own, connected>>

\* The console gets a new password from Pretendo.
ChangePassword(c, pw) ==
    /\ app[c] = "menu"
    /\ pw # own[c]
    /\ own' = [own EXCEPT ![c] = pw]
    /\ connected' = [connected EXCEPT ![c] = FALSE]
    /\ UNCHANGED <<vars, app, request, sd>>

PatcherNext ==
    \/ (OpenPostgres \/ SeedAccountsFromEnv \/ LoadAccountsFromDB) /\ UNCHANGED consoleVars
    \/ ServerCrashes
    \/ \E r \in inFlight :
          \/ SaveAccount(r) /\ UNCHANGED consoleVars
          \/ RegisterRefused(r)
          \/ RegisterAnswered(r)
    \/ \E c \in Patched :
          \/ DoConnect(c) \/ InstallPatch(c) \/ DoUndo(c) \/ OfferReboot(c) \/ SwitchOff(c)
          \/ \E pw \in Password : ChangePassword(c, pw)

PatcherSpec == PatcherInit /\ [][PatcherNext]_<<vars, consoleVars>>

------------------------------------------------------------------------------
(* Properties *)

\* Once the application has said "Connected!", the password of the console is the one
\* the server's passwordForPID returns, also after crashes and restarts, until the
\* console gets a new one; "Just run CONNECT again to update it."  Excepted are the
\* faults of RegisteredCanLogin.  And a console with the patch is known to the server, also
\* after failed registrations and new passwords: the patch is written only after a
\* registration was answered.  One that is not known would be given the password of a
\* guest, with which it cannot read its ticket.
ConnectedCanLogin ==
    phase = "up" /\ "open_fails" \notin ever /\ "load_fails" \notin recent =>
        \A c \in Patched :
            /\ sd[c] = "ffe" => PasswordForPID(c) # Guest
            /\ connected[c] /\ "same_pid" \notin ever => PasswordForPID(c) = own[c]
==============================================================================
