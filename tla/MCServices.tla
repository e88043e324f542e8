----------------------------- MODULE MCServices ------------------------------
(***************************************************************************)
(* The services around the game servers, on small instances: accounts,     *)
(* the patcher that registers them, NASC logins, the statistics, the       *)
(* metrics, the list of rooms and the start of the relay.  They share no   *)
(* state but for the patcher and the accounts; part says which of them a   *)
(* behaviour is about, and the others stay as they are.                    *)
(***************************************************************************)
EXTENDS Patcher, NASC, Dashboard, Metrics, Browsing, Startup

VARIABLE part

\* What DNS may answer: this process is behind none, the first or a later address.
MCUpstreams == {<<"up1", "up2">>, <<Self, "up1">>, <<"up2", Self, "up1">>}

\* Coordinates of both signs, of which some are a multiple of 0.3 degrees and one is
\* within 0.3 degrees of 0
MCPlace == [c \in Consoles |-> IF c = 3 THEN <<-1234, 299>> ELSE <<512, -1>>]

accountVars == <<vars, consoleVars>>
services == <<part, accountVars, avars, dvars, kvars, bvars, lvars>>

\* A part that a behaviour is not about is in one of its initial states.
ConsolesIdle == own = [c \in Patched |-> CHOOSE w \in Password : TRUE]
NASCIdle == publicHost = "elsewhere"
BrowsingIdle == blanked

ServicesInit ==
    /\ part \in {"accounts", "patcher", "nasc", "dashboard", "metrics", "browsing", "startup"}
    /\ PatcherInit /\ (part # "patcher" => ConsolesIdle)
    /\ NASCInit /\ (part # "nasc" => NASCIdle)
    /\ BrowsingInit /\ (part # "browsing" => BrowsingIdle)
    /\ DashboardInit /\ MetricsInit /\ StartupInit

ServicesNext ==
    /\ UNCHANGED part
    /\ \/ part = "accounts" /\ Next /\ UNCHANGED <<consoleVars, avars, dvars, kvars, bvars, lvars>>
       \/ part = "patcher" /\ PatcherNext /\ UNCHANGED <<avars, dvars, kvars, bvars, lvars>>
       \/ part = "nasc" /\ NASCNext /\ UNCHANGED <<accountVars, dvars, kvars, bvars, lvars>>
       \/ part = "dashboard" /\ DashboardNext /\ UNCHANGED <<accountVars, avars, kvars, bvars, lvars>>
       \/ part = "metrics" /\ MetricsNext /\ UNCHANGED <<accountVars, avars, dvars, bvars, lvars>>
       \/ part = "browsing" /\ BrowsingNext /\ UNCHANGED <<accountVars, avars, dvars, kvars, lvars>>
       \/ part = "startup" /\ StartupNext /\ UNCHANGED <<accountVars, avars, dvars, kvars, bvars>>

ServicesSpec == ServicesInit /\ [][ServicesNext]_services
==============================================================================
