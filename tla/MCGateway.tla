----------------------------- MODULE MCGateway -----------------------------
(* Small instances of the launcher, with two shells and two process numbers,
   and of the programs it may launch, with short channels. They share no state
   and are checked side by side: `part` says which one runs. *)
EXTENDS Gateway, Host, TLC

CONSTANTS s1, s2

VARIABLE part

all == <<part, gatewayVars, hostVars>>

TwoShells == {s1, s2}

LauncherRuns == part = "launcher" /\ GatewayInit /\ HostInit /\ client = "app"
HostRuns == part = "host" /\ HostInit /\ GatewayInit

MCGatewayInit == LauncherRuns \/ HostRuns

Launches(A) == part = "launcher" /\ A /\ UNCHANGED <<part, hostVars>>
Hosts(A) == part = "host" /\ A /\ UNCHANGED <<part, gatewayVars>>

MCGatewayNext == Launches(GatewayNext) \/ Hosts(HostNext)

(* The fairness of GatewaySpec and HostFairness, each while its part runs. *)
MCGatewaySpec ==
  /\ MCGatewayInit /\ [][MCGatewayNext]_all
  /\ \A s \in Shells : WF_all(Launches(ShellStep(s)))
  /\ WF_all(Hosts(Orchestrate))
  /\ WF_all(Hosts(StartSession \/ Receives))
  /\ WF_all(Hosts(Stopping))
=============================================================================
