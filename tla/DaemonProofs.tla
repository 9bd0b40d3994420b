---------------------------- MODULE DaemonProofs ----------------------------
(* Theorems about the launcher of the gateway, which knows its daemon by a
   process number on record, and about the pipeline in the hands of the
   program that runs it.                                                     *)
EXTENDS Gateway, Host, TLAPS

----------------------------------------------------------------------------
(* The launcher: `off` ends no process that it did not know, and no daemon is lost sight of
   while commands do not meet, for any number of shells, process numbers,
   commands and looks.

   Between the ownership check and the last signal the number is the daemon's,
   or nobody's, or belongs to a process that was started after the check: no
   step of a shell or of the system can hand it to an older one, since start
   times only grow.                                                          *)

Process == [kind : {"free", "daemon", "stopping", "stranger", "namesake"}, start : Nat]

Place == {"rest", "on", "off", "status", "toggle", "spawn", "on stale", "write", "startup",
          "failed", "status stale", "toggle stale", "forget", "term", "wait", "kill"}

Signalling(s) == step[s] \in {"term", "wait", "kill"}

(* What `off` may still end. *)
MayEnd(s) ==
  /\ seen[s].pid \in Pids
  /\ \/ IsFree(seen[s].pid) \/ Ours(seen[s].pid)
     \/ procs[seen[s].pid].start > asof[s]

GatewayInv ==
  /\ births \in Nat
  /\ procs \in [Pids -> Process]
  /\ step \in [Shells -> Place]
  /\ asof \in [Shells -> 0..births]
  /\ DOMAIN seen = Shells
  /\ \A s \in Shells : Signalling(s) => MayEnd(s)

LEMMA GatewayInitInv == GatewayInit => GatewayInv
BY DEF GatewayInit, GatewayInv, Process, Free, Signalling, Place

(* A step of another shell, or of the system, leaves a shell what it may end:
   the process that has its number ends, or heeds a signal, or is a new one. *)
LEMMA StillMayEnd ==
  ASSUME GatewayInv, births' \in Nat, births' >= births,
         procs' \in [Pids -> Process],
         NEW s \in Shells, Signalling(s),
         seen'[s] = seen[s], asof'[s] = asof[s],
         \A pid \in Pids :
           \/ procs'[pid] = procs[pid]
           \/ procs'[pid].kind = "free"
           \/ Ours(pid) /\ procs'[pid].kind = "stopping"
           \/ procs'[pid].start > births
  PROVE  MayEnd(s)'
<1>1. MayEnd(s) /\ asof[s] \in Nat /\ asof[s] <= births
  BY DEF GatewayInv
<1>2. PICK pid \in Pids : pid = seen[s].pid
  BY <1>1 DEF MayEnd
<1>3. CASE procs'[pid].start > births
  BY <1>1, <1>2, <1>3 DEF MayEnd, Process, GatewayInv
<1>4. CASE procs'[pid] = procs[pid] \/ procs'[pid].kind \in {"free", "stopping"}
  BY <1>1, <1>2, <1>4 DEF MayEnd, IsFree, Ours
<1>. QED  BY <1>2, <1>3, <1>4

(* What a signal leaves of the process table. *)
LEMMA SignalEffect ==
  ASSUME procs \in [Pids -> Process], NEW target, NEW kind, Signal(target, kind)
  PROVE  /\ procs' \in [Pids -> Process]
         /\ \A pid \in Pids :
              \/ procs'[pid] = procs[pid] \/ procs'[pid].kind = "free"
              \/ Ours(pid) /\ procs'[pid].kind = "stopping"
         /\ \A pid \in Pids : pid # target => procs'[pid] = procs[pid]
<1>1. CASE target \in Pids
  <2>1. procs[target].start \in Nat
    BY <1>1 DEF Process
  <2>2. CASE procs[target].kind = "free"
    <3>1. procs' = procs
      BY <1>1, <2>2 DEF Signal
    <3>. QED  BY <3>1
  <2>3. CASE procs[target].kind # "free" /\ kind = "TERM" /\ procs[target].kind \in {"daemon", "stopping"}
    <3>1. procs' = [procs EXCEPT ![target] = [procs[target] EXCEPT !.kind = "stopping"]]
      BY <2>3 DEF Signal
    <3>2. [procs[target] EXCEPT !.kind = "stopping"] = [kind |-> "stopping", start |-> procs[target].start]
      BY <1>1 DEF Process
    <3>. QED  BY <1>1, <2>1, <2>3, <3>1, <3>2 DEF Process, Ours
  <2>4. CASE procs[target].kind # "free" /\ ~ (kind = "TERM" /\ procs[target].kind \in {"daemon", "stopping"})
    <3>1. procs' = [procs EXCEPT ![target] = Free]
      BY <2>4 DEF Signal
    <3>. QED  BY <1>1, <3>1 DEF Process, Free
  <2>. QED  BY <2>2, <2>3, <2>4
<1>2. CASE target \notin Pids
  <2>1. procs' = procs
    BY <1>2 DEF Signal
  <2>. QED  BY <2>1
<1>. QED  BY <1>1, <1>2

(* What any step may do to the process table. *)
TableStep ==
  /\ births' \in Nat /\ births' >= births
  /\ procs' \in [Pids -> Process]
  /\ \A pid \in Pids :
       \/ procs'[pid] = procs[pid]
       \/ procs'[pid].kind = "free"
       \/ Ours(pid) /\ procs'[pid].kind = "stopping"
       \/ procs'[pid].start > births

(* A step of a shell writes the variables of that shell. *)
OwnWrites(s) ==
  /\ step' \in [Shells -> Place]
  /\ asof' \in [Shells -> 0..births']
  /\ DOMAIN seen' = Shells
  /\ \A q \in Shells \ {s} : step'[q] = step[q] /\ seen'[q] = seen[q] /\ asof'[q] = asof[q]

LEMMA Writes ==
  ASSUME GatewayInv, births' \in Nat, births' >= births, NEW s \in Shells,
         step' = step \/ \E next \in Place : step' = [step EXCEPT ![s] = next],
         seen' = seen \/ \E id : seen' = [seen EXCEPT ![s] = id],
         asof' = asof \/ \E time \in 0..births : asof' = [asof EXCEPT ![s] = time]
  PROVE  OwnWrites(s)
<1>1. step' \in [Shells -> Place]
  BY DEF GatewayInv
<1>2. asof' \in [Shells -> 0..births']
  <2>1. 0..births \subseteq 0..births'
    BY DEF GatewayInv
  <2>2. asof' \in [Shells -> 0..births]
    BY DEF GatewayInv
  <2>. QED  BY <2>1, <2>2
<1>3. DOMAIN seen' = Shells
  BY DEF GatewayInv
<1>4. ASSUME NEW q \in Shells \ {s} PROVE step'[q] = step[q] /\ seen'[q] = seen[q] /\ asof'[q] = asof[q]
  BY <1>4 DEF GatewayInv
<1>. QED  BY <1>1, <1>2, <1>3, <1>4 DEF OwnWrites

(* A process that starts has the next start time. *)
LEMMA NewProcess ==
  ASSUME GatewayInv, NEW pid \in Pids, NEW kind \in {"daemon", "stranger", "namesake"},
         births' = births + 1,
         procs' = [procs EXCEPT ![pid] = [kind |-> kind, start |-> births']]
  PROVE  TableStep
<1>1. births \in Nat /\ births' \in Nat /\ births' > births /\ procs \in [Pids -> Process]
  BY DEF GatewayInv
<1>2. [kind |-> kind, start |-> births'] \in Process
  BY <1>1 DEF Process
<1>3. procs' \in [Pids -> Process]
  BY <1>1, <1>2
<1>4. ASSUME NEW n \in Pids PROVE procs'[n] = procs[n] \/ procs'[n].start > births
  BY <1>1
<1>. QED  BY <1>1, <1>3, <1>4 DEF TableStep

LEMMA ShellStepInv ==
  ASSUME GatewayInv, NEW s \in Shells, TableStep, OwnWrites(s), Signalling(s)' => MayEnd(s)'
  PROVE  GatewayInv'
<1>1. ASSUME NEW q \in Shells \ {s}, Signalling(q)' PROVE MayEnd(q)'
  <2>1. Signalling(q)
    BY <1>1 DEF Signalling, OwnWrites
  <2>. QED  BY <1>1, <2>1, StillMayEnd DEF TableStep, OwnWrites
<1>. QED  BY <1>1 DEF GatewayInv, TableStep, OwnWrites

(* Most steps leave the process table alone. *)
LEMMA QuietTable ==
  ASSUME GatewayInv, UNCHANGED <<procs, births>>
  PROVE  TableStep
BY DEF TableStep, GatewayInv

LEMMA GatewayNextInv == GatewayInv /\ [GatewayNext]_gatewayVars => GatewayInv'
<1>. SUFFICES ASSUME GatewayInv, [GatewayNext]_gatewayVars PROVE GatewayInv'
  OBVIOUS
<1>. USE DEF Goto, Done, Quiet, shellVars, observedGateway
<1>0. births \in Nat /\ 0 \in 0..births /\ births \in 0..births /\ births >= births
  BY DEF GatewayInv
<1>1. CASE UNCHANGED gatewayVars
  BY <1>1 DEF gatewayVars, GatewayInv, Signalling, MayEnd, IsFree, Ours
<1>2. ASSUME NEW s \in Shells, NEW command \in {"on", "off", "status", "toggle"}, Give(s, command)
      PROVE  GatewayInv'
  <2>1. OwnWrites(s)
    BY <1>0, <1>2, Writes DEF Give, Place
  <2>2. ~ Signalling(s)'
    BY <1>2 DEF Give, GatewayInv, Signalling
  <2>. QED  BY <1>2, <2>1, <2>2, QuietTable, ShellStepInv DEF Give
<1>3. ASSUME NEW s \in Shells, OnLook(s) \/ Unconfigured(s) \/ StatusLook(s) \/ VerifyStartup(s)
      PROVE  GatewayInv'
  <2>1. UNCHANGED <<procs, births>>
    BY <1>3 DEF OnLook, Unconfigured, StatusLook, VerifyStartup
  <2>2. \E next \in Place \ {"term", "wait", "kill"} : step' = [step EXCEPT ![s] = next]
    BY <1>3 DEF OnLook, Unconfigured, StatusLook, VerifyStartup, Place
  <2>3. OwnWrites(s)
    BY <1>0, <1>3, <2>1, <2>2, Writes DEF OnLook, Unconfigured, StatusLook, VerifyStartup
  <2>4. ~ Signalling(s)'
    BY <2>2 DEF GatewayInv, Signalling
  <2>. QED  BY <2>1, <2>3, <2>4, QuietTable, ShellStepInv
<1>4. ASSUME NEW s \in Shells, NEW stage, NEW next \in {"spawn", "rest", "on"}, RemoveState(s, stage, next)
      PROVE  GatewayInv'
  <2>1. OwnWrites(s)
    BY <1>0, <1>4, Writes DEF RemoveState, Place
  <2>2. ~ Signalling(s)'
    BY <1>4 DEF RemoveState, GatewayInv, Signalling
  <2>. QED  BY <1>4, <2>1, <2>2, QuietTable, ShellStepInv DEF RemoveState
<1>5. ASSUME NEW s \in Shells, Spawn(s) PROVE GatewayInv'
  <2>1. births' = births + 1
    BY <1>5 DEF Spawn
  <2>2. TableStep
    BY <1>5, NewProcess DEF Spawn
  <2>3. OwnWrites(s)
    BY <1>5, <2>2, Writes DEF Spawn, TableStep, Place
  <2>4. ~ Signalling(s)'
    BY <1>5 DEF Spawn, GatewayInv, Signalling
  <2>. QED  BY <2>2, <2>3, <2>4, ShellStepInv
<1>6. ASSUME NEW s \in Shells, WriteState(s) \/ Interrupt(s) PROVE GatewayInv'
  <2>1. UNCHANGED <<procs, births>>
    BY <1>6 DEF WriteState, Interrupt
  <2>2. OwnWrites(s)
    BY <1>0, <1>6, <2>1, Writes DEF WriteState, Interrupt, Place
  <2>3. ~ Signalling(s)'
    BY <1>6 DEF WriteState, Interrupt, GatewayInv, Signalling
  <2>. QED  BY <2>1, <2>2, <2>3, QuietTable, ShellStepInv
<1>7. ASSUME NEW s \in Shells, OffLook(s) PROVE GatewayInv'
  <2>1. UNCHANGED <<procs, births>>
    BY <1>7 DEF OffLook
  <2>2. \/ Owned(record) /\ step' = [step EXCEPT ![s] = "term"]
        \/ step' = [step EXCEPT ![s] = "rest"] \/ step' = [step EXCEPT ![s] = "forget"]
    <3>1. CASE Owned(record)
      <4>1. record # Nothing
        BY <3>1, PidsAssumption DEF Owned, Alive, Nothing
      <4>. QED  BY <1>7, <3>1, <4>1 DEF OffLook
    <3>2. CASE ~ Owned(record)
      BY <1>7, <3>2 DEF OffLook
    <3>. QED  BY <3>1, <3>2
  <2>3. OwnWrites(s)
    <3>1. \E id : seen' = [seen EXCEPT ![s] = id]
      BY <1>7 DEF OffLook
    <3>2. \E time \in 0..births : asof' = [asof EXCEPT ![s] = time]
      BY <1>0, <1>7 DEF OffLook
    <3>3. \E next \in Place : step' = [step EXCEPT ![s] = next]
      BY <2>2 DEF Place
    <3>. QED  BY <1>0, <2>1, <3>1, <3>2, <3>3, Writes
  <2>4. Signalling(s)' => Owned(record) /\ seen'[s] = record
    BY <1>7, <2>2 DEF OffLook, GatewayInv, Signalling
  <2>5. Signalling(s)' => MayEnd(s)'
    BY <2>1, <2>4 DEF MayEnd, Owned, Alive, Ours
  <2>. QED  BY <2>1, <2>3, <2>5, QuietTable, ShellStepInv
<1>8. ASSUME NEW s \in Shells, Term(s) \/ Kill(s) PROVE GatewayInv'
  <2>1. PICK kind : Signal(seen[s].pid, kind)
    BY <1>8 DEF Term, Kill
  <2>2. births' = births /\ procs \in [Pids -> Process]
    BY <1>8 DEF Term, Kill, GatewayInv
  <2>3. TableStep
    BY <1>0, <2>1, <2>2, SignalEffect DEF TableStep
  <2>4. OwnWrites(s)
    BY <1>0, <1>8, <2>2, Writes DEF Term, Kill, Place
  <2>5. Signalling(s) /\ seen'[s] = seen[s] /\ asof'[s] = asof[s]
    BY <1>8 DEF Term, Kill, Signalling
  <2>6. MayEnd(s)'
    BY <2>3, <2>5, StillMayEnd DEF TableStep
  <2>. QED  BY <2>3, <2>4, <2>6, ShellStepInv
<1>9. ASSUME NEW s \in Shells, Wait(s) PROVE GatewayInv'
  <2>1. UNCHANGED <<procs, births, seen, asof>>
    BY <1>9 DEF Wait
  <2>2. step' = step \/ \E next \in Place : step' = [step EXCEPT ![s] = next]
    BY <1>9 DEF Wait, Place
  <2>3. OwnWrites(s)
    BY <1>0, <2>1, <2>2, Writes
  <2>4. MayEnd(s)'
    BY <1>9, <2>1 DEF GatewayInv, Wait, Signalling, MayEnd, IsFree, Ours
  <2>. QED  BY <2>1, <2>3, <2>4, QuietTable, ShellStepInv
<1>10. ASSUME NEW pid \in Pids, Exit(pid) \/ \E kind \in {"stranger", "namesake"} : Reuse(pid, kind)
       PROVE  GatewayInv'
  <2>1. ASSUME Exit(pid) PROVE TableStep
    <3>1. Free \in Process /\ procs \in [Pids -> Process]
      BY DEF Free, Process, GatewayInv
    <3>2. procs' = [procs EXCEPT ![pid] = Free] /\ births' = births
      BY <2>1 DEF Exit
    <3>. QED  BY <1>0, <3>1, <3>2 DEF TableStep, Free
  <2>2. ASSUME \E kind \in {"stranger", "namesake"} : Reuse(pid, kind) PROVE TableStep
    BY <2>2, NewProcess DEF Reuse
  <2>3. TableStep
    BY <1>10, <2>1, <2>2
  <2>4. UNCHANGED <<step, seen, asof>>
    BY <1>10 DEF Exit, Reuse
  <2>6. ASSUME NEW s \in Shells, Signalling(s)' PROVE MayEnd(s)'
    BY <2>3, <2>4, <2>6, StillMayEnd DEF TableStep, Signalling
  <2>7. asof' \in [Shells -> 0..births']
    <3>1. 0..births \subseteq 0..births'
      BY <1>0, <2>3 DEF TableStep
    <3>. QED  BY <2>4, <3>1 DEF GatewayInv
  <2>. QED  BY <2>3, <2>4, <2>6, <2>7 DEF GatewayInv, TableStep
<1>11. ASSUME NEW s \in Shells, ShellStep(s) PROVE GatewayInv'
  BY <1>11, <1>3, <1>4, <1>5, <1>6, <1>7, <1>8, <1>9 DEF ShellStep
<1>. QED  BY <1>1, <1>2, <1>6, <1>10, <1>11 DEF GatewayNext

(* scripts/buzztalk-gateway:stop_owned sends its last signal to a number it
   looked at some time ago. It ends no process that ran when it made its
   ownership check, the daemon apart. *)
THEOREM StrangersAreSpared == GatewaySpec => SparesStrangers
<1>. DEFINE
       Spares(s, pid) == /\ step[s] \in {"term", "kill"} /\ step'[s] # step[s]
                         /\ procs'[pid] = Free /\ ~ IsFree(pid) /\ ~ Ours(pid)
                         => procs[pid].start > asof[s]
<1>1. GatewayInit => GatewayInv
  BY GatewayInitInv
<1>2. GatewayInv /\ [GatewayNext]_gatewayVars => GatewayInv'
  BY GatewayNextInv
<1>3. GatewayInv /\ [GatewayNext]_gatewayVars => [\A s \in Shells, pid \in Pids : Spares(s, pid)]_gatewayVars
  <2>. SUFFICES ASSUME GatewayInv, [GatewayNext]_gatewayVars, NEW s \in Shells, NEW pid \in Pids,
                       step[s] \in {"term", "kill"}, step'[s] # step[s],
                       procs'[pid] = Free, ~ IsFree(pid), ~ Ours(pid)
                PROVE  procs[pid].start > asof[s]
    OBVIOUS
  <2>1. procs'[pid] # procs[pid]
    BY DEF IsFree, Free
  <2>2. Term(s) \/ Kill(s)
    <3>1. ASSUME NEW q \in Shells, ShellStep(q) PROVE q = s /\ (Term(s) \/ Kill(s))
      <4>. USE <3>1, <2>1 DEF GatewayInv, Goto, Done, Quiet
      <4>1. Unconfigured(q) \/ OnLook(q) \/ WriteState(q) \/ VerifyStartup(q) \/ StatusLook(q)
            \/ OffLook(q) \/ Wait(q) => UNCHANGED procs
        BY DEF Unconfigured, OnLook, WriteState, VerifyStartup, StatusLook, OffLook, Wait
      <4>2. ASSUME NEW stage, NEW next, RemoveState(q, stage, next) PROVE UNCHANGED procs
        BY <4>2 DEF RemoveState
      <4>3. Spawn(q) => q = s /\ step[q] = "spawn"
        BY DEF Spawn
      <4>4. Term(q) \/ Kill(q) => q = s
        BY DEF Term, Kill
      <4>. QED  BY <4>1, <4>2, <4>3, <4>4 DEF ShellStep
    <3>2. ASSUME NEW q \in Shells, Interrupt(q) \/ \E command : Give(q, command) PROVE FALSE
      BY <3>2, <2>1 DEF Interrupt, Give
    <3>3. ~ \E n \in Pids : Exit(n) \/ \E kind \in {"stranger", "namesake"} : Reuse(n, kind)
      BY DEF Exit, Reuse, shellVars
    <3>. QED  BY <2>1, <3>1, <3>2, <3>3 DEF GatewayNext, gatewayVars
  <2>3. pid = seen[s].pid
    BY <2>1, <2>2, SignalEffect DEF Term, Kill, GatewayInv
  <2>4. MayEnd(s)
    BY DEF GatewayInv, Signalling
  <2>. QED  BY <2>3, <2>4 DEF MayEnd
<1>. QED  BY <1>1, <1>2, <1>3, PTL DEF GatewaySpec, SparesStrangers

----------------------------------------------------------------------------
(* As long as commands do not meet, one shell works at a time, and where it is
   tells what the state file holds: what it is about to launch is not there
   yet, what it waits for is, and what it is about to forget is no daemon's. *)

Known(pid) ==
  LET id == [pid |-> pid, start |-> procs[pid].start] IN
  \/ record = id
  \/ \E s \in Shells : step[s] = "write" /\ seen[s] = id
  \/ id.start \in cut

Alone == \A s, q \in Shells : step[s] # "rest" /\ step[q] # "rest" => s = q

Forgetting == {"on stale", "status stale", "toggle stale", "failed", "forget"}

RecordAgrees(s) ==
  /\ step[s] \in {"spawn", "write"} => record = Nothing
  /\ step[s] \in {"startup", "term", "wait", "kill"} => record = seen[s]
  /\ step[s] \in Forgetting => ~ Owned(record)

KnownInv ==
  ~ met => /\ Alone
           /\ \A s \in Shells : RecordAgrees(s)
           /\ \A pid \in Pids : Ours(pid) => Known(pid)

LEMMA KnownInit == GatewayInit => KnownInv
BY DEF GatewayInit, KnownInv, Alone, RecordAgrees, Forgetting, Ours, Free

(* No step but a launch makes a daemon. *)
NoDaemonBorn == \A pid \in Pids : Ours(pid)' => Ours(pid) /\ procs'[pid].start = procs[pid].start

LEMMA StillNotOwned ==
  ASSUME NoDaemonBorn, procs \in [Pids -> Process], procs' \in [Pids -> Process],
         record' = record, ~ Owned(record)
  PROVE  ~ Owned(record)'
BY DEF NoDaemonBorn, Owned, Alive, IsFree, Ours

LEMMA SignalMakesNoDaemon ==
  ASSUME procs \in [Pids -> Process], NEW target, NEW kind, Signal(target, kind)
  PROVE  /\ NoDaemonBorn
         /\ target \in Pids /\ kind = "KILL" => ~ Ours(target)'
<1>. SUFFICES ASSUME NEW pid \in Pids
              PROVE  /\ Ours(pid)' => Ours(pid) /\ procs'[pid].start = procs[pid].start
                     /\ pid = target /\ kind = "KILL" => ~ Ours(pid)'
  BY DEF NoDaemonBorn
<1>1. procs[pid] \in Process
  OBVIOUS
<1>2. CASE pid # target
  BY <1>2, SignalEffect DEF Ours
<1>3. CASE pid = target /\ procs[pid].kind = "free"
  <2>1. procs'[pid] = procs[pid]
    BY <1>3 DEF Signal
  <2>. QED  BY <1>3, <2>1 DEF Ours
<1>4. CASE pid = target /\ kind = "TERM" /\ procs[pid].kind \in {"daemon", "stopping"}
  <2>1. procs'[pid] = [procs[pid] EXCEPT !.kind = "stopping"]
    BY <1>4 DEF Signal
  <2>2. procs'[pid].start = procs[pid].start
    BY <1>1, <2>1 DEF Process
  <2>. QED  BY <1>4, <2>2 DEF Ours
<1>5. CASE /\ pid = target /\ procs[pid].kind # "free"
           /\ ~ (kind = "TERM" /\ procs[pid].kind \in {"daemon", "stopping"})
  <2>1. procs'[pid] = Free
    BY <1>5 DEF Signal
  <2>. QED  BY <2>1 DEF Ours, Free
<1>. QED  BY <1>2, <1>3, <1>4, <1>5

(* A step of the shell that works, which changes neither what is known of the
   daemons nor who works. *)
LEMMA KnownStep ==
  ASSUME GatewayInv, KnownInv, ~ met, procs' \in [Pids -> Process], NoDaemonBorn,
         NEW s \in Shells, step' \in [Shells -> Place],
         \A q \in Shells \ {s} : step[q] = "rest" /\ step'[q] = "rest",
         RecordAgrees(s)',
         \A pid \in Pids : Ours(pid)' /\ Known(pid) => Known(pid)'
  PROVE  KnownInv'
<1>1. Alone'
  BY DEF Alone
<1>2. \A q \in Shells : RecordAgrees(q)'
  BY DEF RecordAgrees, Forgetting
<1>3. \A pid \in Pids : Ours(pid)' => Known(pid)'
  BY DEF KnownInv, NoDaemonBorn
<1>. QED  BY <1>1, <1>2, <1>3 DEF KnownInv

LEMMA OthersRest ==
  ASSUME KnownInv, ~ met, NEW s \in Shells, step[s] # "rest"
  PROVE  \A q \in Shells \ {s} : step[q] = "rest"
BY DEF KnownInv, Alone

LEMMA NothingIsNotOwned == ~ Owned(Nothing) /\ \A pid \in Pids : \A n : Nothing # [pid |-> pid, start |-> n]
BY PidsAssumption DEF Owned, Alive, Nothing

(* The steps of a shell that leave the process table alone. *)
LEMMA KnownQuiet ==
  ASSUME GatewayInv, KnownInv, ~ met, UNCHANGED procs,
         NEW s \in Shells, step[s] # "rest",
         NEW next \in Place, step' = step \/ step' = [step EXCEPT ![s] = next],
         RecordAgrees(s)',
         \A pid \in Pids : Ours(pid) /\ Known(pid) => Known(pid)'
  PROVE  KnownInv'
<1>1. \A q \in Shells \ {s} : step[q] = "rest" /\ step'[q] = "rest"
  BY OthersRest DEF GatewayInv
<1>2. NoDaemonBorn /\ procs' \in [Pids -> Process] /\ step' \in [Shells -> Place]
  BY DEF NoDaemonBorn, Ours, GatewayInv
<1>3. \A pid \in Pids : Ours(pid)' /\ Known(pid) => Known(pid)'
  BY DEF Ours
<1>. QED  BY <1>1, <1>2, <1>3, KnownStep

(* A shell that holds no launch that is not recorded knows as much when it
   goes on, if it keeps the record. *)
LEMMA KnownRecordKept ==
  ASSUME GatewayInv, KnownInv, ~ met, UNCHANGED <<procs, record>>, cut \subseteq cut',
         NEW s \in Shells, step[s] \notin {"rest", "write"},
         NEW next \in Place, step' = step \/ step' = [step EXCEPT ![s] = next],
         RecordAgrees(s)'
  PROVE  KnownInv'
<1>1. \A q \in Shells : step[q] # "write"
  BY OthersRest
<1>2. \A pid \in Pids : Known(pid) => Known(pid)'
  BY <1>1 DEF Known
<1>. QED  BY <1>2, KnownQuiet

LEMMA KnownLooks ==
  ASSUME GatewayInv, KnownInv, ~ met, NEW s \in Shells,
         OnLook(s) \/ Unconfigured(s) \/ VerifyStartup(s) \/ StatusLook(s) \/ OffLook(s) \/ Wait(s)
  PROVE  KnownInv'
<1>. USE DEF Goto, Done, Quiet
<1>0. UNCHANGED <<procs, record, cut>> /\ cut \subseteq cut'
  BY DEF OnLook, Unconfigured, VerifyStartup, StatusLook, OffLook, Wait
<1>1. CASE OnLook(s)
  <2>1. PICK next \in Place : step' = [step EXCEPT ![s] = next] /\ next \in {"spawn", "rest", "on stale"}
          /\ (next = "spawn" => record = Nothing) /\ (next = "on stale" => ~ Owned(record))
    <3>1. CASE record = Nothing
      <4>1. ~ Owned(record) /\ ~ Alive(record)
        BY <3>1, PidsAssumption DEF Owned, Alive, Nothing
      <4>2. step' = [step EXCEPT ![s] = "spawn"]
        BY <1>1, <3>1, <4>1 DEF OnLook
      <4>. QED  BY <3>1, <4>2 DEF Place
    <3>2. CASE record # Nothing /\ Alive(record)
      <4>1. step' = [step EXCEPT ![s] = "rest"]
        BY <1>1, <3>2 DEF OnLook
      <4>. QED  BY <4>1 DEF Place
    <3>3. CASE record # Nothing /\ ~ Alive(record)
      <4>1. ~ Owned(record)
        BY <3>3 DEF Owned
      <4>2. step' = [step EXCEPT ![s] = "on stale"]
        BY <1>1, <3>3, <4>1 DEF OnLook
      <4>. QED  BY <4>1, <4>2 DEF Place
    <3>. QED  BY <3>1, <3>2, <3>3
  <2>2. RecordAgrees(s)'
    BY <1>0, <2>1 DEF GatewayInv, RecordAgrees, Forgetting, Owned, Alive, IsFree
  <2>. QED  BY <1>0, <1>1, <2>1, <2>2, KnownRecordKept DEF OnLook
<1>2. CASE Unconfigured(s)
  <2>1. step' = [step EXCEPT ![s] = "rest"] /\ "rest" \in Place
    BY <1>2 DEF Unconfigured, Place
  <2>2. RecordAgrees(s)'
    BY <2>1 DEF GatewayInv, RecordAgrees, Forgetting
  <2>. QED  BY <1>0, <1>2, <2>1, <2>2, KnownRecordKept DEF Unconfigured
<1>3. CASE VerifyStartup(s)
  <2>1. record = seen[s]
    BY <1>3 DEF VerifyStartup, KnownInv, RecordAgrees
  <2>2. PICK next \in Place : step' = [step EXCEPT ![s] = next] /\ next \in {"rest", "failed"}
          /\ (next = "failed" => ~ Owned(record))
    BY <1>3, <2>1 DEF VerifyStartup, Place, Owned
  <2>3. RecordAgrees(s)'
    BY <1>0, <2>2 DEF GatewayInv, RecordAgrees, Forgetting, Owned, Alive, IsFree
  <2>. QED  BY <1>0, <1>3, <2>2, <2>3, KnownRecordKept DEF VerifyStartup
<1>4. CASE StatusLook(s)
  <2>1. PICK next \in Place : step' = [step EXCEPT ![s] = next]
          /\ next \in {"status stale", "toggle stale", "rest", "off", "on"}
          /\ (next \in {"status stale", "toggle stale"} => ~ Owned(record))
    BY <1>4 DEF StatusLook, Place, Owned
  <2>2. RecordAgrees(s)'
    BY <1>0, <2>1 DEF GatewayInv, RecordAgrees, Forgetting, Owned, Alive, IsFree
  <2>. QED  BY <1>0, <1>4, <2>1, <2>2, KnownRecordKept DEF StatusLook
<1>5. CASE OffLook(s)
  <2>1. PICK next \in Place : step' = [step EXCEPT ![s] = next] /\ next \in {"rest", "term", "forget"}
          /\ (next = "term" => Owned(record)) /\ (next = "forget" => ~ Owned(record))
    <3>1. CASE Owned(record)
      <4>1. record # Nothing
        BY <3>1, NothingIsNotOwned
      <4>. QED  BY <1>5, <3>1, <4>1 DEF OffLook, Place
    <3>2. CASE ~ Owned(record)
      BY <1>5, <3>2 DEF OffLook, Place
    <3>. QED  BY <3>1, <3>2
  <2>2. Owned(record) => seen'[s] = record
    BY <1>5 DEF OffLook, GatewayInv
  <2>3. RecordAgrees(s)'
    BY <1>0, <2>1, <2>2 DEF GatewayInv, RecordAgrees, Forgetting, Owned, Alive, IsFree
  <2>. QED  BY <1>0, <1>5, <2>1, <2>3, KnownRecordKept DEF OffLook
<1>6. CASE Wait(s)
  <2>1. record = seen[s] /\ seen' = seen
    BY <1>6 DEF Wait, KnownInv, RecordAgrees
  <2>2. PICK next \in Place : step' = step \/ (step' = [step EXCEPT ![s] = next]
          /\ next \in {"forget", "kill"} /\ (next = "forget" => ~ Owned(record)))
    BY <1>6, <2>1 DEF Wait, Place, Owned
  <2>3. RecordAgrees(s)'
    BY <1>0, <1>6, <2>1, <2>2 DEF GatewayInv, RecordAgrees, Forgetting, Owned, Alive, IsFree, Wait
  <2>. QED  BY <1>0, <1>6, <2>2, <2>3, KnownRecordKept DEF Wait
<1>. QED  BY <1>1, <1>2, <1>3, <1>4, <1>5, <1>6

LEMMA KnownRemoves ==
  ASSUME GatewayInv, KnownInv, ~ met, NEW s \in Shells,
         NEW stage \in Forgetting, NEW next \in {"spawn", "rest", "on"}, RemoveState(s, stage, next)
  PROVE  KnownInv'
<1>1. /\ UNCHANGED <<procs, cut>> /\ record' = Nothing /\ step' = [step EXCEPT ![s] = next]
      /\ step[s] \in Forgetting /\ ~ Owned(record) /\ next \in Place
  BY DEF RemoveState, Done, Goto, KnownInv, RecordAgrees, Place
<1>2. RecordAgrees(s)'
  BY <1>1 DEF GatewayInv, RecordAgrees, Forgetting
<1>3. ASSUME NEW pid \in Pids, Ours(pid), Known(pid) PROVE Known(pid)'
  <2>. DEFINE id == [pid |-> pid, start |-> procs[pid].start]
  <2>1. record # id
    <3>1. record = id => Owned(record)
      BY <1>3 DEF Owned, Alive, IsFree, Ours
    <3>. QED  BY <1>1, <3>1
  <2>2. \A q \in Shells : step[q] # "write"
    BY <1>1, OthersRest DEF Forgetting
  <2>3. id.start \in cut
    BY <1>3, <2>1, <2>2 DEF Known
  <2>. QED  BY <1>1, <2>3 DEF Known
<1>. QED  BY <1>1, <1>2, <1>3, KnownQuiet DEF Forgetting

LEMMA KnownLaunches ==
  ASSUME GatewayInv, KnownInv, ~ met, NEW s \in Shells, Spawn(s) \/ WriteState(s)
  PROVE  KnownInv'
<1>. USE DEF Goto
<1>1. CASE Spawn(s)
  <2>1. record = Nothing /\ record' = record /\ cut' = cut /\ births' = births + 1 /\ births \in Nat
    BY <1>1 DEF Spawn, KnownInv, RecordAgrees, observedGateway, GatewayInv
  <2>2. PICK pid \in Pids : /\ IsFree(pid)
                           /\ procs' = [procs EXCEPT ![pid] = [kind |-> "daemon", start |-> births']]
                           /\ seen' = [seen EXCEPT ![s] = [pid |-> pid, start |-> births']]
    BY <1>1 DEF Spawn
  <2>3. step' = [step EXCEPT ![s] = "write"] /\ \A q \in Shells \ {s} : step[q] = "rest" /\ step'[q] = "rest"
    BY <1>1, OthersRest DEF Spawn, GatewayInv
  <2>4. step'[s] = "write" /\ seen'[s] = [pid |-> pid, start |-> births']
    BY <2>2, <2>3 DEF GatewayInv
  <2>5. Alone'
    BY <2>3 DEF Alone
  <2>6. \A q \in Shells : RecordAgrees(q)'
    BY <2>1, <2>3, <2>4 DEF RecordAgrees, Forgetting
  <2>7. ASSUME NEW p \in Pids, Ours(p)' PROVE Known(p)'
    <3>1. CASE p = pid
      <4>1. procs'[p].start = births'
        BY <2>2, <3>1 DEF GatewayInv
      <4>. QED  BY <2>4, <3>1, <4>1 DEF Known
    <3>2. CASE p # pid
      <4>1. procs'[p] = procs[p]
        BY <2>2, <3>2 DEF GatewayInv
      <4>2. Ours(p) /\ Known(p)
        BY <2>7, <4>1 DEF Ours, KnownInv
      <4>3. procs[p].start \in cut
        BY <1>1, <2>1, <2>3, <4>2, NothingIsNotOwned DEF Known, Spawn
      <4>. QED  BY <2>1, <4>1, <4>3 DEF Known
    <3>. QED  BY <3>1, <3>2
  <2>. QED  BY <2>5, <2>6, <2>7 DEF KnownInv
<1>2. CASE WriteState(s)
  <2>1. /\ UNCHANGED <<procs, cut, seen>> /\ record = Nothing /\ record' = seen[s]
        /\ step' = [step EXCEPT ![s] = "startup"] /\ "startup" \in Place /\ step[s] = "write"
    BY <1>2 DEF WriteState, observedGateway, KnownInv, RecordAgrees, Place
  <2>2. RecordAgrees(s)'
    BY <2>1 DEF GatewayInv, RecordAgrees, Forgetting
  <2>3. ASSUME NEW pid \in Pids, Ours(pid), Known(pid) PROVE Known(pid)'
    <3>1. \A q \in Shells : step[q] = "write" => q = s
      BY <2>1, OthersRest
    <3>. QED  BY <2>1, <2>3, <3>1, NothingIsNotOwned DEF Known
  <2>. QED  BY <2>1, <2>2, <2>3, KnownQuiet
<1>. QED  BY <1>1, <1>2

LEMMA KnownSignals ==
  ASSUME GatewayInv, KnownInv, ~ met, NEW s \in Shells, Term(s) \/ Kill(s)
  PROVE  KnownInv'
<1>. USE DEF Goto
<1>1. /\ UNCHANGED <<record, seen, cut>> /\ record = seen[s] /\ step[s] \in {"term", "kill"}
      /\ step[s] \notin {"rest", "write"} /\ procs \in [Pids -> Process]
  BY DEF Term, Kill, observedGateway, KnownInv, RecordAgrees, GatewayInv
<1>2. PICK next \in {"wait", "forget"}, kind \in {"TERM", "KILL"} :
        /\ step' = [step EXCEPT ![s] = next] /\ Signal(seen[s].pid, kind)
        /\ next = "forget" => kind = "KILL"
  BY DEF Term, Kill
<1>3. NoDaemonBorn /\ procs' \in [Pids -> Process]
      /\ (seen[s].pid \in Pids /\ kind = "KILL" => ~ Ours(seen[s].pid)')
  BY <1>1, <1>2, SignalMakesNoDaemon, SignalEffect
<1>4. step' \in [Shells -> Place] /\ \A q \in Shells \ {s} : step[q] = "rest" /\ step'[q] = "rest"
  BY <1>1, <1>2, OthersRest DEF GatewayInv, Place
<1>5. RecordAgrees(s)'
  <2>1. kind = "KILL" => ~ Owned(record)'
    BY <1>1, <1>3 DEF Owned, Alive, IsFree, Ours
  <2>. QED  BY <1>1, <1>2, <2>1 DEF RecordAgrees, Forgetting, GatewayInv
<1>6. ASSUME NEW pid \in Pids, Ours(pid)', Known(pid) PROVE Known(pid)'
  <2>1. procs'[pid].start = procs[pid].start
    BY <1>3, <1>6 DEF NoDaemonBorn
  <2>2. \A q \in Shells : step[q] # "write"
    BY <1>1, <1>4
  <2>. QED  BY <1>1, <1>6, <2>1, <2>2 DEF Known
<1>. QED  BY <1>3, <1>4, <1>5, <1>6, KnownStep

LEMMA KnownInterrupts ==
  ASSUME GatewayInv, KnownInv, ~ met, NEW s \in Shells, Interrupt(s)
  PROVE  KnownInv'
<1>1. /\ UNCHANGED <<procs, record>> /\ step' = [step EXCEPT ![s] = "rest"] /\ "rest" \in Place
      /\ step[s] # "rest" /\ cut \subseteq cut' /\ (step[s] = "write" => seen[s].start \in cut')
  BY DEF Interrupt, Done, Goto, Place
<1>2. RecordAgrees(s)'
  BY <1>1 DEF GatewayInv, RecordAgrees, Forgetting
<1>3. ASSUME NEW pid \in Pids, Ours(pid), Known(pid) PROVE Known(pid)'
  <2>1. \A q \in Shells : step[q] = "write" => q = s
    BY <1>1, OthersRest
  <2>2. CASE record = [pid |-> pid, start |-> procs[pid].start]
    BY <1>1, <2>2 DEF Known
  <2>3. CASE step[s] = "write" /\ seen[s] = [pid |-> pid, start |-> procs[pid].start]
    BY <1>1, <2>3 DEF Known
  <2>4. CASE procs[pid].start \in cut
    BY <1>1, <2>4 DEF Known
  <2>. QED  BY <1>3, <2>1, <2>2, <2>3, <2>4 DEF Known
<1>. QED  BY <1>1, <1>2, <1>3, KnownQuiet

LEMMA KnownElsewhere ==
  ASSUME GatewayInv, KnownInv, ~ met, NEW pid \in Pids,
         Exit(pid) \/ \E kind \in {"stranger", "namesake"} : Reuse(pid, kind)
  PROVE  KnownInv'
<1>1. UNCHANGED <<record, step, seen, cut>> /\ procs \in [Pids -> Process]
  BY DEF Exit, Reuse, shellVars, observedGateway, GatewayInv
<1>2. PICK process : procs' = [procs EXCEPT ![pid] = process] /\ process.kind \notin {"daemon", "stopping"}
                     /\ process \in Process
  <2>1. CASE Exit(pid)
    <3>1. procs' = [procs EXCEPT ![pid] = Free] /\ Free.kind \notin {"daemon", "stopping"} /\ Free \in Process
      BY <2>1 DEF Exit, Free, Process
    <3>. QED  BY <3>1
  <2>2. ASSUME NEW kind \in {"stranger", "namesake"}, Reuse(pid, kind)
        PROVE  /\ procs' = [procs EXCEPT ![pid] = [kind |-> kind, start |-> births']]
               /\ [kind |-> kind, start |-> births'] \in Process
    <3>1. births' \in Nat
      BY <2>2 DEF Reuse, GatewayInv
    <3>. QED  BY <2>2, <3>1 DEF Reuse, Process
  <2>. QED  BY <2>1, <2>2
<1>3. procs' \in [Pids -> Process] /\ NoDaemonBorn
  BY <1>1, <1>2 DEF NoDaemonBorn, Ours
<1>4. Alone'
  BY <1>1 DEF KnownInv, Alone
<1>5. \A s \in Shells : RecordAgrees(s)'
  BY <1>1, <1>3, StillNotOwned DEF KnownInv, RecordAgrees
<1>6. ASSUME NEW p \in Pids, Ours(p)' PROVE Known(p)'
  <2>1. Known(p) /\ procs'[p].start = procs[p].start
    BY <1>3, <1>6 DEF NoDaemonBorn, KnownInv
  <2>. QED  BY <1>1, <2>1 DEF Known
<1>. QED  BY <1>4, <1>5, <1>6 DEF KnownInv

LEMMA KnownNext == GatewayInv /\ KnownInv /\ [GatewayNext]_gatewayVars => KnownInv'
<1>. SUFFICES ASSUME GatewayInv, KnownInv, [GatewayNext]_gatewayVars, ~ met' PROVE KnownInv'
  BY DEF KnownInv
<1>1. CASE UNCHANGED gatewayVars
  BY <1>1 DEF gatewayVars, shellVars, observedGateway, KnownInv, Alone, RecordAgrees, Ours, Known, Owned,
              Alive, IsFree
<1>2. ASSUME NEW s \in Shells, NEW command \in {"on", "off", "status", "toggle"}, Give(s, command)
      PROVE  KnownInv'
  <2>1. ~ met /\ \A q \in Shells \ {s} : step[q] = "rest"
    BY <1>2 DEF Give
  <2>2. UNCHANGED <<procs, record, cut, seen>> /\ step' = [step EXCEPT ![s] = command] /\ step[s] = "rest"
    BY <1>2 DEF Give, Goto
  <2>3. \A q \in Shells \ {s} : step'[q] = "rest"
    BY <2>1, <2>2 DEF GatewayInv
  <2>4. step'[s] = command
    BY <2>2 DEF GatewayInv
  <2>5. Alone' /\ \A q \in Shells : RecordAgrees(q)'
    BY <2>3, <2>4 DEF Alone, RecordAgrees, Forgetting
  <2>6. ASSUME NEW pid \in Pids, Ours(pid)' PROVE Known(pid)'
    <3>1. Ours(pid) /\ Known(pid)
      BY <2>1, <2>2, <2>6 DEF Ours, KnownInv
    <3>. QED  BY <2>1, <2>2, <3>1 DEF Known
  <2>. QED  BY <2>5, <2>6 DEF KnownInv
<1>3. ASSUME NEW s \in Shells, ShellStep(s)  PROVE KnownInv'
  <2>1. ~ met
    BY <1>3 DEF ShellStep, OnLook, Unconfigured, VerifyStartup, StatusLook, OffLook, Wait, Spawn, WriteState,
         Term, Kill, RemoveState, Quiet, observedGateway
  <2>2. \A stage \in Forgetting, next \in {"spawn", "rest", "on"} : RemoveState(s, stage, next) => KnownInv'
    BY <2>1, KnownRemoves
  <2>. QED
    BY <1>3, <2>1, <2>2, KnownLooks, KnownLaunches, KnownSignals DEF ShellStep, Forgetting
<1>4. ASSUME NEW s \in Shells, Interrupt(s)  PROVE KnownInv'
  BY <1>4, KnownInterrupts DEF Interrupt
<1>5. ASSUME NEW pid \in Pids, Exit(pid) \/ \E kind \in {"stranger", "namesake"} : Reuse(pid, kind)
      PROVE  KnownInv'
  <2>1. ~ met
    BY <1>5 DEF Exit, Reuse, observedGateway
  <2>. QED  BY <1>5, <2>1, KnownElsewhere
<1>. QED  BY <1>1, <1>2, <1>3, <1>4, <1>5 DEF GatewayNext

(* scripts/buzztalk-gateway keeps one record and checks it before it launches:
   for any number of shells and process numbers, and wherever a command is cut
   short, no daemon is lost sight of while commands do not meet, except one
   whose launch was cut before the record was written. *)
THEOREM DaemonsAreKnown == GatewaySpec => []DaemonIsKnown
<1>1. GatewayInit => GatewayInv /\ KnownInv
  BY GatewayInitInv, KnownInit
<1>2. GatewayInv /\ KnownInv /\ [GatewayNext]_gatewayVars => GatewayInv' /\ KnownInv'
  BY GatewayNextInv, KnownNext
<1>3. KnownInv => DaemonIsKnown
  BY DEF KnownInv, Known, DaemonIsKnown
<1>. QED  BY <1>1, <1>2, <1>3, PTL DEF GatewaySpec

----------------------------------------------------------------------------
(* The pipeline and its client: a daemon that serves restarts an
   Idle session, the microphone is closed when the handle is gone, and nobody
   hears of the end; for any set of clients and any length of the channels.   *)

(* Before end_session the only command is to start. *)
OnlyStarts ==
  host \in {"starting", "connected", "failed", "started", "serving", "stopping"} =>
    \A i \in DOMAIN control : control[i] = "StartSession"

(* The loop is left because the handle is dropped. *)
RunsUntilDropped ==
  host \notin {"joining", "gone"} =>
    /\ running /\ ~ Holds(control, "Shutdown")
    /\ orchestrator \notin {"leaving", "ended"}

(* The end is the last thing the loop tells, after it has ended the session. *)
EndComesLast ==
  /\ orchestrator \in {"leaving", "ended"} => ~ running
  /\ Holds(events, "SessionEnded") => orchestrator = "ended"
  /\ orchestrator = "ended" => session = "Idle"
  /\ host = "gone" => orchestrator = "ended"

PumpIsDesktops == pump # "none" => client = "desktop"

HostInv ==
  /\ HostTypeOK
  /\ OnlyStarts /\ RunsUntilDropped /\ EndComesLast /\ PumpIsDesktops
  /\ RestartIsComing

----------------------------------------------------------------------------
(* What a queue holds after the operations on it. *)

LEMMA HoldsAppended ==
  ASSUME NEW S, NEW s \in Seq(S), NEW x \in S
  PROVE  /\ Append(s, x) \in Seq(S)
         /\ \A y : Holds(Append(s, x), y) <=> Holds(s, y) \/ y = x
<1>1. Append(s, x) \in Seq(S) /\ Len(Append(s, x)) = Len(s) + 1 /\ Len(s) \in Nat
  OBVIOUS
<1>2. ASSUME NEW y PROVE Holds(Append(s, x), y) <=> Holds(s, y) \/ y = x
  <2>1. \A i \in 1..Len(s) : Append(s, x)[i] = s[i]
    OBVIOUS
  <2>2. Append(s, x)[Len(s) + 1] = x
    OBVIOUS
  <2>3. DOMAIN s = 1..Len(s) /\ DOMAIN Append(s, x) = 1..(Len(s) + 1)
    BY <1>1
  <2>4. 1..(Len(s) + 1) = 1..Len(s) \cup {Len(s) + 1}
    BY <1>1
  <2> QED BY <2>1, <2>2, <2>3, <2>4 DEF Holds
<1> QED BY <1>1, <1>2

LEMMA HoldsTaken ==
  ASSUME NEW S, NEW s \in Seq(S), s # <<>>
  PROVE  /\ Tail(s) \in Seq(S) /\ Head(s) \in S
         /\ \A y : Holds(s, y) <=> Holds(Tail(s), y) \/ y = Head(s)
<1>1. Tail(s) \in Seq(S) /\ Len(Tail(s)) = Len(s) - 1 /\ Len(s) \in Nat \ {0} /\ Head(s) = s[1]
  OBVIOUS
<1>2. \A i \in 1..(Len(s) - 1) : Tail(s)[i] = s[i + 1]
  OBVIOUS
<1>3. DOMAIN s = 1..Len(s) /\ DOMAIN Tail(s) = 1..(Len(s) - 1)
  BY <1>1
<1>4. ASSUME NEW y PROVE Holds(s, y) <=> Holds(Tail(s), y) \/ y = Head(s)
  <2>1. ASSUME NEW i \in DOMAIN s, s[i] = y, y # Head(s) PROVE Holds(Tail(s), y)
    <3>1. i - 1 \in 1..(Len(s) - 1) /\ (i - 1) + 1 = i
      BY <2>1, <1>1, <1>3
    <3> QED BY <3>1, <2>1, <1>2, <1>3 DEF Holds
  <2>2. ASSUME NEW i \in DOMAIN Tail(s), Tail(s)[i] = y PROVE Holds(s, y)
    <3>1. i + 1 \in DOMAIN s
      BY <1>1, <1>3
    <3> QED BY <3>1, <2>2, <1>2, <1>3 DEF Holds
  <2>3. y = Head(s) => Holds(s, y)
    BY <1>1, <1>3 DEF Holds
  <2> QED BY <2>1, <2>2, <2>3 DEF Holds
<1> QED BY <1>1, <1>3, <1>4

LEMMA HoldsJoined ==
  ASSUME NEW S, NEW s \in Seq(S), NEW t \in Seq(S)
  PROVE  /\ s \o t \in Seq(S)
         /\ \A y : Holds(s \o t, y) <=> Holds(s, y) \/ Holds(t, y)
<1>1. s \o t \in Seq(S) /\ Len(s \o t) = Len(s) + Len(t) /\ Len(s) \in Nat /\ Len(t) \in Nat
  OBVIOUS
<1>2. DOMAIN s = 1..Len(s) /\ DOMAIN t = 1..Len(t) /\ DOMAIN (s \o t) = 1..(Len(s) + Len(t))
  BY <1>1
<1>3. \A i \in 1..(Len(s) + Len(t)) : (s \o t)[i] = IF i <= Len(s) THEN s[i] ELSE t[i - Len(s)]
  OBVIOUS
<1>4. ASSUME NEW y PROVE Holds(s \o t, y) <=> Holds(s, y) \/ Holds(t, y)
  <2>1. ASSUME NEW i \in DOMAIN (s \o t), (s \o t)[i] = y PROVE Holds(s, y) \/ Holds(t, y)
    <3>1. CASE i <= Len(s)
      BY <3>1, <2>1, <1>1, <1>2, <1>3 DEF Holds
    <3>2. CASE i > Len(s)
      <4>1. i - Len(s) \in DOMAIN t /\ t[i - Len(s)] = y
        BY <3>2, <2>1, <1>1, <1>2, <1>3
      <4> QED BY <4>1 DEF Holds
    <3> QED BY <3>1, <3>2, <1>1, <1>2
  <2>2. ASSUME NEW i \in DOMAIN s, s[i] = y PROVE Holds(s \o t, y)
    <3>1. i \in DOMAIN (s \o t) /\ (s \o t)[i] = y
      BY <2>2, <1>1, <1>2, <1>3
    <3> QED BY <3>1 DEF Holds
  <2>3. ASSUME NEW i \in DOMAIN t, t[i] = y PROVE Holds(s \o t, y)
    <3>1. i + Len(s) \in 1..(Len(s) + Len(t)) /\ ~ i + Len(s) <= Len(s) /\ (i + Len(s)) - Len(s) = i
      BY <1>1, <1>2
    <3>2. (s \o t)[i + Len(s)] = y
      BY <3>1, <2>3, <1>3
    <3> QED BY <3>1, <3>2, <1>2 DEF Holds
  <2> QED BY <2>1, <2>2, <2>3 DEF Holds
<1> QED BY <1>1, <1>4

LEMMA HoldsOne ==
  ASSUME NEW x \in Event
  PROVE  /\ <<x>> \in Seq(Event) /\ <<>> \in Seq(Event)
         /\ \A y : (Holds(<<x>>, y) <=> y = x) /\ ~ Holds(<<>>, y)
<1>1. DOMAIN <<x>> = {1} /\ <<x>>[1] = x /\ DOMAIN <<>> = {}
  OBVIOUS
<1> QED BY <1>1 DEF Holds

(* What is told is added to what was, unless nobody listens. *)
LEMMA ToldAdds ==
  ASSUME events \in Seq(Event), NEW news \in Seq(Event), Told(news)
  PROVE  /\ events' \in Seq(Event)
         /\ \A y : Holds(events', y) => Holds(events, y) \/ Holds(news, y)
         /\ pump # "ended" => \A y : Holds(events', y) <=> Holds(events, y) \/ Holds(news, y)
<1>1. events \o news \in Seq(Event)
      /\ \A y : Holds(events \o news, y) <=> Holds(events, y) \/ Holds(news, y)
  BY HoldsJoined
<1>2. CASE pump = "ended"
  BY <1>2 DEF Told
<1>3. CASE pump # "ended"
  <2>1. events' = events \o news
    BY <1>3 DEF Told
  <2> QED BY <2>1, <1>1
<1> QED BY <1>2, <1>3

LEMMA StartTells ==
  ASSUME events \in Seq(Event), Start
  PROVE  /\ session' = "open" /\ events' \in Seq(Event)
         /\ Holds(events', "SessionEnded") => Holds(events, "SessionEnded")
<1> DEFINE news == IF session = "Idle" THEN <<"Other">> ELSE <<>>
<1>1. news \in Seq(Event) /\ \A y : Holds(news, y) => y = "Other"
  BY HoldsOne DEF Event
<1>2. Told(news) /\ session' = "open"
  BY DEF Start
<1> HIDE DEF news
<1>3. events' \in Seq(Event) /\ \A y : Holds(events', y) => Holds(events, y) \/ Holds(news, y)
  BY <1>1, <1>2, ToldAdds
<1> QED BY <1>1, <1>2, <1>3

LEMMA EndTells ==
  ASSUME events \in Seq(Event), NEW before \in Seq(Event), NEW after \in Seq(Event),
         EndWith(before, after)
  PROVE  /\ session' = "Idle" /\ events' \in Seq(Event)
         /\ Holds(events', "SessionEnded") =>
              Holds(events, "SessionEnded") \/ Holds(before, "SessionEnded")
                \/ Holds(after, "SessionEnded")
         /\ pump # "ended" /\ session = "open" => Holds(events', "Idle")
         /\ pump # "ended" /\ Holds(events, "Idle") => Holds(events', "Idle")
<1> DEFINE middle == IF session = "open" THEN <<"Idle">> ELSE <<>>
           news == before \o middle \o after
<1>1. middle \in Seq(Event) /\ (\A y : Holds(middle, y) => y = "Idle")
      /\ (session = "open" => Holds(middle, "Idle"))
  BY HoldsOne DEF Event
<1>2. Told(news) /\ session' = "Idle"
  BY DEF EndWith
<1> HIDE DEF middle
<1>3. before \o middle \in Seq(Event)
      /\ \A y : Holds(before \o middle, y) <=> Holds(before, y) \/ Holds(middle, y)
  BY <1>1, HoldsJoined
<1>4. news \in Seq(Event)
      /\ \A y : Holds(news, y) <=> Holds(before \o middle, y) \/ Holds(after, y)
  BY <1>3, HoldsJoined
<1> HIDE DEF news
<1>5. /\ events' \in Seq(Event)
      /\ \A y : Holds(events', y) => Holds(events, y) \/ Holds(news, y)
      /\ pump # "ended" => \A y : Holds(events', y) <=> Holds(events, y) \/ Holds(news, y)
  BY <1>2, <1>4, ToldAdds
<1> QED BY <1>1, <1>2, <1>3, <1>4, <1>5

----------------------------------------------------------------------------
(* The invariant. *)

LEMMA HostInit_ == HostInit => HostInv
<1> SUFFICES ASSUME HostInit PROVE HostInv
  OBVIOUS
<1>1. HostTypeOK
  BY ClientsAssumption DEF HostInit, HostTypeOK
<1>2. \A y : ~ Holds(control, y) /\ ~ Holds(events, y)
  BY DEF HostInit, Holds
<1>3. OnlyStarts /\ RunsUntilDropped /\ EndComesLast /\ PumpIsDesktops /\ RestartIsComing
  <2>1. OnlyStarts
    BY DEF HostInit, OnlyStarts
  <2>2. RunsUntilDropped /\ EndComesLast /\ PumpIsDesktops /\ RestartIsComing
    BY <1>2 DEF HostInit, RunsUntilDropped, EndComesLast, PumpIsDesktops, RestartIsComing
  <2> QED BY <2>1, <2>2
<1> QED BY <1>1, <1>3 DEF HostInv

(* The steps of the orchestrator leave the client alone. *)
LEMMA HostOrchestrated ==
  ASSUME HostInv, Orchestrate
  PROVE  HostInv'
<1> USE DEF HostInv
<1>0. UNCHANGED <<client, host, pump>>
  BY DEF Orchestrate, EmitCapabilities, HandleControl, ControlDrained, TickSession, Pump,
         RestartOnNewEngine, Leave, clientVars
<1>p. PumpIsDesktops'
  BY <1>0 DEF PumpIsDesktops
<1>d. client = "buzztalkd" => pump # "ended"
  BY DEF PumpIsDesktops
<1>t. client' \in AllClients /\ host' \in {"starting", "connected", "failed", "started", "serving",
         "stopping", "draining", "dropping", "joining", "gone"} /\ pump' \in {"none", "pumping", "ended"}
  BY <1>0 DEF HostTypeOK
<1>o. /\ <<"Other">> \in Seq(Event) /\ <<>> \in Seq(Event)
      /\ <<"SessionEnded">> \in Seq(Event)
      /\ \A y : (Holds(<<"Other">>, y) <=> y = "Other") /\ ~ Holds(<<>>, y)
  BY HoldsOne DEF Event
<1>1. CASE EmitCapabilities
  <2>1. events' \in Seq(Event) /\ (Holds(events', "SessionEnded") => Holds(events, "SessionEnded"))
        /\ (pump # "ended" => (Holds(events, "Idle") => Holds(events', "Idle")))
    BY <1>1, <1>o, ToldAdds DEF EmitCapabilities, HostTypeOK
  <2>2. orchestrator = "spawned" /\ orchestrator' = "control" /\ UNCHANGED <<control, running, session>>
    BY <1>1 DEF EmitCapabilities, Loop
  <2>3. HostTypeOK'
    BY <1>t, <2>1, <2>2 DEF HostTypeOK
  <2>4. OnlyStarts' /\ RunsUntilDropped'
    BY <1>0, <2>2 DEF OnlyStarts, RunsUntilDropped, Holds
  <2>5. EndComesLast'
    BY <1>0, <2>1, <2>2 DEF EndComesLast
  <2>6. RestartIsComing'
    BY <1>0, <1>d, <2>1, <2>2 DEF RestartIsComing, Holds
  <2> QED BY <2>3, <2>4, <2>5, <2>6, <1>p
<1>2. CASE HandleControl
  <2>1. /\ orchestrator = "control" /\ orchestrator' = "control" /\ control # <<>>
        /\ control' = Tail(control)
        /\ running' = (running /\ Head(control) # "Shutdown")
    BY <1>2 DEF HandleControl
  <2>2. /\ control' \in Seq(Command) /\ Head(control) \in Command
        /\ \A y : Holds(control, y) <=> Holds(control', y) \/ y = Head(control)
    BY <2>1, HoldsTaken DEF HostTypeOK
  <2>3. CASE Head(control) = "StartSession"
    <3>1. Start
      BY <1>2, <2>3 DEF HandleControl
    <3>2. session' = "open" /\ events' \in Seq(Event)
          /\ (Holds(events', "SessionEnded") => Holds(events, "SessionEnded"))
      BY <3>1, StartTells DEF HostTypeOK
    <3>3. running' = running
      BY <2>1, <2>3 DEF HostTypeOK
    <3>4. HostTypeOK'
      BY <1>t, <2>1, <2>2, <3>2, <3>3 DEF HostTypeOK
    <3>5. OnlyStarts' /\ RunsUntilDropped'
      <4>1. OnlyStarts'
        BY <1>0, <2>2 DEF OnlyStarts, Holds
      <4>2. RunsUntilDropped'
        BY <1>0, <2>1, <2>2, <3>3 DEF RunsUntilDropped
      <4> QED BY <4>1, <4>2
    <3>6. EndComesLast'
      BY <1>0, <2>1, <3>2, <3>3 DEF EndComesLast
    <3>7. RestartIsComing'
      BY <3>2 DEF RestartIsComing
    <3> QED BY <3>4, <3>5, <3>6, <3>7, <1>p
  <2>4. CASE Head(control) = "EndSession"
    <3>1. EndWith(<<>>, <<>>)
      BY <1>2, <2>4 DEF HandleControl
    <3>2. session' = "Idle" /\ events' \in Seq(Event)
          /\ (Holds(events', "SessionEnded") => Holds(events, "SessionEnded"))
      BY <3>1, <1>o, EndTells DEF HostTypeOK
    <3>3. running' = running
      BY <2>1, <2>4 DEF HostTypeOK
    <3>4. HostTypeOK'
      BY <1>t, <2>1, <2>2, <3>2, <3>3 DEF HostTypeOK
    <3>5. OnlyStarts' /\ RunsUntilDropped'
      <4>1. OnlyStarts'
        BY <1>0, <2>2 DEF OnlyStarts, Holds
      <4>2. RunsUntilDropped'
        BY <1>0, <2>1, <2>2, <3>3 DEF RunsUntilDropped
      <4> QED BY <4>1, <4>2
    <3>6. EndComesLast'
      BY <1>0, <2>1, <3>2, <3>3 DEF EndComesLast
    <3>7. host # "serving"
      BY <2>2, <2>4 DEF OnlyStarts, Holds
    <3>8. RestartIsComing'
      BY <1>0, <3>7 DEF RestartIsComing
    <3> QED BY <3>4, <3>5, <3>6, <3>8, <1>p
  <2>5. CASE Head(control) = "Shutdown"
    <3>1. events' = events /\ session' = session /\ running' = FALSE
      BY <1>2, <2>1, <2>5 DEF HandleControl, ToldNothing
    <3>2. host \in {"joining", "gone"}
      BY <2>2, <2>5 DEF RunsUntilDropped
    <3>3. HostTypeOK'
      BY <1>t, <2>1, <2>2, <3>1 DEF HostTypeOK
    <3>4. OnlyStarts' /\ RunsUntilDropped' /\ RestartIsComing'
      BY <1>0, <3>2 DEF OnlyStarts, RunsUntilDropped, RestartIsComing
    <3>5. EndComesLast'
      BY <1>0, <2>1, <3>1 DEF EndComesLast, Holds
    <3> QED BY <3>3, <3>4, <3>5, <1>p
  <2> QED BY <2>2, <2>3, <2>4, <2>5 DEF Command
<1>3. CASE ControlDrained
  <2>1. orchestrator = "control" /\ orchestrator' = (IF running THEN "tick" ELSE "leaving")
        /\ UNCHANGED <<control, events, running, session>>
    BY <1>3 DEF ControlDrained, Loop
  <2>2. HostTypeOK'
    BY <1>t, <2>1 DEF HostTypeOK
  <2>3. OnlyStarts' /\ RunsUntilDropped'
    BY <1>0, <2>1 DEF OnlyStarts, RunsUntilDropped, Holds
  <2>4. EndComesLast'
    BY <1>0, <2>1 DEF EndComesLast, Holds
  <2>5. RestartIsComing'
    BY <1>0, <2>1 DEF RestartIsComing, Holds
  <2> QED BY <2>2, <2>3, <2>4, <2>5, <1>p
<1>4. ASSUME orchestrator \in {"tick", "pump"}, orchestrator' \in {"control", "pump"},
             UNCHANGED <<control, running, session>>,
             \/ UNCHANGED events
             \/ Told(<<"Other">>)
      PROVE  HostInv'
  <2>1. events' \in Seq(Event) /\ (Holds(events', "SessionEnded") => Holds(events, "SessionEnded"))
        /\ (pump # "ended" => (Holds(events, "Idle") => Holds(events', "Idle")))
    <3>1. CASE UNCHANGED events
      BY <3>1 DEF HostTypeOK
    <3>2. CASE Told(<<"Other">>)
      BY <3>2, <1>o, ToldAdds DEF HostTypeOK
    <3> QED BY <1>4, <3>1, <3>2
  <2>2. HostTypeOK'
    BY <1>4, <1>t, <2>1 DEF HostTypeOK
  <2>3. OnlyStarts' /\ RunsUntilDropped'
    BY <1>0, <1>4 DEF OnlyStarts, RunsUntilDropped, Holds
  <2>4. EndComesLast'
    BY <1>0, <1>4, <2>1 DEF EndComesLast
  <2>5. RestartIsComing'
    BY <1>0, <1>d, <1>4, <2>1 DEF RestartIsComing, Holds
  <2> QED BY <2>2, <2>3, <2>4, <2>5, <1>p
<1>5. ASSUME orchestrator = "tick", orchestrator' = "pump", UNCHANGED <<control, running>>,
             session = "open", EndWith(<<>>, <<>>)
      PROVE  HostInv'
  <2>1. /\ session' = "Idle" /\ events' \in Seq(Event)
        /\ (Holds(events', "SessionEnded") => Holds(events, "SessionEnded"))
        /\ (pump # "ended" => Holds(events', "Idle"))
    BY <1>5, <1>o, EndTells DEF HostTypeOK
  <2>2. HostTypeOK'
    BY <1>5, <1>t, <2>1 DEF HostTypeOK
  <2>3. OnlyStarts' /\ RunsUntilDropped'
    BY <1>0, <1>5 DEF OnlyStarts, RunsUntilDropped, Holds
  <2>4. EndComesLast'
    BY <1>0, <1>5, <2>1 DEF EndComesLast
  <2>5. RestartIsComing'
    BY <1>0, <1>d, <2>1 DEF RestartIsComing
  <2> QED BY <2>2, <2>3, <2>4, <2>5, <1>p
<1>6. ASSUME orchestrator = "pump", orchestrator' = "rebuilding", UNCHANGED <<control, running>>,
             EndWith(<<"Other">>, <<>>)
      PROVE  HostInv'
  <2>1. /\ session' = "Idle" /\ events' \in Seq(Event)
        /\ (Holds(events', "SessionEnded") => Holds(events, "SessionEnded"))
    BY <1>6, <1>o, EndTells DEF HostTypeOK
  <2>2. HostTypeOK'
    BY <1>6, <1>t, <2>1 DEF HostTypeOK
  <2>3. OnlyStarts' /\ RunsUntilDropped'
    BY <1>0, <1>6 DEF OnlyStarts, RunsUntilDropped, Holds
  <2>4. EndComesLast'
    BY <1>0, <1>6, <2>1 DEF EndComesLast
  <2>5. RestartIsComing'
    BY <1>6 DEF RestartIsComing
  <2> QED BY <2>2, <2>3, <2>4, <2>5, <1>p
<1>7. CASE TickSession
  BY <1>7, <1>4, <1>5 DEF TickSession, Loop
<1>8. CASE Pump
  BY <1>8, <1>4, <1>6 DEF Pump, Loop
<1>9. CASE RestartOnNewEngine
  <2>1. orchestrator = "rebuilding" /\ orchestrator' = "control" /\ UNCHANGED <<control, running>> /\ Start
    BY <1>9 DEF RestartOnNewEngine, Loop
  <2>2. /\ session' = "open" /\ events' \in Seq(Event)
        /\ (Holds(events', "SessionEnded") => Holds(events, "SessionEnded"))
    BY <2>1, StartTells DEF HostTypeOK
  <2>3. HostTypeOK'
    BY <1>t, <2>1, <2>2 DEF HostTypeOK
  <2>4. OnlyStarts' /\ RunsUntilDropped'
    BY <1>0, <2>1 DEF OnlyStarts, RunsUntilDropped, Holds
  <2>5. EndComesLast'
    BY <1>0, <2>1, <2>2 DEF EndComesLast
  <2>6. RestartIsComing'
    BY <2>2 DEF RestartIsComing
  <2> QED BY <2>3, <2>4, <2>5, <2>6, <1>p
<1>10. CASE Leave
  <2>1. orchestrator = "leaving" /\ orchestrator' = "ended" /\ UNCHANGED <<control, running>>
        /\ EndWith(<<>>, <<"SessionEnded">>)
    BY <1>10 DEF Leave, Loop
  <2>2. session' = "Idle" /\ events' \in Seq(Event)
    BY <2>1, <1>o, EndTells DEF HostTypeOK
  <2>3. HostTypeOK'
    BY <1>t, <2>1, <2>2 DEF HostTypeOK
  <2>4. host \in {"joining", "gone"}
    BY <2>1 DEF RunsUntilDropped
  <2>5. OnlyStarts' /\ RunsUntilDropped' /\ RestartIsComing'
    BY <1>0, <2>4 DEF OnlyStarts, RunsUntilDropped, RestartIsComing
  <2>6. EndComesLast'
    BY <1>0, <2>1, <2>2 DEF EndComesLast
  <2> QED BY <2>3, <2>5, <2>6, <1>p
<1> QED BY <1>1, <1>2, <1>3, <1>7, <1>8, <1>9, <1>10 DEF Orchestrate

(* The client starts, sends a command, stops or waits: the loop and the events
   are as they were. *)
LEMMA HostMoved ==
  ASSUME HostInv, Connect \/ StartPipeline \/ StartSession \/ Deadline \/ StopAndDrop \/ Stopping
  PROVE  HostInv'
<1> USE DEF HostInv
<1>1. UNCHANGED <<client, events, running, session>>
  BY DEF Connect, StartPipeline, StartSession, Deadline, StopAndDrop, Stopping, EndSession, DrainOver,
         Drop, Join, loopVars
<1>2. CASE StartPipeline
  <2>1. /\ UNCHANGED <<control, pump>> /\ host = "connected"
        /\ \/ host' = "failed" /\ orchestrator' = orchestrator
           \/ host' = "started" /\ orchestrator' = "spawned"
    BY <1>2 DEF StartPipeline, Step, Loop
  <2>2. HostTypeOK'
    BY <1>1, <2>1 DEF HostTypeOK
  <2>3. OnlyStarts' /\ RunsUntilDropped' /\ EndComesLast' /\ PumpIsDesktops' /\ RestartIsComing'
    BY <1>1, <2>1 DEF OnlyStarts, RunsUntilDropped, EndComesLast, PumpIsDesktops,
                      RestartIsComing, Holds
  <2> QED BY <2>2, <2>3
<1>3. ASSUME UNCHANGED <<orchestrator, control, pump>>,
             \/ host = "starting" /\ host' \in {"connected", "failed"}
             \/ host = "serving" /\ host' = "stopping"
             \/ host = "draining" /\ host' = "dropping"
             \/ host = "joining" /\ host' = "gone" /\ orchestrator = "ended"
      PROVE  HostInv'
  <2>1. HostTypeOK'
    BY <1>1, <1>3 DEF HostTypeOK
  <2>2. OnlyStarts' /\ RunsUntilDropped' /\ EndComesLast' /\ PumpIsDesktops' /\ RestartIsComing'
    BY <1>1, <1>3 DEF OnlyStarts, RunsUntilDropped, EndComesLast, PumpIsDesktops,
                      RestartIsComing, Holds
  <2> QED BY <2>1, <2>2
<1>4. ASSUME NEW command \in Command, Send(command), UNCHANGED orchestrator,
             \/ host = "started" /\ host' = "serving" /\ command = "StartSession"
             \/ host \in {"stopping", "serving"} /\ host' \in {"draining", "dropping"}
                  /\ command = "EndSession"
             \/ host = "dropping" /\ host' = "joining",
             pump' \in {"none", "pumping", "ended"}, pump' # "none" => client = "desktop"
      PROVE  HostInv'
  <2>1. control' = Append(control, command)
    BY <1>4 DEF Send
  <2>2. /\ control' \in Seq(Command)
        /\ \A y : Holds(control', y) <=> Holds(control, y) \/ y = command
    BY <2>1, HoldsAppended DEF HostTypeOK
  <2>3. HostTypeOK'
    BY <1>1, <1>4, <2>2 DEF HostTypeOK
  <2>4. OnlyStarts'
    BY <1>4, <2>2 DEF OnlyStarts, Holds
  <2>5. RunsUntilDropped'
    BY <1>1, <1>4, <2>2 DEF RunsUntilDropped
  <2>6. EndComesLast' /\ PumpIsDesktops'
    BY <1>1, <1>4 DEF EndComesLast, PumpIsDesktops, Holds
  <2>7. RestartIsComing'
    BY <1>4, <2>2 DEF RestartIsComing
  <2> QED BY <2>3, <2>4, <2>5, <2>6, <2>7
<1>5. CASE StartSession
  BY <1>5, <1>4 DEF StartSession, Step, Command, loopVars
<1>6. CASE Connect \/ Deadline \/ DrainOver \/ Join
  BY <1>6, <1>3 DEF Connect, Deadline, DrainOver, Join, Step, loopVars
<1>7. CASE StopAndDrop \/ EndSession \/ Drop
  <2>1. pump' = pump
    BY <1>7 DEF StopAndDrop, EndSession, Drop
  <2> QED BY <1>7, <1>4, <2>1 DEF StopAndDrop, EndSession, Drop, Step, Command, loopVars,
                                  HostTypeOK, PumpIsDesktops
<1> QED BY <1>2, <1>5, <1>6, <1>7 DEF Stopping

(* An event is taken: by the client, which a daemon answers, or by the pump. *)
LEMMA HostReceived ==
  ASSUME HostInv, Receives \/ DrainEvents \/ PumpForwards \/ PumpEnds
  PROVE  HostInv'
<1> USE DEF HostInv
<1>1. UNCHANGED <<client, orchestrator, running, session>>
  BY DEF Receives, DaemonReceives, DemoReceives, AppPolls, DrainEvents, Receive, PumpForwards,
         PumpEnds, loopVars
<1>2. CASE PumpEnds
  <2>1. UNCHANGED <<host, control, events>> /\ pump = "pumping" /\ pump' = "ended"
    BY <1>2 DEF PumpEnds
  <2>2. HostTypeOK'
    BY <1>1, <2>1 DEF HostTypeOK
  <2>3. OnlyStarts' /\ RunsUntilDropped' /\ EndComesLast' /\ PumpIsDesktops' /\ RestartIsComing'
    BY <1>1, <2>1 DEF OnlyStarts, RunsUntilDropped, EndComesLast, PumpIsDesktops,
                      RestartIsComing, Holds
  <2> QED BY <2>2, <2>3
<1>3. ASSUME events # <<>>, events' = Tail(events), UNCHANGED pump,
             \/ host' = host
             \/ host = "serving" /\ host' = "stopping"
             \/ host = "draining" /\ host' = "dropping",
             \/ control' = control /\ (client = "buzztalkd" /\ host' = "serving" => Head(events) # "Idle")
             \/ control' = Append(control, "StartSession") /\ host = "serving"
      PROVE  HostInv'
  <2>1. /\ events' \in Seq(Event)
        /\ \A y : Holds(events, y) <=> Holds(events', y) \/ y = Head(events)
    BY <1>3, HoldsTaken DEF HostTypeOK
  <2>2. /\ control' \in Seq(Command)
        /\ \A y : Holds(control', y) => Holds(control, y) \/ (y = "StartSession" /\ host = "serving")
        /\ \A y : Holds(control, y) => Holds(control', y)
        /\ control' # control => Holds(control', "StartSession")
    <3>1. CASE control' = control
      BY <3>1 DEF HostTypeOK
    <3>2. CASE control' = Append(control, "StartSession") /\ host = "serving"
      <4>1. "StartSession" \in Command /\ control \in Seq(Command)
        BY DEF HostTypeOK, Command
      <4> QED BY <3>2, <4>1, HoldsAppended
    <3> QED BY <1>3, <3>1, <3>2
  <2>3. HostTypeOK'
    BY <1>1, <1>3, <2>1, <2>2 DEF HostTypeOK
  <2>4. OnlyStarts'
    BY <1>3, <2>2 DEF OnlyStarts, Holds
  <2>5. RunsUntilDropped'
    BY <1>1, <1>3, <2>2 DEF RunsUntilDropped
  <2>6. EndComesLast' /\ PumpIsDesktops'
    BY <1>1, <1>3, <2>1 DEF EndComesLast, PumpIsDesktops
  <2>7. RestartIsComing'
    <3> SUFFICES ASSUME client' = "buzztalkd", host' = "serving", session' = "Idle"
                 PROVE  \/ Holds(control', "StartSession") \/ Holds(events', "Idle")
                        \/ orchestrator' = "rebuilding"
      BY DEF RestartIsComing
    <3>1. CASE control' = control
      BY <1>1, <1>3, <2>1, <2>2, <3>1 DEF RestartIsComing
    <3>2. CASE control' # control
      BY <3>2, <2>2
    <3> QED BY <3>1, <3>2
  <2> QED BY <2>3, <2>4, <2>5, <2>6, <2>7
<1>4. CASE DaemonReceives
  BY <1>4, <1>3 DEF DaemonReceives, Receive, Send
<1>5. CASE DemoReceives
  BY <1>5, <1>3 DEF DemoReceives, Receive
<1>6. CASE AppPolls
  BY <1>6, <1>3 DEF AppPolls, Receive
<1>7. CASE DrainEvents
  BY <1>7, <1>3 DEF DrainEvents, Receive
<1>8. CASE PumpForwards
  <2>1. client = "desktop"
    BY <1>8 DEF PumpForwards, PumpIsDesktops
  <2> QED BY <1>8, <1>3, <2>1 DEF PumpForwards, clientVars
<1> QED BY <1>2, <1>4, <1>5, <1>6, <1>7, <1>8 DEF Receives

LEMMA HostStep == HostInv /\ [HostNext]_hostVars => HostInv'
<1> SUFFICES ASSUME HostInv, [HostNext]_hostVars PROVE HostInv'
  OBVIOUS
<1>1. CASE HostNext
  BY <1>1, HostOrchestrated, HostMoved, HostReceived DEF HostNext
<1>2. CASE UNCHANGED hostVars
  BY <1>2 DEF HostInv, HostTypeOK, OnlyStarts, RunsUntilDropped, EndComesLast, PumpIsDesktops,
              RestartIsComing, Holds, hostVars, clientVars, loopVars
<1> QED BY <1>1, <1>2

LEMMA HostInvariant == HostSpec => []HostInv
  BY HostInit_, HostStep, PTL DEF HostSpec

----------------------------------------------------------------------------
(* Every variable has a value of its type. *)
THEOREM HostTypesHold == HostSpec => []HostTypeOK
<1>1. HostInv => HostTypeOK
  BY DEF HostInv
<1> QED BY <1>1, HostInvariant, PTL

(* Whatever ends the session of a daemon that serves, a rebuild or the idle
   timeout, a restart is on its way. *)
THEOREM DaemonRestarts == HostSpec => []RestartIsComing
<1>1. HostInv => RestartIsComing
  BY DEF HostInv
<1> QED BY <1>1, HostInvariant, PTL

(* When the thread was joined the session is Idle, even if a rebuild started it
   again after end_session. *)
THEOREM GoneIsClosed == HostSpec => []ClosedWhenGone
<1>1. HostInv => ClosedWhenGone
  BY DEF HostInv, EndComesLast, ClosedWhenGone
<1> QED BY <1>1, HostInvariant, PTL

(* SessionEnded is sent when nobody listens for it any more. *)
THEOREM NobodyHearsTheEnd == HostSpec => []EndIsUnheard
<1>1. HostInv => EndIsUnheard
  BY DEF HostInv, EndComesLast, RunsUntilDropped, EndIsUnheard
<1> QED BY <1>1, HostInvariant, PTL
=============================================================================
