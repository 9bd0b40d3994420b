------------------------------ MODULE Gateway ------------------------------
(* The launcher scripts/buzztalk-gateway: shells that run its commands on, off,
   status and toggle over one state file and the process table, while the
   daemon exits when it likes, process numbers are used again, and a shell may
   be interrupted between two of its steps.

   A process is known by its number and by the time it was started; two
   processes with one number never share a start time. The reads and looks of
   one owned_process are taken together.                                     *)
EXTENDS Naturals, FiniteSets

CONSTANTS
  Shells,         (* shells that run commands *)
  Pids,           (* process numbers *)
  MaxAttempts,    (* looks before KILL: 50 in the script *)
  MaxBirths,      (* bound: processes started *)
  MaxCommands,    (* bound: commands given *)
  MaxInterrupts   (* bound: commands cut short *)

ASSUME PidsAssumption == Pids \subseteq Nat \ {0}
ASSUME AttemptsAssumption == MaxAttempts \in Nat

VARIABLES
  record,         (* the state file *)
  procs,          (* the process table *)
  births,         (* the last start time given *)
  step,           (* where each shell is *)
  seen,           (* what it read of the state file, or launched *)
  attempts,       (* its looks while it waits for the end *)
  commands, interrupts,
  asof,           (* observation: the time of its last ownership check *)
  met,            (* observation: two commands have been under way at once *)
  cut             (* observation: start times of daemons whose launch was cut
                     short before it was recorded *)

shellVars == <<step, seen, attempts>>
observedGateway == <<asof, met, cut>>
gatewayVars == <<record, procs, births, shellVars, commands, interrupts, observedGateway>>

Nothing == [pid |-> 0, start |-> 0]
Identity == [pid : Pids, start : 1..MaxBirths] \cup {Nothing}
Free == [kind |-> "free", start |-> 0]

IsFree(pid) == procs[pid].kind = "free"

(* kill -0; an empty or forgotten number is nobody's. *)
Alive(id) == id.pid \in Pids /\ ~ IsFree(id.pid)

(* Mutated form: the number and the name of the program are enough. *)
OwnedByName(id) == Alive(id) /\ procs[id.pid].kind \in {"daemon", "stopping", "namesake"}

(* owned_process: alive, started when the record says, running the recorded
   program. *)
Owned(id) ==
  /\ Alive(id)
  /\ procs[id.pid].start = id.start
  /\ procs[id.pid].kind \in {"daemon", "stopping"}

Goto(s, next) == step' = [step EXCEPT ![s] = next]
Done(s, next) == Goto(s, next) /\ seen' = [seen EXCEPT ![s] = Nothing]

----------------------------------------------------------------------------
(* A command is given; toggle begins as a status of which only the exit code
   is kept. *)
Give(s, command) ==
  /\ step[s] = "rest" /\ commands < MaxCommands
  /\ commands' = commands + 1
  /\ Goto(s, command)
  /\ met' = (met \/ \E other \in Shells \ {s} : step[other] # "rest")
  /\ UNCHANGED <<record, procs, births, seen, attempts, interrupts, asof, cut>>

(* Nothing but the shell's own variables. *)
Quiet == UNCHANGED <<record, procs, births, commands, interrupts, met, cut>>

(* on_gateway: what is there? A record that cannot be verified but whose
   process is alive is left for the user. *)
OnLook(s) ==
  /\ step[s] = "on"
  /\ Goto(s, CASE record = Nothing -> "spawn"
               [] Owned(record) -> "rest"
               [] Alive(record) /\ ~ Owned(record) -> "rest"
               [] OTHER -> "on stale")
  /\ UNCHANGED <<seen, attempts, asof>> /\ Quiet

(* parse_config and resolve_binary come first: without a valid configuration,
   a readable key and an executable nothing is looked at. *)
Unconfigured(s) ==
  /\ step[s] = "on" /\ Goto(s, "rest")
  /\ UNCHANGED <<seen, attempts, asof>> /\ Quiet

RemoveState(s, stage, next) ==
  /\ step[s] = stage
  /\ record' = Nothing
  /\ Done(s, next)
  /\ attempts' = [attempts EXCEPT ![s] = 0]
  /\ asof' = [asof EXCEPT ![s] = 0]
  /\ UNCHANGED <<procs, births, commands, interrupts, met, cut>>

(* nohup buzztalkd &, and ps for its start time. *)
Spawn(s) ==
  /\ step[s] = "spawn" /\ births < MaxBirths
  /\ births' = births + 1
  /\ \E pid \in Pids :
       /\ IsFree(pid)
       /\ procs' = [procs EXCEPT ![pid] = [kind |-> "daemon", start |-> births']]
       /\ seen' = [seen EXCEPT ![s] = [pid |-> pid, start |-> births']]
  /\ Goto(s, "write")
  /\ UNCHANGED <<record, attempts, commands, interrupts, observedGateway>>

(* write_state: a temporary file and a rename. *)
WriteState(s) ==
  /\ step[s] = "write"
  /\ record' = seen[s]
  /\ Goto(s, "startup")
  /\ UNCHANGED <<procs, births, seen, attempts, commands, interrupts, observedGateway>>

(* After the wait the same process must be alive. *)
VerifyStartup(s) ==
  /\ step[s] = "startup"
  /\ IF Alive(seen[s]) /\ procs[seen[s].pid].start = seen[s].start
       THEN Done(s, "rest") ELSE Goto(s, "failed") /\ UNCHANGED seen
  /\ UNCHANGED <<attempts, asof>> /\ Quiet

(* status_gateway; toggle goes on with off if it ran, else with on. *)
StatusLook(s) ==
  LET stale == record # Nothing /\ ~ Alive(record)
  IN
  /\ step[s] \in {"status", "toggle"}
  /\ Goto(s, CASE stale -> IF step[s] = "status" THEN "status stale" ELSE "toggle stale"
               [] ~ stale /\ step[s] = "status" -> "rest"
               [] OTHER -> IF Owned(record) THEN "off" ELSE "on")
  /\ UNCHANGED <<seen, attempts, asof>> /\ Quiet

(* off_gateway: only what is owned goes on to be stopped. *)
OffLook(s) ==
  /\ step[s] = "off"
  /\ seen' = [seen EXCEPT ![s] = IF Owned(record) THEN record ELSE Nothing]
  /\ asof' = [asof EXCEPT ![s] = IF Owned(record) THEN births ELSE 0]
  /\ Goto(s, CASE record = Nothing -> "rest"
               [] Owned(record) -> "term"
               [] ~ Owned(record) /\ Alive(record) -> "rest"
               [] OTHER -> "forget")
  /\ UNCHANGED attempts /\ Quiet

(* What a signal does to the process that has the number now. *)
Signal(pid, kind) ==
  procs' = [procs EXCEPT ![pid] =
              CASE @.kind = "free" -> @
                [] kind = "TERM" /\ @.kind \in {"daemon", "stopping"} ->
                     [@ EXCEPT !.kind = "stopping"]
                [] OTHER -> Free]

Term(s) ==
  /\ step[s] = "term"
  /\ Signal(seen[s].pid, "TERM")
  /\ Goto(s, "wait")
  /\ UNCHANGED <<record, births, seen, attempts, commands, interrupts, observedGateway>>

(* Mutated form: the wait has no end. *)
WaitForEver(s) ==
  /\ step[s] = "wait"
  /\ IF Alive(seen[s]) THEN UNCHANGED step ELSE Goto(s, "forget")
  /\ UNCHANGED <<seen, attempts, asof>> /\ Quiet

(* Mutated form: the record goes as soon as TERM was sent. *)
WaitNoLonger(s) ==
  /\ step[s] = "wait" /\ Goto(s, "forget")
  /\ UNCHANGED <<seen, attempts, asof>> /\ Quiet

(* A tenth of a second at a time while some process has the number. *)
Wait(s) ==
  /\ step[s] = "wait"
  /\ CASE ~ Alive(seen[s]) -> Goto(s, "forget") /\ UNCHANGED attempts
       [] Alive(seen[s]) /\ attempts[s] < MaxAttempts ->
            attempts' = [attempts EXCEPT ![s] = @ + 1] /\ UNCHANGED step
       [] OTHER -> Goto(s, "kill") /\ UNCHANGED attempts
  /\ UNCHANGED <<seen, asof>> /\ Quiet

(* The last look is at the number alone. *)
Kill(s) ==
  /\ step[s] = "kill"
  /\ Signal(seen[s].pid, "KILL")
  /\ Goto(s, "forget")
  /\ UNCHANGED <<record, births, seen, attempts, commands, interrupts, observedGateway>>

ShellStep(s) ==
  \/ Unconfigured(s) \/ OnLook(s) \/ Spawn(s) \/ WriteState(s) \/ VerifyStartup(s)
  \/ StatusLook(s) \/ OffLook(s) \/ Term(s) \/ Wait(s) \/ Kill(s)
  \/ RemoveState(s, "on stale", "spawn") \/ RemoveState(s, "failed", "rest")
  \/ RemoveState(s, "status stale", "rest") \/ RemoveState(s, "toggle stale", "on")
  \/ RemoveState(s, "forget", "rest")

----------------------------------------------------------------------------
(* The user's key, a closed terminal, or a step that fails under set -e. *)
Interrupt(s) ==
  /\ step[s] # "rest" /\ interrupts < MaxInterrupts
  /\ interrupts' = interrupts + 1
  /\ cut' = IF step[s] = "write" THEN cut \cup {seen[s].start} ELSE cut
  /\ Done(s, "rest")
  /\ attempts' = [attempts EXCEPT ![s] = 0]
  /\ asof' = [asof EXCEPT ![s] = 0]
  /\ UNCHANGED <<record, procs, births, commands, met>>

(* A process ends, by itself or after TERM; a daemon may hang instead. *)
Exit(pid) ==
  /\ ~ IsFree(pid)
  /\ procs' = [procs EXCEPT ![pid] = Free]
  /\ UNCHANGED <<record, births, shellVars, commands, interrupts, observedGateway>>

(* Another program, or a daemon somebody started by hand, gets the number. *)
Reuse(pid, kind) ==
  /\ IsFree(pid) /\ births < MaxBirths
  /\ births' = births + 1
  /\ procs' = [procs EXCEPT ![pid] = [kind |-> kind, start |-> births']]
  /\ UNCHANGED <<record, shellVars, commands, interrupts, observedGateway>>

GatewayInit ==
  /\ record = Nothing
  /\ procs = [pid \in Pids |-> Free]
  /\ births = 0
  /\ step = [s \in Shells |-> "rest"]
  /\ seen = [s \in Shells |-> Nothing]
  /\ attempts = [s \in Shells |-> 0]
  /\ commands = 0 /\ interrupts = 0
  /\ asof = [s \in Shells |-> 0]
  /\ met = FALSE /\ cut = {}

GatewayNext ==
  \/ \E s \in Shells :
       \/ \E command \in {"on", "off", "status", "toggle"} : Give(s, command)
       \/ ShellStep(s) \/ Interrupt(s)
  \/ \E pid \in Pids : Exit(pid) \/ \E kind \in {"stranger", "namesake"} : Reuse(pid, kind)

(* A command that was given goes on, unless it is interrupted. *)
GatewaySpec ==
  /\ GatewayInit /\ [][GatewayNext]_gatewayVars
  /\ \A s \in Shells : WF_gatewayVars(ShellStep(s))

----------------------------------------------------------------------------
(* Properties. *)

Ours(pid) == procs[pid].kind \in {"daemon", "stopping"}

(* As long as commands do not meet, no daemon is lost sight of: one that runs
   is in the state file, or in the hands of the command that is launching it,
   or its launch was cut before it could be recorded. So `on` cannot start a
   second one. *)
DaemonIsKnown ==
  ~ met =>
    \A pid \in Pids : Ours(pid) =>
      LET id == [pid |-> pid, start |-> procs[pid].start] IN
      \/ record = id
      \/ \E s \in Shells : step[s] = "write" /\ seen[s] = id
      \/ id.start \in cut

(* Design document: "A reused PID or wrong process identity is never
   terminated."  Whoever loses the number to `off` while it works is the
   exception: no process that ran when `off` made its ownership check is ended
   by it, unless it is the daemon. *)
SparesStrangers ==
  [][\A s \in Shells, pid \in Pids :
       /\ step[s] \in {"term", "kill"} /\ step'[s] # step[s]
       /\ procs'[pid] = Free /\ ~ IsFree(pid) /\ ~ Ours(pid)
       => procs[pid].start > asof[s]]_gatewayVars

(* A daemon that does not heed TERM is killed: `off` comes to an end, and when
   it does the daemon it waited for is gone, unless it is cut short. *)
OffStops ==
  \A s \in Shells :
    (step[s] = "wait" /\ interrupts = MaxInterrupts)
      ~> (step[s] = "forget" /\ ~ Owned(seen[s]))
=============================================================================
