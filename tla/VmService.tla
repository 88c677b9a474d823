------------------------------ MODULE VmService ------------------------------
(***************************************************************************)
(* The QEMU VMs of the app: VmService.kt, the buttons of MainActivity.kt   *)
(* that drive it, and NativeVmLauncher.kt.                                 *)
(*                                                                         *)
(* Buttons, intents and the service's callbacks all run on the app's main  *)
(* thread, so each is one action.  What happens between them is not in     *)
(* the app's hands: Android delivers a start intent some time after the    *)
(* tap and destroys the service when it is neither started nor bound, a    *)
(* QEMU process takes its time to end, and the whole app may be killed.    *)
(* Disk imports and deletions run on threads of their own.                 *)
(***************************************************************************)
EXTENDS Naturals, Sequences, FiniteSets

CONSTANTS
  Arches,       \* ARCH_ARM64, ARCH_X86_64
  ARCH_ARM64,   \* the arch of an intent that names none
  MaxTaps       \* bound: taps on the Start of an arch

ASSUME VmAssumption == ARCH_ARM64 \in Arches /\ MaxTaps \in Nat

VARIABLES
  created,      \* the service object exists
  started,      \* Android holds it as started
  bound,        \* MainActivity is open and bound to it
  intents,      \* start intents on their way
  processes,    \* VmService.processes: the registered QEMU, 0 for none
  qemu,         \* every QEMU process launched so far
  disk,         \* arches whose slot has a rootfs.qcow2
  taps          \* history: taps on Start

vmVars == <<created, started, bound, intents, processes, qemu, disk, taps>>

QemuStates == {"alive", "dying", "gone"}   \* "dying": destroy() was called
Qemu == [arch : Arches, state : QemuStates]

(* isRunning: a process that was destroyed but has not ended is alive.     *)
IsAlive(p) == p # 0 /\ qemu[p].state # "gone"
IsRunning(a) == IsAlive(processes[a])

(* destroy() of the processes P.                                           *)
Destroyed(P) ==
  [p \in 1..Len(qemu) |->
     IF p \in P /\ qemu[p].state = "alive" THEN [qemu[p] EXCEPT !.state = "dying"]
     ELSE qemu[p]]

-----------------------------------------------------------------------------
(* MainActivity.onCreate binds, which creates the service.                 *)
OpenMain ==
  /\ ~bound
  /\ bound' = TRUE /\ created' = TRUE
  /\ UNCHANGED <<started, intents, processes, qemu, disk, taps>>

(* MainActivity.onDestroy.                                                 *)
CloseMain ==
  /\ bound
  /\ bound' = FALSE
  /\ UNCHANGED <<created, started, intents, processes, qemu, disk, taps>>

(* Start: refused without a disk image, else startForegroundService.       *)
StartTap(a) ==
  /\ bound
  /\ a \in disk
  /\ taps[a] < MaxTaps
  /\ intents' = Append(intents, a)
  /\ started' = TRUE
  /\ taps' = [taps EXCEPT ![a] = @ + 1]
  /\ UNCHANGED <<created, bound, processes, qemu, disk>>

(* Stop: stopVm of a VM that is running.  The service stops itself when    *)
(* nothing is registered any more.                                         *)
StopTap(a) ==
  /\ bound
  /\ IsRunning(a)
  /\ qemu' = Destroyed({processes[a]})
  /\ processes' = [processes EXCEPT ![a] = 0]
  /\ started' = (started /\ \E b \in Arches : processes'[b] # 0)
  /\ UNCHANGED <<created, bound, intents, disk, taps>>

(* The import thread has created the file.                                 *)
Import(a) ==
  /\ a \notin disk
  /\ disk' = disk \cup {a}
  /\ UNCHANGED <<created, started, bound, intents, processes, qemu, taps>>

(* The diskIo thread has deleted the slot, whether its VM runs or not, or  *)
(* as much of it as it could.                                              *)
Clear(a) ==
  /\ disk' \in {disk, disk \ {a}}
  /\ UNCHANGED <<created, started, bound, intents, processes, qemu, taps>>

-----------------------------------------------------------------------------
(* Mutant: does not look whether a VM is running.                          *)
Launch_Again(a) ==
  /\ qemu' = Append(qemu, [arch |-> a, state |-> "alive"])
  /\ processes' = [processes EXCEPT ![a] = Len(qemu) + 1]

(* NativeVmLauncher.start launches QEMU, which is registered.              *)
Launch(a) ==
  /\ ~IsRunning(a)
  /\ qemu' = Append(qemu, [arch |-> a, state |-> "alive"])
  /\ processes' = [processes EXCEPT ![a] = Len(qemu) + 1]

(* The VM runs already, startForeground was refused, the command could not *)
(* be built (its firmware not copied) or QEMU not executed: no VM is       *)
(* registered, and one that was stays.                                     *)
NoLaunch(a) == UNCHANGED <<qemu, processes>>

(* A null intent stands for ARCH_ARM64.                                    *)
OnStartCommand ==
  /\ intents # <<>>
  /\ intents' = Tail(intents)
  /\ \/ Launch(Head(intents))
     \/ NoLaunch(Head(intents))
  /\ UNCHANGED <<created, started, bound, disk, taps>>

(* Android ends a service that is neither started nor bound, after the     *)
(* intents it has sent to it: onDestroy.                                   *)
OnDestroy ==
  /\ created /\ ~started /\ ~bound /\ intents = <<>>
  /\ created' = FALSE
  /\ qemu' = Destroyed({processes[a] : a \in Arches})
  /\ processes' = [a \in Arches |-> 0]
  /\ UNCHANGED <<started, bound, intents, disk, taps>>

(* A process ends: told to, by itself or because the guest shut down.      *)
QemuExits(p) ==
  /\ qemu[p].state # "gone"
  /\ qemu' = [qemu EXCEPT ![p].state = "gone"]
  /\ UNCHANGED <<created, started, bound, intents, processes, disk, taps>>

(* Mutant: START_STICKY.  Android restarts the service with a null intent. *)
Restarted_Sticky == IF started THEN <<ARCH_ARM64>> ELSE <<>>

(* START_NOT_STICKY: a killed service is not restarted.                    *)
Restarted == <<>>

(* Android kills the app with its processes.                               *)
AppKilled ==
  /\ created
  /\ created' = (Restarted # <<>>) /\ started' = (Restarted # <<>>) /\ bound' = FALSE
  /\ intents' = Restarted
  /\ processes' = [a \in Arches |-> 0]
  /\ qemu' = [p \in 1..Len(qemu) |-> [qemu[p] EXCEPT !.state = "gone"]]
  /\ UNCHANGED <<disk, taps>>

VmInit ==
  /\ created = FALSE /\ started = FALSE /\ bound = FALSE
  /\ intents = <<>>
  /\ processes = [a \in Arches |-> 0]
  /\ qemu = <<>>
  /\ disk = {}
  /\ taps = [a \in Arches |-> 0]

VmNext ==
  \/ OpenMain \/ CloseMain
  \/ \E a \in Arches : StartTap(a) \/ StopTap(a) \/ Import(a) \/ Clear(a)
  \/ OnStartCommand \/ OnDestroy
  \/ \E p \in 1..Len(qemu) : QemuExits(p)
  \/ AppKilled

VmSpec == VmInit /\ [][VmNext]_vmVars

-----------------------------------------------------------------------------
(* Type invariant of the VM service.                                       *)
VmTypeOK ==
  /\ created \in BOOLEAN /\ started \in BOOLEAN /\ bound \in BOOLEAN
  /\ intents \in Seq(Arches)
  /\ processes \in [Arches -> 0..Len(qemu)]
  /\ qemu \in Seq(Qemu)
  /\ disk \subseteq Arches
  /\ taps \in [Arches -> Nat]

(* No VM gets out of hand: every QEMU that nobody told to end is the one   *)
(* registered for its arch, where Stop and onDestroy find it, although     *)
(* VMs crash, Start is tapped twice, intents arrive late and the service   *)
(* goes and comes.                                                         *)
RunningIsRegistered ==
  \A p \in 1..Len(qemu) : qemu[p].state = "alive" => processes[qemu[p].arch] = p

(* A VM runs only if its Start was tapped, once for every VM, also when    *)
(* Android kills the app (the comment on START_NOT_STICKY fears a "second, *)
(* wrong-architecture VM").                                                *)
EveryVmWasAskedFor ==
  \A a \in Arches :
    Cardinality({p \in 1..Len(qemu) : qemu[p].arch = a}) <= taps[a]

(* Never two QEMU processes of one arch, which would share a disk image    *)
(* and a port (README.md 17: "one QEMU process per architecture            *)
(* simultaneously").                                                       *)
OneQemuPerArch ==
  \A p, r \in 1..Len(qemu) :
    (p # r /\ qemu[p].state # "gone" /\ qemu[r].state # "gone")
      => qemu[p].arch # qemu[r].arch

=============================================================================
