------------------------------ MODULE Upgrades -----------------------------
(***************************************************************************)
(* Chain upgrades as one node sees them.  An upgrade is scheduled by an    *)
(* event of the UpgradeEntrypoint contract or by a fork compiled into the  *)
(* binary.  Before the Terence height the event goes straight to the       *)
(* x/upgrade module, which refuses to run a binary that knows the upgrade  *)
(* before its height; from Terence on x/evmengine keeps the plan as        *)
(* pending and hands it over in the PreBlocker of its height.              *)
(*                                                                         *)
(* A PreBlocker that fails commits nothing: the node stops in the block,   *)
(* and after a restart (with another binary) runs it again.                *)
(***************************************************************************)
EXTENDS Integers, FiniteSets

CONSTANTS Names,          \* upgrade names that events carry
          Fork,           \* the name of the Terence fork
          TerenceHeight,
          NoPlan,
          MaxBlock        \* bound: the last block


VARIABLES height,   \* of the block in execution
          stage,    \* "pre": before PreBlocker, "events": after it,
                    \* "stopped": it failed
          plan,     \* the plan of x/upgrade
          pending,  \* the pending upgrade of x/evmengine
          done,     \* names x/upgrade has applied
          binary,   \* the names the running binary has handlers for
          reason,   \* why the node stopped
          accepted  \* history: plans of accepted events, neither cancelled nor applied

upgradesVars == <<height, stage, plan, pending, done, binary, reason, accepted>>

Plans == [name : Names \cup {Fork}, height : 1 .. MaxBlock]

ASSUME UpgradesAssumption ==
  /\ Fork \notin Names /\ NoPlan \notin Plans
  /\ MaxBlock \in Nat \ {0} /\ TerenceHeight \in Nat

UpgradesInit ==
  /\ height = 1 /\ stage = "pre"
  /\ plan = NoPlan /\ pending = NoPlan
  /\ done = {} /\ binary = {Fork}
  /\ reason = "none" /\ accepted = {}

IsTerence == height >= TerenceHeight

\* x/upgrade (external): ScheduleUpgrade refuses the past and what is done,
\* and overwrites the plan there is.
MaySchedule(p) == p.height >= height /\ p.name \notin done
-----------------------------------------------------------------------------
\* ShouldUpgrade
ShouldUpgradeExactly == pending # NoPlan /\ height = pending.height   \* mutant: a plan that is past stays

ShouldUpgrade == pending # NoPlan /\ height >= pending.height

\* The plan of x/upgrade when its own PreBlocker runs: scheduleForkUpgrade
\* first, then the pending upgrade if it is due.
PlanInPreBlockAtOnce ==   \* mutant: a pending upgrade is scheduled for the current height
  IF pending # NoPlan THEN [pending EXCEPT !.height = height]
  ELSE IF height = TerenceHeight THEN [name |-> Fork, height |-> height]
  ELSE plan

PlanInPreBlock ==
  IF ShouldUpgrade THEN pending
  ELSE IF height = TerenceHeight THEN [name |-> Fork, height |-> height]
  ELSE plan

\* Why PreBlocker fails, if it does.
PreBlockerError ==
  LET p == PlanInPreBlock
  IN  CASE ShouldUpgrade /\ ~MaySchedule(pending)                       -> "schedule"
        [] p # NoPlan /\ p.height <= height /\ p.name \notin binary     -> "needed"
        [] p # NoPlan /\ p.height > height /\ p.name \in binary         -> "early"
        [] OTHER                                                        -> "none"

\* App.PreBlocker, with the PreBlocker of x/upgrade (external) at its end.
PreBlocker ==
  /\ stage = "pre"
  /\ reason' = PreBlockerError
  /\ IF PreBlockerError # "none"
     THEN stage' = "stopped" /\ UNCHANGED <<plan, pending, done, accepted>>
     ELSE LET p   == PlanInPreBlock
              due == p # NoPlan /\ p.height <= height
          IN  /\ stage' = "events"
              /\ pending' = IF ShouldUpgrade THEN NoPlan ELSE pending
              /\ plan' = IF due THEN NoPlan ELSE p
              /\ done' = IF due THEN done \cup {p.name} ELSE done
              /\ accepted' = IF due THEN accepted \ {p} ELSE accepted
  /\ UNCHANGED <<height, binary>>

\* The event changes only the store it belongs to at this height.
SetPendingUpgradeInPast(p) ==   \* mutant: the height is not checked
  /\ pending = NoPlan
  /\ pending' = p /\ UNCHANGED plan

SetPendingUpgrade(p) ==
  /\ p.height >= height /\ pending = NoPlan
  /\ pending' = p /\ UNCHANGED plan

ScheduleUpgradeAlways(p) ==   \* mutant: Terence is not looked at
  MaySchedule(p) /\ plan' = p /\ UNCHANGED pending

ScheduleUpgrade(p) ==
  IF IsTerence THEN SetPendingUpgrade(p)
  ELSE MaySchedule(p) /\ plan' = p /\ UNCHANGED pending

ProcessSoftwareUpgrade(p) ==
  /\ stage = "events"
  /\ ScheduleUpgrade(p)
  /\ accepted' = IF IsTerence THEN accepted \cup {p} ELSE {p}
  /\ UNCHANGED <<height, stage, done, binary, reason>>

CancelUpgrade ==
  IF IsTerence THEN pending' = NoPlan /\ UNCHANGED plan
  ELSE plan' = NoPlan /\ UNCHANGED pending

ProcessCancelUpgrade ==
  /\ stage = "events"
  /\ CancelUpgrade
  /\ accepted' = {}
  /\ UNCHANGED <<height, stage, done, binary, reason>>

\* The block is committed and the next one begins.
Commit ==
  /\ stage = "events" /\ height < MaxBlock
  /\ height' = height + 1 /\ stage' = "pre"
  /\ UNCHANGED <<plan, pending, done, binary, reason, accepted>>

\* The operator installs the release for an upgrade and restarts the node,
\* at any time (external); releases keep the handlers of older upgrades.
InstallBinary(n) ==
  /\ n \notin binary
  /\ binary' = binary \cup {n}
  /\ stage' = IF stage = "stopped" THEN "pre" ELSE stage
  /\ reason' = "none"
  /\ UNCHANGED <<height, plan, pending, done, accepted>>

UpgradesNext ==
  \/ PreBlocker
  \/ \E n \in Names, h \in 1 .. MaxBlock :
       ProcessSoftwareUpgrade([name |-> n, height |-> h])
  \/ ProcessCancelUpgrade
  \/ Commit
  \/ \E n \in Names : InstallBinary(n)

UpgradesSpec == UpgradesInit /\ [][UpgradesNext]_upgradesVars

\* A running node executes its block, and an operator whose node stopped for
\* want of a release installs it.
FairSpec ==
  /\ UpgradesSpec
  /\ WF_upgradesVars(PreBlocker) /\ WF_upgradesVars(Commit)
  /\ WF_upgradesVars(reason = "needed" /\ InstallBinary(PlanInPreBlock.name))
-----------------------------------------------------------------------------
\* The stores hold what their keys may hold, and a node is stopped exactly when
\* its PreBlocker (app.go) has failed.
UpgradesTypeOK ==
  /\ height \in 1 .. MaxBlock
  /\ stage \in {"pre", "events", "stopped"}
  /\ reason \in {"none", "schedule", "needed", "early"}
  /\ (stage = "stopped") = (reason # "none")
  /\ plan \in Plans \cup {NoPlan} /\ pending \in Plans \cup {NoPlan}
  /\ done \subseteq Names \cup {Fork} /\ binary \subseteq Names \cup {Fork}
  /\ accepted \subseteq Plans

\* The rolling upgrade Terence promises ("with single binary"): from the
\* Terence block on a release installed ahead of its upgrade never stops the
\* node, because x/upgrade holds no plan outside the PreBlocker that applies it.
RollingUpgrade ==
  IsTerence /\ stage # "pre" => reason # "early" /\ plan = NoPlan

\* There is one upgrade in the offing, in one place: a plan in x/evmengine
\* and one in x/upgrade never wait at the same time, and whatever waits was
\* asked for by an event that is neither cancelled nor done.
OneUpgradeWaits ==
  /\ plan = NoPlan \/ pending = NoPlan
  /\ {plan, pending} \ {NoPlan} \subseteq accepted

\* An upgrade is applied by a binary that knows it, never before its height,
\* and after it only in the next block (an event accepted before Terence at
\* the height it names).
AppliedOnTime ==
  [][\A n \in (done' \ done) \cap Names :
       /\ n \in binary
       /\ \E p \in accepted : p.name = n /\ height - p.height \in {0, 1}]_upgradesVars

\* The chain can stop for good in PreBlocker only for a pending upgrade whose
\* height was already running when its event was accepted, or whose name had
\* been applied before.
HaltsOnlyOnUnschedulable ==
  reason = "schedule" =>
    \/ pending.height = height - 1
    \/ pending.name \in done

\* evmengine/README.md:177: the event schedules an upgrade at the given height.
\* Once that height is over, an accepted and uncancelled upgrade was applied,
\* unless the node is waiting for its release.
ScheduledUpgradeIsApplied ==
  stage # "pre" /\ reason # "needed" => \A p \in accepted : p.height >= height

\* An upgrade that is handed to x/evmengine is applied, cancelled, or known to
\* be unschedulable, if the operator follows: a node that stopped for want of
\* a release goes on from the block it stopped in.  (At MaxBlock there is no
\* next block to look at.)
PendingIsResolved ==
  \A n \in Names, h \in 1 .. MaxBlock - 1 :
    (pending = [name |-> n, height |-> h])
      ~> (pending # [name |-> n, height |-> h] \/ reason = "schedule" \/ n \in done)
=============================================================================
