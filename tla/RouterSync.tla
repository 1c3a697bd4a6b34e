----------------------------- MODULE RouterSync -----------------------------
(***************************************************************************)
(* The router commands of one stage: syncing the generated routing,        *)
(* shifting traffic to a canary, the sync at the end of a plain deploy,    *)
(* and restoring an earlier routing from the history of snapshots          *)
(* (internal/cli/router/router.go, platform/workflow/app/router_sync.go,   *)
(* router_fabric_ops.go and router_history.go,                             *)
(* platform/core/state/core/router_sync.go).                               *)
(*                                                                         *)
(* The commands are processes that share the provider's routing and the    *)
(* history file, and take no lock.  A slot of Slots runs one command after *)
(* another; the setting bounds how many there are in all.  What a provider *)
(* holds is reduced to the routing in force, Mixed when a sync got only    *)
(* part of its resources through.                                          *)
(***************************************************************************)
EXTENDS RouterSteering

CONSTANTS
    Slots,      \* commands that may run at the same time
    Settings,   \* endpoints, scoring, canary; shifts, slots and runs used
    Mixed,      \* in force after a sync that failed halfway
    Nothing,    \* in force before the first sync
    Faults,     \* what may go wrong: "plugin", "history", "crash"
    Keep        \* how many snapshots the history keeps (30)

ASSUME KeepAssumption == Keep \in Nat \ {0}

(* Without endpoints there is nothing to sync.  Scoring and canary are     *)
(* empty when they are switched off, the canary also when it names none of *)
(* the endpoints; any number may be configured or asked for.               *)
ASSUME SettingsAssumption ==
    \A s \in Settings :
        /\ s.endpoints \in Nat \ {0}
        /\ s.scoring = <<>> \/ s.scoring \in [1..s.endpoints -> Int]
        /\ s.canary = <<>> \/ s.canary \in (1..s.endpoints) \X Int
        /\ s.shifts \subseteq (Nat \ {0}) \X Int

VARIABLES
    setting,    \* the configuration of the stage
    dns,        \* the routing in force
    history,    \* .runfabric/router-sync-<stage>.json
    pc,         \* per slot: the next step of its command, or idle
    cmd,        \* per slot: the command it runs
    before,     \* per slot: the routing in force that its preview saw
    seen,       \* per slot: the history as its command read it
    runs,       \* commands started so far; the id of the newest
    applies,    \* history variable: the routings put in force, in order
    saves,      \* history variable: the snapshots saved, in order
    exposed,    \* history variable: ids saved during another's append
    disturbed   \* history variable: an apply overlapped or went unrecorded

commands == <<pc, cmd, before, seen>>
vars == <<setting, dns, history, commands, runs, applies, saves, exposed, disturbed>>

(* What a command is called for.  A shift names an endpoint and a          *)
(* percentage.                                                             *)
(* guard says what stands between it and the provider: the mutation policy *)
(* of the command line, with or without an approval, or nothing for the    *)
(* daemon, the deploy pipeline and every dry run.                          *)
Orders ==
    {o \in [kind : {"sync", "deploy", "shift", "previous", "latest"},
            shift : setting.shifts \cup {<<>>}, dry : BOOLEAN,
            guard : {"none", "unapproved", "approved"}] :
        /\ o.kind = "shift" <=> o.shift # <<>>
        /\ o.kind = "deploy" \/ o.dry => o.guard = "none"}

Snapshot(c) == [id |-> cmd[c].id, routing |-> cmd[c].routing, dry |-> cmd[c].order.dry]

Init ==
    /\ setting \in Settings
    /\ dns = Nothing
    /\ history = <<>>
    /\ pc = [c \in Slots |-> "idle"]
    /\ cmd = [c \in Slots |-> Nothing]
    /\ before = [c \in Slots |-> Nothing]
    /\ seen = [c \in Slots |-> <<>>]
    /\ runs = 0
    /\ applies = <<>>
    /\ saves = <<>>
    /\ exposed = {}
    /\ disturbed = FALSE

-----------------------------------------------------------------------------
(* The places of the snapshots that were applied, not dry runs.            *)
Applied(h) == {i \in DOMAIN h : ~h[i].dry}

Last(places) == CHOOSE i \in places : \A j \in places : j <= i

(* SelectRouterRestoreSnapshot without an id: there is one to choose.      *)
Restorable(kind, h) ==
    IF kind = "latest" THEN h # <<>> ELSE Applied(h) # {}

MutantSelectNewest(kind, h) ==
    IF kind = "latest" THEN h[Len(h)] ELSE h[Last(Applied(h))]

(* The one before the last that was applied, or the only one.              *)
SelectRouterRestoreSnapshot(kind, h) ==
    IF kind = "latest" THEN h[Len(h)]
    ELSE LET earlier == Applied(h) \ {Last(Applied(h))}
         IN  h[Last(IF earlier = {} THEN Applied(h) ELSE earlier)]

(* The routings a command can set out to sync.                             *)
Desired(order) ==
    LET generated == Generated(setting.endpoints, setting.scoring, setting.canary)
    IN  CASE order.kind = "sync" -> generated
          [] order.kind = "deploy" -> {<<1>>}
          [] order.kind \in {"previous", "latest"} ->
                {SelectRouterRestoreSnapshot(order.kind, history).routing}
          [] order.kind = "shift" ->
                UNION {ApplyCanaryWeights(w, order.shift[1], order.shift[2]) :
                       w \in generated}

(* A restore has to find a snapshot; a shift has to find its endpoint, and *)
(* another one.                                                            *)
MayStart(order) ==
    /\ order.kind \in {"previous", "latest"} => Restorable(order.kind, history)
    /\ order.kind = "shift" =>
          setting.endpoints >= 2 /\ order.shift[1] <= setting.endpoints

Goes(c, step) == pc' = [pc EXCEPT ![c] = step]

(* The command ends, whatever it answers.                                  *)
Ends(c) ==
    /\ Goes(c, "idle")
    /\ cmd' = [cmd EXCEPT ![c] = Nothing]
    /\ before' = [before EXCEPT ![c] = Nothing]
    /\ seen' = [seen EXCEPT ![c] = <<>>]

(* Up to the first call of the router plugin.  The command line previews   *)
(* what it is about to apply, the daemon and the deploy pipeline do not.   *)
Start(c, order) ==
    /\ pc[c] = "idle" /\ c \in setting.slots
    /\ runs < setting.runs
    /\ MayStart(order)
    /\ \E w \in Desired(order) :
          cmd' = [cmd EXCEPT ![c] = [order |-> order, id |-> runs + 1, routing |-> w]]
    /\ Goes(c, IF order.guard = "none" THEN "sync" ELSE "preview")
    /\ runs' = runs + 1
    /\ UNCHANGED <<setting, dns, history, before, seen, applies, saves, exposed, disturbed>>

MutantMutationAllowed(c) == TRUE

(* enforceRouterMutationPolicy, under a policy that asks for an approval   *)
(* of every mutation: the preview found none, or there is an approval.     *)
MutationAllowed(c) == cmd[c].routing = dns \/ cmd[c].order.guard = "approved"

(* previewRouterDNSSync, and the policy applied to what it found.          *)
Preview(c) ==
    /\ pc[c] = "preview"
    /\ \/ /\ MutationAllowed(c)
          /\ Goes(c, "sync")
          /\ before' = [before EXCEPT ![c] = dns]
          /\ UNCHANGED <<cmd, seen>>
       \/ /\ ~MutationAllowed(c) \/ "plugin" \in Faults
          /\ Ends(c)
    /\ UNCHANGED <<setting, dns, history, runs, applies, saves, exposed, disturbed>>

Recording == {c \in Slots : pc[c] \in {"load", "save"} /\ ~cmd[c].order.dry}

(* SyncRouter: every resource is brought in line with the routing.         *)
SyncRouter(c) ==
    /\ pc[c] = "sync"
    /\ Goes(c, "load")
    /\ UNCHANGED <<cmd, before, seen>>
    /\ IF cmd[c].order.dry
       THEN UNCHANGED <<dns, applies, disturbed>>
       ELSE /\ dns' = cmd[c].routing
            /\ applies' = Append(applies, cmd[c].routing)
            /\ disturbed' = (disturbed \/ Recording # {})
    /\ UNCHANGED <<setting, history, runs, saves, exposed>>

(* The plugin fails, with none, some or all of its changes made.           *)
SyncFails(c) ==
    /\ pc[c] = "sync"
    /\ "plugin" \in Faults
    /\ Ends(c)
    /\ IF cmd[c].order.dry
       THEN UNCHANGED <<dns, disturbed>>
       ELSE /\ dns' \in {dns, Mixed, cmd[c].routing}
            /\ disturbed' = TRUE
    /\ UNCHANGED <<setting, history, runs, applies, saves, exposed>>

(* AppendRouterSyncSnapshot reads the history ...                          *)
LoadRouterSyncHistory(c) ==
    /\ pc[c] = "load"
    /\ seen' = [seen EXCEPT ![c] = history]
    /\ Goes(c, "save")
    /\ UNCHANGED <<cmd, before, setting, dns, history, runs, applies, saves, exposed, disturbed>>

Newest(h, n) == SubSeq(h, Larger(1, Len(h) - n + 1), Len(h))

MutantTrimmed(h) == SubSeq(h, 1, IF Len(h) > Keep THEN Keep ELSE Len(h))

Trimmed(h) == IF Len(h) > Keep THEN Newest(h, Keep) ELSE h

(* ... and replaces the file by what it read and one snapshot more.        *)
SaveRouterSyncHistory(c) ==
    /\ pc[c] = "save"
    /\ history' = Trimmed(Append(seen[c], Snapshot(c)))
    /\ saves' = Append(saves, cmd[c].id)
    /\ LET open == {d \in Slots \ {c} : pc[d] = "save"}
       IN  /\ exposed' = IF open # {} THEN exposed \cup {cmd[c].id} ELSE exposed
           /\ disturbed' = (disturbed \/ open # {})
    /\ Ends(c)
    /\ UNCHANGED <<setting, dns, runs, applies>>

(* Reading or writing the file fails, or the process dies: the routing     *)
(* stays in force without a snapshot.                                      *)
AppendFails(c) ==
    /\ \/ pc[c] \in {"load", "save"} /\ "history" \in Faults
       \/ pc[c] # "idle" /\ "crash" \in Faults
    /\ disturbed' = (disturbed \/ c \in Recording)
    /\ Ends(c)
    /\ UNCHANGED <<setting, dns, history, runs, applies, saves, exposed>>

Next ==
    \E c \in Slots :
        \/ \E order \in Orders : Start(c, order)
        \/ Preview(c) \/ SyncRouter(c) \/ SyncFails(c)
        \/ LoadRouterSyncHistory(c) \/ SaveRouterSyncHistory(c) \/ AppendFails(c)

Spec == Init /\ [][Next]_vars

-----------------------------------------------------------------------------
Busy(c, kinds) == pc[c] # "idle" /\ cmd[c].order.kind \in kinds

(* The command's weights were computed, not left as they are generated.    *)
Steered(c) ==
    \/ Busy(c, {"shift"})
    \/ Busy(c, {"sync"}) /\ setting.scoring # <<>>
    \/ Busy(c, {"sync"}) /\ setting.canary # <<>> /\ setting.endpoints >= 2

(* Whatever multipliers and percentages go in, the weights that scoring    *)
(* and canary shifts hand to the router plugin add up to 100 with nobody   *)
(* at zero, or are one each when there are more endpoints than that: the   *)
(* corrections of rebalanceEndpointWeights make up for every rounding.     *)
WeightsTotal ==
    \A c \in Slots : Steered(c) =>
        LET w == cmd[c].routing
        IN  /\ \A i \in DOMAIN w : w[i] >= 1
            /\ SumOf(w) = Larger(Total, Len(w))

(* A shifted canary ends up within one unit per other endpoint of the      *)
(* share it was asked to have and could have, although its weight takes    *)
(* part in the rebalancing (ApplyCanaryWeights).                           *)
CanaryShare ==
    \A c \in Slots : Busy(c, {"shift"}) =>
        LET shift == cmd[c].order.shift
            w == cmd[c].routing
            error == w[shift[1]] - CanaryPercent(w, shift[2])
        IN  error \in -(Len(w) - 1)..(Len(w) - 1)

(* A snapshot that was saved and is gone from the history was pushed out   *)
(* by Keep newer ones, or was saved while another command was between its  *)
(* read and its write of the file (AppendRouterSyncSnapshot).              *)
SnapshotKept ==
    \A i \in DOMAIN saves :
        \/ \E j \in DOMAIN history : history[j].id = saves[i]
        \/ saves[i] \in exposed
        \/ Len(saves) - i >= Keep

(* Between commands, and as long as every apply was recorded before the    *)
(* next, restoring goes back to the routing before the one in force, if    *)
(* the history still has two applied snapshots: dry runs never shift what  *)
(* "previous" means (newRouteDNSRestoreCmd).                               *)
RestoreGoesBack ==
    (~disturbed /\ Recording = {} /\ \E i, j \in Applied(history) : i # j) =>
        SelectRouterRestoreSnapshot("previous", history).routing
            = applies[Len(applies) - 1]

(* A router command without the approval its mutation policy asks for      *)
(* changes the routing in force only if another command changed it after   *)
(* the preview (runRouterDNSSyncWithPolicy).                               *)
UnapprovedOnlyByOverlap ==
    [][\A c \in Slots :
        (SyncRouter(c) /\ cmd[c].order.guard = "unapproved")
            => dns' = dns \/ dns # before[c]]_vars
=============================================================================
