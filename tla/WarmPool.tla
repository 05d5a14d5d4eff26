-------------------------------- MODULE WarmPool --------------------------------
(***************************************************************************)
(* The warm pool of one AgentSpec (internal/warmpool/manager.go).  The     *)
(* Queen's loop and the maintenance loop fill the pool, the maintenance    *)
(* loop shrinks and removes it when it is idle, a client takes drones and  *)
(* brings them back.  The lock of a pool covers single steps: every one of *)
(* these works with a size, or with a pool, that it read before.           *)
(***************************************************************************)
EXTENDS Fleet, Sequences, SequencesExt

CONSTANTS
    Sizes,      \* the minimum sizes asked for
    PoolBound   \* bound of the model: pools made one after the other

ASSUME SizesAssumption == Sizes \subseteq Int

NoPool == 0

VARIABLES
    warmPools,  \* the pool under the AgentSpec's key, or NoPool
    pools,      \* every pool object made
    filler,     \* the two goroutines that may be in fillPool
    cleanup,    \* the cleanup steps the maintenance loop still has to take
    victims,    \* the drones scaleDownPool has taken out and not yet deleted
    lent,       \* drones handed out by GetWarmDrone
    client      \* the call of the client under way

warmpool == <<warmPools, pools, filler, cleanup, victims, lent, client>>

Fillers == {"queen", "maintenance"}
AtRest == [step |-> "rest", pool |-> NoPool, min |-> 0, hand |-> 0]
NoCall == [step |-> "rest", pool |-> NoPool, drone |-> 0]

WarmPoolInit ==
    /\ warmPools = NoPool /\ pools = <<>>
    /\ filler = [a \in Fillers |-> AtRest]
    /\ cleanup = <<>> /\ victims = <<>>
    /\ lent = {} /\ client = NoCall

WarmDrones(i) == pools[i].drones
CurrentSize(i) == Len(WarmDrones(i))

\* `idle` is the time since LastUsed, in idle timeouts, up to 2; `top` the
\* largest minimum so far, which the code does not keep.
NewPool(min) == [min |-> min, drones |-> <<>>, idle |-> 0, top |-> AtLeast(min, 0)]

PutDrones(i, ds, idle) ==
    pools' = [pools EXCEPT ![i] = [min |-> @.min, drones |-> ds, idle |-> idle, top |-> @.top]]

TimePasses ==
    /\ warmPools # NoPool
    /\ pools[warmPools].idle < 2
    /\ pools' = [pools EXCEPT ![warmPools].idle = @ + 1]
    /\ UNCHANGED <<warmPools, filler, cleanup, victims, lent, client, fleet>>

--------------------------------------------------------------------------------
(* Filling.                                                                *)

EnsurePool(min) ==
    /\ filler["queen"].step = "rest"
    /\ IF warmPools = NoPool
       THEN /\ Len(pools) < PoolBound
            /\ pools' = Append(pools, NewPool(min))
            /\ warmPools' = Len(pools')
       ELSE /\ pools' = [pools EXCEPT ![warmPools] =
                             [min |-> min, drones |-> @.drones, idle |-> 0,
                              top |-> AtLeast(@.top, min)]]
            /\ UNCHANGED warmPools
    /\ filler' = [filler EXCEPT !["queen"] =
                      [step |-> "size", pool |-> warmPools', min |-> min, hand |-> 0]]
    /\ UNCHANGED <<cleanup, victims, lent, client, fleet>>

\* The maintenance loop's tick: maintainPools, and afterwards cleanupIdlePools.
MaintainPools ==
    /\ filler["maintenance"].step = "rest"
    /\ warmPools # NoPool
    /\ filler' = [filler EXCEPT !["maintenance"] =
                      [step |-> "size", pool |-> warmPools, min |-> pools[warmPools].min,
                       hand |-> 0]]
    /\ UNCHANGED <<warmPools, pools, cleanup, victims, lent, client, fleet>>

EndFill(a) ==
    filler' = [filler EXCEPT ![a] = IF a = "maintenance" THEN [AtRest EXCEPT !.step = "identify"]
                                    ELSE AtRest]

OtherThanFill == UNCHANGED <<warmPools, cleanup, victims, lent, client>>

\* The size is compared with the minimum the call came with.
Filled(a) ==
    /\ filler[a].step = "size"
    /\ CurrentSize(filler[a].pool) >= filler[a].min
    /\ EndFill(a)
    /\ UNCHANGED <<pools, fleet>> /\ OtherThanFill

LaunchWarm(a) ==
    /\ filler[a].step = "size"
    /\ CurrentSize(filler[a].pool) < filler[a].min
    /\ Obtain
    /\ filler' = [filler EXCEPT ![a].step = "record", ![a].hand = launched']
    /\ UNCHANGED pools /\ OtherThanFill

FillFails(a) ==
    /\ \/ /\ filler[a].step = "size"
          /\ CurrentSize(filler[a].pool) < filler[a].min
          /\ \/ ~Fits /\ UNCHANGED fleet
             \/ ObtainFails
       \/ filler[a].step = "record" /\ RecordFails(filler[a].hand)
    /\ EndFill(a)
    /\ UNCHANGED pools /\ OtherThanFill

RecordWarm(a) ==
    /\ filler[a].step = "record"
    /\ Record(filler[a].hand, TRUE)
    /\ filler' = [filler EXCEPT ![a].step = "ready"]
    /\ UNCHANGED pools /\ OtherThanFill

\* Two seconds later the drone counts as running, and joins the pool even
\* when its record is gone.
Ready(a) ==
    /\ filler[a].step = "ready"
    /\ MarkRunning(filler[a].hand)
    /\ filler' = [filler EXCEPT ![a].step = "add"]
    /\ UNCHANGED pools /\ OtherThanFill

\* Mutant: the size is not looked at again.
AddUnchecked(a) ==
    LET f == filler[a] IN
    /\ f.step = "add"
    /\ PutDrones(f.pool, Append(WarmDrones(f.pool), f.hand), pools[f.pool].idle)
    /\ filler' = [filler EXCEPT ![a].step = "size", ![a].hand = 0]
    /\ UNCHANGED fleet /\ OtherThanFill

Add(a) ==
    LET f == filler[a] IN
    /\ f.step = "add"
    /\ IF CurrentSize(f.pool) < f.min
       THEN /\ PutDrones(f.pool, Append(WarmDrones(f.pool), f.hand), pools[f.pool].idle)
            /\ filler' = [filler EXCEPT ![a].step = "size", ![a].hand = 0]
            /\ UNCHANGED fleet
       ELSE Discard(f.hand) /\ EndFill(a) /\ UNCHANGED pools
    /\ OtherThanFill

--------------------------------------------------------------------------------
(* cleanupIdlePools.                                                       *)

Identify ==
    LET i == warmPools
        shrink == i # NoPool /\ pools[i].idle > 0 /\ CurrentSize(i) > pools[i].min
        drop == i # NoPool /\ pools[i].idle > 1 /\ pools[i].min = 0
    IN  /\ filler["maintenance"].step = "identify"
        /\ cleanup' =
             (IF shrink THEN <<[pool |-> i, count |-> CurrentSize(i) - pools[i].min,
                                remove |-> FALSE]>> ELSE <<>>) \o
             (IF drop THEN <<[pool |-> i, count |-> CurrentSize(i), remove |-> TRUE]>> ELSE <<>>)
        /\ filler' = [filler EXCEPT !["maintenance"] =
                          IF shrink \/ drop THEN [AtRest EXCEPT !.step = "shrink"] ELSE AtRest]
        /\ UNCHANGED <<warmPools, pools, victims, lent, client, fleet>>

\* Mutant: the drones leave the pool only after they were deleted.
ShrinkLate ==
    LET i == Head(cleanup).pool
        n == IF Head(cleanup).count > CurrentSize(i) THEN CurrentSize(i) ELSE Head(cleanup).count
    IN  /\ filler["maintenance"].step = "shrink"
        /\ victims' = SubSeq(WarmDrones(i), 1, n)
        /\ filler' = [filler EXCEPT !["maintenance"].step = "discard"]
        /\ UNCHANGED <<warmPools, pools, cleanup, lent, client, fleet>>

\* scaleDownPool takes the drones out under the lock and deletes them after.
Shrink ==
    LET i == Head(cleanup).pool
        n == IF Head(cleanup).count > CurrentSize(i) THEN CurrentSize(i) ELSE Head(cleanup).count
    IN  /\ filler["maintenance"].step = "shrink"
        /\ victims' = SubSeq(WarmDrones(i), 1, n)
        /\ PutDrones(i, SubSeq(WarmDrones(i), n + 1, CurrentSize(i)), pools[i].idle)
        /\ filler' = [filler EXCEPT !["maintenance"].step = "discard"]
        /\ UNCHANGED <<warmPools, cleanup, lent, client, fleet>>

DiscardVictim ==
    /\ filler["maintenance"].step = "discard"
    /\ victims # <<>>
    /\ Discard(Head(victims))
    /\ victims' = Tail(victims)
    /\ UNCHANGED <<warmPools, pools, filler, cleanup, lent, client>>

\* A pool that was found idle is removed, used again meanwhile or not.
EndCleanup ==
    /\ filler["maintenance"].step = "discard"
    /\ victims = <<>>
    /\ warmPools' = IF Head(cleanup).remove THEN NoPool ELSE warmPools
    /\ cleanup' = Tail(cleanup)
    /\ filler' = [filler EXCEPT !["maintenance"] =
                      IF Tail(cleanup) = <<>> THEN AtRest ELSE [AtRest EXCEPT !.step = "shrink"]]
    /\ UNCHANGED <<pools, victims, lent, client, fleet>>

--------------------------------------------------------------------------------
(* GetWarmDrone and ReturnDrone.                                           *)

AskDrone ==
    /\ client.step = "rest"
    /\ warmPools # NoPool
    /\ client' = [step |-> "take", pool |-> warmPools, drone |-> 0]
    /\ UNCHANGED <<warmPools, pools, filler, cleanup, victims, lent, fleet>>

\* A drone that turns out not to run is dropped.
GetWarmDrone ==
    LET i == client.pool
        first == Head(WarmDrones(i))
    IN  /\ client.step = "take"
        /\ IF WarmDrones(i) = <<>> THEN UNCHANGED <<pools, lent>>
           ELSE /\ PutDrones(i, Tail(WarmDrones(i)), 0)
                /\ lent' = IF IsRunning(first) THEN lent \cup {first} ELSE lent
        /\ client' = NoCall
        /\ UNCHANGED <<warmPools, filler, cleanup, victims, fleet>>

BringBack(p) ==
    /\ client.step = "rest"
    /\ p \in lent
    /\ lent' = lent \ {p}
    /\ client' = IF warmPools = NoPool THEN NoCall
                 ELSE [step |-> "check", pool |-> warmPools, drone |-> p]
    /\ UNCHANGED <<warmPools, pools, filler, cleanup, victims, fleet>>

CheckReturned ==
    /\ client.step = "check"
    /\ client' = IF IsRunning(client.drone) THEN [client EXCEPT !.step = "put"] ELSE NoCall
    /\ UNCHANGED <<warmPools, pools, filler, cleanup, victims, lent, fleet>>

ReturnDrone ==
    LET i == client.pool IN
    /\ client.step = "put"
    /\ IF CurrentSize(i) < pools[i].min
       THEN PutDrones(i, Append(WarmDrones(i), client.drone), 0)
       ELSE UNCHANGED pools
    /\ client' = NoCall
    /\ UNCHANGED <<warmPools, filler, cleanup, victims, lent, fleet>>

PoolStep ==
    \/ MaintainPools
    \/ \E a \in Fillers :
         \/ Filled(a) \/ LaunchWarm(a) \/ RecordWarm(a) \/ Ready(a) \/ Add(a)
    \/ Identify \/ Shrink \/ DiscardVictim \/ EndCleanup
    \/ AskDrone \/ GetWarmDrone \/ CheckReturned \/ ReturnDrone
    \/ \E p \in lent : BringBack(p)
    \/ TimePasses

--------------------------------------------------------------------------------
Pools == [min : Sizes, drones : Seq(Nat), idle : 0 .. 2, top : Nat]
FillCalls == [step : {"rest", "size", "record", "ready", "add", "identify", "shrink", "discard"},
              pool : Nat, min : Int, hand : Nat]
CleanupSteps == [pool : Nat, count : Nat, remove : BOOLEAN]

WarmPoolTypeOK ==
    /\ warmPools \in Nat /\ pools \in Seq(Pools)
    /\ filler \in [Fillers -> FillCalls]
    /\ cleanup \in Seq(CleanupSteps)
    /\ victims \in Seq(Nat)
    /\ lent \subseteq Nat
    /\ client \in [step : {"rest", "take", "check", "put"}, pool : Nat, drone : Nat]

================================================================================
