----------------------------- MODULE ProtoConversion -----------------------------
(***************************************************************************)
(* What internal/api/grpc_convert.go does to a resource that travels as a  *)
(* protobuf message.  A part of a message can be missing where a Go struct *)
(* has a zero value; the conversion leaves a part out when the fields it   *)
(* looks at are zero, and never carries the replicas of a stage.           *)
(***************************************************************************)
EXTENDS Integers

CONSTANT Missing       \* a part the message does not have

(* The parts of a resource: guardrails, the limits of an agent's scaling,   *)
(* and a cell's quota.                                                      *)
GuardrailConfigs == [limit : Nat, budget : Nat]
ScalingConfigs == [min : Nat, max : Nat]
ResourceQuotas == [hives : Nat, memory : Int]

ASSUME MissingAssumption ==
    Missing \notin GuardrailConfigs \cup ScalingConfigs \cup ResourceQuotas

--------------------------------------------------------------------------------
(* Guardrails: limit stands for the response timeout and the rate limit,    *)
(* budget for the token budgets and the output schema.                      *)

NoGuardrails == [limit |-> 0, budget |-> 0]

GuardrailConfigToProto(gc) == IF gc.limit > 0 THEN gc ELSE Missing

GuardrailConfigFromProto(msg) == IF msg = Missing THEN NoGuardrails ELSE msg

--------------------------------------------------------------------------------
(* Each resource to its message and back.                                   *)

AgentSpecToProto(spec) ==
    [scaling |-> IF spec.scaling.min > 0 \/ spec.scaling.max > 0
                 THEN spec.scaling ELSE Missing,
     guardrails |-> GuardrailConfigToProto(spec.guardrails)]

AgentSpecFromProto(msg) ==
    [scaling |-> IF msg.scaling = Missing THEN [min |-> 0, max |-> 0] ELSE msg.scaling,
     guardrails |-> GuardrailConfigFromProto(msg.guardrails)]

(* The message has a field for the replicas, which nothing fills.           *)
StageToProto(replicas) == 0

StageFromProto(msg) == 0

HiveToProto(hive) ==
    [stages |-> [s \in DOMAIN hive.stages |-> StageToProto(hive.stages[s])],
     guardrails |-> GuardrailConfigToProto(hive.guardrails)]

HiveFromProto(msg) ==
    [stages |-> [s \in DOMAIN msg.stages |-> StageFromProto(msg.stages[s])],
     guardrails |-> GuardrailConfigFromProto(msg.guardrails)]

(* hives stands for the limits of hives and of drones, memory for the other *)
(* two limits of a quota.                                                   *)
CellToProto(cell) == [quota |-> IF cell.quota.hives > 0 THEN cell.quota ELSE Missing]

CellFromProto(msg) ==
    [quota |-> IF msg.quota = Missing THEN [hives |-> 0, memory |-> 0] ELSE msg.quota]
================================================================================
