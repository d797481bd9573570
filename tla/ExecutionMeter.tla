---------------------------- MODULE ExecutionMeter ----------------------------
(***************************************************************************)
(* What an execution is charged (packages/engine/src/bridge.ts,            *)
(* ExecutionMeter and ExecutionTrace, and resource-schedule.ts).           *)
(*                                                                         *)
(* The state of a run is a record.  code is "" while it goes on and else   *)
(* says why it does not: a fault, or the return, break or continue that is *)
(* on its way up.  value is what was evaluated last.                       *)
(***************************************************************************)
EXTENDS CanonicalCodec

CONSTANT FuelUnit   \* 16: the bytes one unit of fuel pays for

NoUsage == [fuel |-> 0, allocations |-> 0, allocatedBytes |-> 0, callDepth |-> 0, hostCalls |-> 0,
            traceBytes |-> 0, peakCallDepth |-> 0, peakCollectionItems |-> 0, peakValueBytes |-> 0,
            peakValueNodes |-> 0, peakValueDepth |-> 0]

Give(s, v)     == [s EXCEPT !.value = v]

-----------------------------------------------------------------------------
(* The schedule. *)
ByteFuel(bytes)       == (bytes + FuelUnit - 1) \div FuelUnit
AllocationFuel(bytes) == 1 + ByteFuel(bytes)
ScanFuel(nodes, bytes) == nodes + ByteFuel(bytes)
HostActionFuel(effectCost, inputBytes) == 1 + effectCost + ByteFuel(inputBytes)

\* The size of a length prefix, which the meter computes without encoding.
HeadSize(n) == IF n < Direct THEN 1 ELSE IF n < Base THEN 2 ELSE 3

(* canonicalMetrics: the depth, nodes and bytes of a value without its schema. *)
RECURSIVE Metrics(_)
Metrics(v) ==
  LET parts == CASE v.t = "list"   -> v.v
                 [] v.t = "record" -> [i \in DOMAIN v.v |-> v.v[i][2]]
                 [] OTHER          -> <<>>
      own == CASE v.t \in {"null", "bool"}   -> 1
               [] v.t = "float"              -> 2
               [] v.t = "int"                -> HeadSize(IF v.v >= 0 THEN v.v ELSE -1 - v.v)
               [] v.t = "text"               -> HeadSize(Len(v.v)) + Len(v.v)
               [] v.t \in {"list", "record"} -> HeadSize(Len(v.v))
      with(a, m) == [nodes |-> a.nodes + m.nodes, bytes |-> a.bytes + m.bytes,
                     depth |-> IF a.depth > m.depth + 1 THEN a.depth ELSE m.depth + 1]
  IN FoldLeft(LAMBDA a, part : with(a, Metrics(part)),
              [nodes |-> 1, bytes |-> own, depth |-> 0], parts)

-----------------------------------------------------------------------------
(* The meter. *)
Exhausted(s) == Fault(s, "resource_exhausted")

\* Nothing is charged unless all of it is within the limits.
Spend(s, fuel, allocations, bytes) ==
  LET next == [s.usage EXCEPT !.fuel = @ + fuel, !.allocations = @ + allocations, !.allocatedBytes = @ + bytes]
  IN IF \E k \in {"fuel", "allocations", "allocatedBytes"} : next[k] > s.limits[k] THEN Exhausted(s)
     ELSE [s EXCEPT !.usage = next]
Charge(s, fuel) == Spend(s, fuel, 0, 0)

Peak(a, b) == IF a > b THEN a ELSE b
ValueLimit(s, m) ==
  IF m.depth > s.limits.maxDepth \/ m.nodes > s.limits.maxNodes \/ m.bytes > s.limits.maxBytes
  THEN Fault(s, "value_limit") ELSE s
Observe(s, m) ==
  Go(ValueLimit(s, m), LAMBDA r :
     [r EXCEPT !.usage.peakValueDepth = Peak(@, m.depth), !.usage.peakValueNodes = Peak(@, m.nodes),
               !.usage.peakValueBytes = Peak(@, m.bytes)])
Allocate(s, v) ==
  LET charged(m) == Go(Go(ValueLimit(s, m), LAMBDA r : Spend(r, AllocationFuel(m.bytes), 1, m.bytes)), LAMBDA r : Observe(r, m))
  IN charged(Metrics(v))
Created(s, v) == Give(Go(s, LAMBDA r : Allocate(r, v)), v)
\* All values are paid for before the first is measured; the list around them is not.
Scan(s, values) ==
  LET paid(all) == Charge(s, ScanFuel(all.nodes - 1, all.bytes - HeadSize(Len(values))))
  IN FoldLeft(LAMBDA a, v : Go(a, LAMBDA r : Observe(r, Metrics(v))), paid(Metrics(List(values))), values)

Collection(s, items) ==
  IF items > s.limits.collectionItems THEN Exhausted(s)
  ELSE [s EXCEPT !.usage.peakCollectionItems = Peak(@, items)]
EnterCall(s) ==
  IF s.usage.callDepth + 1 > s.limits.callDepth THEN Exhausted(s)
  ELSE [s EXCEPT !.usage.callDepth = @ + 1, !.usage.peakCallDepth = Peak(@, s.usage.callDepth + 1)]
LeaveCall(s) == [s EXCEPT !.usage.callDepth = @ - 1]

\* One byte a record: the trace stops at the first that does not fit, for good.
Trace(s, event) ==
  IF ~s.tracing \/ s.truncated THEN s
  ELSE IF s.usage.traceBytes + 1 > s.limits.traceBytes THEN [s EXCEPT !.truncated = TRUE]
  ELSE [s EXCEPT !.usage.traceBytes = @ + 1, !.trace = Append(@, <<event, s.usage.fuel>>)]
=============================================================================
