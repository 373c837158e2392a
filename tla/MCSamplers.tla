----------------------------- MODULE MCSamplers -----------------------------
(***************************************************************************)
(* The throughput sampler and the system sampler, which main starts in     *)
(* goroutines of their own, in one model for TLC. They share no variable,  *)
(* and every property is about one of them, so that a behaviour runs one,  *)
(* chosen at the start, while the other has not begun.                     *)
(***************************************************************************)
EXTENDS Netstats, System

VARIABLE sampler \* the one that runs

SamplersInit == /\ Init
                /\ HostInit
                /\ sampler \in {"netstats", "system"}
                /\ sampler = "system" => dev = Absent
                /\ sampler = "netstats" => zones = [z \in Zones |-> "none"]

SamplersNext == \/ /\ sampler = "netstats"
                   /\ Next
                   /\ UNCHANGED <<zones, run, host, warned, log, zone, steady, sampler>>
                \/ /\ sampler = "system"
                   /\ HostNext
                   /\ UNCHANGED <<dev, pc, cur, prev, snap, moved, intact, real, sampler>>

SamplersSpec ==
  SamplersInit
  /\ [][SamplersNext]_<<dev, pc, cur, prev, snap, moved, intact, real,
                        zones, run, host, warned, log, zone, steady, sampler>>

==============================================================================
