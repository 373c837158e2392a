------------------------------- MODULE System -------------------------------
(***************************************************************************)
(* internal/system: a goroutine reads load, memory and temperature, at     *)
(* once and then whenever its ticker fires, publishes what it could read   *)
(* and logs when the temperature passes the throttling threshold. No other *)
(* goroutine writes what a tick touches, so a tick is one step.            *)
(*                                                                         *)
(* The three load averages are one number.                                 *)
(***************************************************************************)
EXTENDS Integers, SequencesExt

CONSTANTS Word,      \* 2^64: sizes are uint64
          KB,        \* 1024 bytes
          Failed,    \* what a reader returns that fails
          ZoneSlots, \* bound on the thermal zones, for checking
          MaxLines,  \* bound on the lines of /proc/meminfo, for checking
          MaxKB      \* bound on the sizes in them: no host has 2^64 bytes of memory

ASSUME SystemAssumption == /\ Word \in Nat \ {0}
                           /\ ZoneSlots \in Nat \ {0} /\ MaxLines \in Nat
                           /\ KB \in Nat \ {0} /\ MaxKB \in Nat
                           /\ MaxKB * KB < Word

VARIABLES zones,  \* external: the type of each thermal zone
          run,    \* where Run is
          host,   \* *c.snap
          warned, \* Run's prevThrottled
          log,    \* history: what Run last logged about throttling
          zone,   \* history: the zone that the last sample read
          steady  \* history: the zones are those that the last sample found

hostVars == <<zones, run, host, warned, log, zone, steady>>

ThermalThrottle == 80

Sources == {"loadavg", "meminfo", "temp"}

NoMemory == [total |-> 0, used |-> 0]

Memory == [total : 0 .. MaxKB * KB, used : 0 .. MaxKB * KB]

-----------------------------------------------------------------------------

\* A line of /proc/meminfo; its value may be no number.
Lines == [name : {"MemTotal", "MemAvailable", "other"},
          kb : 0 .. MaxKB \cup {Failed}]

\* A line scanned: nothing is read any more once both sizes are known.
Scan(mem, line) ==
  IF line.kb = Failed \/ Failed \notin {mem.total, mem.avail}
    THEN mem
    ELSE CASE line.name = "MemTotal" -> [mem EXCEPT !.total = line.kb]
           [] line.name = "MemAvailable" -> [mem EXCEPT !.avail = line.kb]
           [] OTHER -> mem

\* The conversion of a size in kB.
Bytes(kb) == (kb * KB) % Word

\* Mutant: the kernel is believed.
UsedUnclamped(total, avail) == Bytes(total - avail)

\* Total minus available, which may not be the greater one.
Used(total, avail) == Bytes(total - (IF avail > total THEN total ELSE avail))

ParseMeminfo(lines) ==
  LET mem == FoldLeft(Scan, [total |-> Failed, avail |-> Failed], lines)
  IN  IF Failed \in {mem.total, mem.avail}
        THEN Failed
        ELSE [total |-> Bytes(mem.total), used |-> Used(mem.total, mem.avail)]

MemReadings == {Failed} \cup {ParseMeminfo(f) : f \in BoundedSeq(Lines, MaxLines)}

-----------------------------------------------------------------------------

Zones == 1 .. ZoneSlots

NoZone == 0

\* "cpu" stands for any other type with cpu in it, "other" for the rest and for a
\* type that cannot be read. Zone 1, the first in the directory, is thermal_zone0.
Types == {"none", "cpu-thermal", "bcm2712_thermal", "cpu", "other"}

\* The types that selectThermalZone remembers until it finds "cpu-thermal".
Lesser == {"bcm2712_thermal", "cpu"}

\* A zone scanned: the first "cpu-thermal" ends the scan; until then the first
\* of the lesser ones is remembered.
Accept(best, z) ==
  CASE best # NoZone /\ zones[best] = "cpu-thermal" -> best
    [] OTHER -> IF \/ zones[z] = "cpu-thermal"
                   \/ best = NoZone /\ zones[z] \in Lesser
                  THEN z ELSE best

\* Mutant: a zone once found is kept.
SelectOnce == IF zone # NoZone THEN zone ELSE FoldLeftDomain(Accept, NoZone, zones)

SelectThermalZone ==
  LET best == FoldLeftDomain(Accept, NoZone, zones)
  IN  IF best = NoZone /\ zones[1] # "none" THEN 1 ELSE best

\* What a zone reads; one that was chosen is not replaced when it cannot be read.
Temps(z) == {Failed} \cup IF z = NoZone THEN {} ELSE {ThermalThrottle - 1, ThermalThrottle}

-----------------------------------------------------------------------------

Snapshots == [load : {0, 1}, mem : Memory, temp : {0, ThermalThrottle - 1, ThermalThrottle},
              throttled : BOOLEAN, err : SUBSET Sources]

HostTypeOK == /\ zones \in [Zones -> Types]
              /\ run \in {"seed", "seeded", "wait", "stopped"}
              /\ host \in Snapshots
              /\ warned \in BOOLEAN
              /\ log \in {"nothing", "throttled", "cleared"}
              /\ zone \in Zones \cup {NoZone}
              /\ steady \in BOOLEAN

\* Mutant: nothing but an error is published before the first sample.
NoReadings == [err |-> {}]

NoInfo == [load |-> 0, mem |-> NoMemory, temp |-> 0, throttled |-> FALSE, err |-> {}]

HostInit == /\ zones \in [Zones -> Types]
            /\ run = "seed"
            /\ host = NoInfo
            /\ warned = FALSE
            /\ log = "nothing"
            /\ zone = NoZone
            /\ steady = FALSE

\* The readers run one after the other, each into a field of a new snapshot.
Measure ==
  /\ zone' = SelectThermalZone
  /\ steady' = TRUE
  /\ \E load \in {1, Failed}, mem \in MemReadings, temp \in Temps(zone') :
       host' = [load |-> IF load = Failed THEN NoInfo.load ELSE load,
                mem |-> IF mem = Failed THEN NoInfo.mem ELSE mem,
                temp |-> IF temp = Failed THEN NoInfo.temp ELSE temp,
                throttled |-> IF temp = Failed THEN NoInfo.throttled
                                               ELSE temp >= ThermalThrottle,
                err |-> {s \in Sources : Failed = CASE s = "loadavg" -> load
                                                    [] s = "meminfo" -> mem
                                                    [] s = "temp" -> temp}]
  /\ UNCHANGED zones

\* The sample that Run takes before its loop; nothing is logged of it.
Seed == /\ run = "seed"
        /\ Measure
        /\ run' = "seeded"
        /\ UNCHANGED <<warned, log>>

\* Mutant: only an alarm is remembered.
WarnOnce == /\ warned' = (warned \/ host'.throttled)
            /\ log' = IF warned = host'.throttled THEN log
                      ELSE IF host'.throttled THEN "throttled" ELSE "cleared"

\* A change is logged and remembered.
Warn == IF warned = host'.throttled
          THEN UNCHANGED <<warned, log>>
          ELSE /\ warned' = host'.throttled
               /\ log' = IF host'.throttled THEN "throttled" ELSE "cleared"

\* The ticker fires.
Loop == /\ run \in {"seeded", "wait"}
        /\ Measure
        /\ Warn
        /\ run' = "wait"

\* The context is done when Run waits.
Done == /\ run \in {"seeded", "wait"}
        /\ run' = "stopped"
        /\ UNCHANGED <<zones, host, warned, log, zone, steady>>

\* External: a sensor appears late, or its driver is unloaded.
Hotplug(z) == /\ \E t \in Types \ {zones[z]} :
                   /\ "none" \in {t, zones[z]}
                   /\ zones' = [zones EXCEPT ![z] = t]
              /\ steady' = FALSE
              /\ UNCHANGED <<run, host, warned, log, zone>>

HostNext == Seed \/ Loop \/ Done \/ \E z \in Zones : Hotplug(z)

HostSpec == HostInit /\ [][HostNext]_hostVars

-----------------------------------------------------------------------------

\* info.go:185 and 197: whichever readers fail, no field of a snapshot is left
\* over from an earlier one, nothing is read as throttled without a temperature,
\* and no more memory is used than there is.
SnapshotIsSound ==
  /\ "loadavg" \in host.err => host.load = 0
  /\ "meminfo" \in host.err => host.mem = NoMemory
  /\ "temp" \in host.err => host.temp = 0
  /\ host.throttled <=> host.temp >= ThermalThrottle
  /\ host.mem.used <= host.mem.total

\* info.go:139: what was last logged is what the last sample of the loop found,
\* through any sequence of alarms, all-clears and failed readings.
LogTellsThrottling ==
  run = "wait" => (host.throttled <=> log = "throttled")

\* info.go:68 and 306: a sample reads the zone that is best when it is taken,
\* however late it appeared and wherever it stands in the directory: one of type
\* "cpu-thermal" before all others, then one of a lesser type, then zone 0, if
\* there is one.
ZoneIsPreferred ==
  steady =>
    LET Typed(T) == {z \in Zones : zones[z] \in T}
        Best == Typed({"cpu-thermal"})
    IN  CASE Best # {} -> zone \in Best
          [] Best = {} /\ Typed(Lesser) # {} -> zone \in Typed(Lesser)
          [] OTHER -> zone = IF zones[1] = "none" THEN NoZone ELSE 1

==============================================================================
