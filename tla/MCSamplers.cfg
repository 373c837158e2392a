\* One interface, for its neighbours share nothing with it; between two samples its
\* counter can wrap around and then pass the value it had. Three thermal zones, and
\* three lines of /proc/meminfo; a kB is 2 bytes and a quarter of Word.
SPECIFICATION SamplersSpec
CONSTANTS
  Ifaces = {wlan0}
  Width = 8
  Gone = gone
  MaxMoved = 10
  Failed = failed
  Word = 8
  KB = 2
  ZoneSlots = 3
  MaxLines = 3
  MaxKB = 2
INVARIANTS TypeOK NeverOverstated ExactWhenIntact
           HostTypeOK SnapshotIsSound LogTellsThrottling ZoneIsPreferred
