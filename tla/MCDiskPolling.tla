--------------------------- MODULE MCDiskPolling ----------------------------
(* Small instances of DiskPolling for TLC.                                  *)
EXTENDS DiskPolling, TLC

CONSTANTS sda, dm0

MCDevices == {sda, dm0}
MCMapper == {dm0}
MCRead == {"read"}
MCNameOrder == (dm0 :> 1) @@ (sda :> 2)

\* As config/config.lua has it, but for the named devices.
MCStorages ==
  {[filesystems |-> <<sda>>, io_devices |-> {},
    filters |-> {"Loopback", "MapperDevices"}]}

MCDeviceFiles == {<<dm0>>, <<dm0, dm0>>, <<sda, dm0>>}

\* Discovery with all filters off; a named device and another with a path.
MCInjected ==
  LET Context(p, io, settings) ==
        [storage |-> NothingWritten,
         filesystems |-> p, io_devices |-> io, disk_stat_config |-> settings]
  IN  {Context(<<>>, {}, {"Loopback", "MapperDevices", "Partitions"}),
       Context(<<dm0>>, {sda}, {})}
=============================================================================
