---------------------------- MODULE MCDeviceManager ----------------------------
(* Instances of DeviceManager for TLC.                                     *)
EXTENDS DeviceManager

CONSTANTS p1, p2

\* One publisher that will not die and its successor.
MCPublishers == {p1, p2}

\* Everything the surroundings may do.
MCEverything == EnvEvents

\* Connections come and go, a publisher may not finish in time, and a signal.
MCConnections == {"drop", "join_timeout", "signal"}

\* A lasting connection on which the broker delivers commands, and a signal.
MCSignalAndCommands == {"signal", "inbound"}

\* The same, when stop() may take longer than main.rs waits for it.
MCSlowStop == {"signal", "inbound", "shutdown_timeout"}

\* A lasting connection on which the broker delivers commands.
MCCommands == {"inbound"}

================================================================================
