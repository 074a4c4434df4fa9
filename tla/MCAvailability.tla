---------------------------- MODULE MCAvailability -----------------------------
(* Instances of Availability for TLC.                                      *)
EXTENDS Availability

CONSTANT d1

MCDetached == {d1}

\* Everything at once; without expiring requests, what lasting connections
\* and Home Assistant's restarts lead to.
MCEverything ==
    {{"drop", "stop", "slow"}, {"ha", "stop", "create"}, {"drop", "ha"},
     {"ha", "command"}, {"drop", "stop", "command"}}

\* Home Assistant restarts and sends commands.
MCCommands == {{"ha", "command"}}

\* Nothing but connections that break.
MCDrops == {{"drop"}}

================================================================================
