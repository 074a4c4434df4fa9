------------------------------ MODULE MCDeviceData ------------------------------
(* Instances of DeviceData: the shapes of the two kinds of devices.           *)
EXTENDS DeviceData

CONSTANTS stream, initialize, none

MCReaders == {stream, initialize}
\* container_device.rs:334, and of :222 the first two that read.
HostDevice == <<"plain", "debounced", "debounced">>
ContainerDevice == <<"logs", "plain">>
MCShapes == {HostDevice, ContainerDevice}
\* Nothing goes wrong, or anything.
MCEnvs == {{}, {"fail", "cancel"}}

===============================================================================
