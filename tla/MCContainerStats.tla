---------------------------- MODULE MCContainerStats ----------------------------
(* Instances of ContainerStats: two readers of one container.                *)
EXTENDS ContainerStats

CONSTANTS stream, initialize, none

MCReaders == {stream, initialize}
MCEnvs == {{}, {"fail", "stateless"}}

================================================================================
