-------------------------- MODULE MCFirmwareCache --------------------------
(* FirmwareCache on small instances.                                       *)
EXTENDS FirmwareCache

CONSTANTS community

\* One repository for every community kind.
MCSource == [kind \in CommunityKind |-> community]
=============================================================================
