CONSTANTS MaxCalls = 4
 MaxSignals = 2
 ChainLength = 2
 Hosts <- MCHosts
SPECIFICATION Spec
INVARIANTS StagesAgree NothingUntranslated UserIsClean
PROPERTIES Promised Answered
