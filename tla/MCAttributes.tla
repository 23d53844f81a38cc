---------------------------- MODULE MCAttributes ----------------------------
(* Attributes with every attribute it describes. *)
EXTENDS Attributes

AllKinds ==
    {teamDescription, teamVisibility, folderDescription, memberType, tagDescription,
     userAttributeText, userAttributeDefault, connectorDescription, credentialDescription,
     connectorAuth, connectionPoolSizes, connectionFriendly, policyNameInTenant,
     tenantCloudProvider, embedSource, scheduleKey, scheduleSuspended}
=============================================================================
