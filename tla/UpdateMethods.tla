--------------------------- MODULE UpdateMethods ---------------------------
(***************************************************************************)
(* The update methods of the API by the way each argument gets into the    *)
(* request's body or headers:                                              *)
(*   "always"   it is sent whatever it is                                  *)
(*   "nonzero"  it is sent unless it is "", 0 or empty: omitempty, or a    *)
(*              test of its own                                            *)
(*   "asked"    it is sent when the caller passes it, zero or not: a       *)
(*              pointer with omitempty, or a header with a method of its   *)
(*              own                                                        *)
(***************************************************************************)

Encodings == {"always", "nonzero", "asked"}

UpdateDomain == [ttl |-> "always", email |-> "always"]

UpdateDNSRecord ==
  [name |-> "nonzero", type |-> "nonzero", data |-> "nonzero",
   priority |-> "asked", weight |-> "asked", port |-> "asked"]

UpdateVolume == [name |-> "always", description |-> "asked"]

UpdateBackupRetention == [retention |-> "always"]

UpdateSecurityGroup == [name |-> "nonzero", description |-> "nonzero"]

UpdatePort ==
  [security_groups |-> "nonzero", fixed_ips |-> "nonzero",
   allowed_address_pairs |-> "nonzero", qos_policy_id |-> "asked"]

\* UpdateLoadBalancer, UpdateListener, UpdateHealthMonitor
UpdateName == [name |-> "always"]

UpdatePool == [name |-> "nonzero", lb_algorithm |-> "nonzero"]

UpdateMember == [admin_state_up |-> "always"]

UpdateSubUser == [password |-> "always"]

UpdateRole == [name |-> "always"]

\* A POST of a map, which has the keys that the caller gives it.
UpdateServerMetadata == [key1 |-> "asked", key2 |-> "asked"]

\* EnableVersioning and DisableVersioning, EnableWebPublishing and its opposite
ContainerSettings == [versions_location |-> "asked", read |-> "asked"]

\* SetTempURLKey and RemoveTempURLKey, SetAccountQuota
AccountSettings == [temp_url_key |-> "asked", quota |-> "asked"]

AllMethods ==
  {UpdateDomain, UpdateDNSRecord, UpdateVolume, UpdateBackupRetention,
   UpdateSecurityGroup, UpdatePort, UpdateName, UpdatePool, UpdateMember,
   UpdateSubUser, UpdateRole, UpdateServerMetadata, ContainerSettings,
   AccountSettings}
=============================================================================
