------------------------------- MODULE Devices -------------------------------
(***************************************************************************)
(* The life of the rows of devices, as the services agree on it: a login   *)
(* inserts an active row, a logout revokes it, and nothing brings it back. *)
(* Sessions promises this; Messages sends under whatever it allows.        *)
(***************************************************************************)

CONSTANT Device

VARIABLE device  \* devices.status; "absent" before the login

Init == device \in [Device -> {"absent", "active"}]

Login(d) ==
  /\ device[d] = "absent"
  /\ device' = [device EXCEPT ![d] = "active"]

Logout(d) ==
  /\ device[d] = "active"
  /\ device' = [device EXCEPT ![d] = "revoked"]

Next == \E d \in Device : Login(d) \/ Logout(d)

Spec == Init /\ [][Next]_device
=============================================================================
