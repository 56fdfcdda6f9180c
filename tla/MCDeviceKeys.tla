---------------------------- MODULE MCDeviceKeys -----------------------------
(* DeviceKeys for TLC: two phones, three registrations, a cap of two with  *)
(* one other device registered already, and five keys in all.              *)
EXTENDS DeviceKeys, TLC

CONSTANTS k1, k2, k3, k4

MCSymmetry == Permutations(Tasks) \cup Permutations(Phones) \cup Permutations({k2, k3, k4})
=============================================================================
