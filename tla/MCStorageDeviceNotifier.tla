------------------------ MODULE MCStorageDeviceNotifier ------------------------
(* Instances of StorageDeviceNotifier: two devices that can be exchanged.  *)
EXTENDS StorageDeviceNotifier, TLC

CONSTANTS sda1, sdb1

DeviceSymmetry == Permutations(Devices)
=============================================================================
