---------------------------- MODULE MCDeviceControl ----------------------------
EXTENDS DeviceControl, TLC

Interchangeable == Permutations(Threads)
=============================================================================
