---------------------------- MODULE MCDeviceAuth ----------------------------
(* Small instances of DeviceAuth for TLC.                                     *)
EXTENDS DeviceAuth, TLC

(* A device that is behind, one that is ahead, and one so far ahead that a    *)
(* Duration only just holds the difference, or does not.                      *)
SomeOffsets == {-1, 1, 6}

T   == <<"t", "unix">>
Sig == <<"sig", "hmac">>

(* Conforming headers: as the client lays it out, reordered, with a key id;   *)
(* repeated, incomplete, unreadable and spoilt ones.                          *)
SomeLayouts == {<<T, Sig>>, <<Sig, T>>, <<T, <<"kid", "1">>, Sig>>,
                <<<<"t", "">>, T, Sig>>, <<T, Sig, <<"t", "noon">>>>, <<T>>, <<Sig>>, <<>>,
                <<T, <<"sig", "nothex">>>>, <<T, <<"sig", "">>>>, <<T, Sig, <<"", "x">>>>}

Symmetry == Permutations(Devices) \cup Permutations(Secrets)
=============================================================================
