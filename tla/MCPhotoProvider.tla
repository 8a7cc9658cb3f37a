-------------------------- MODULE MCPhotoProvider --------------------------
(* Small instances of PhotoProvider for TLC. *)
EXTENDS PhotoProvider, TLC

StartConfig == [w |-> IMG_MIN_SZ, h |-> IMG_MIN_SZ, qr |-> FALSE]

MemfdSymmetry == Permutations(Memfd)
=============================================================================
