----------------------------- MODULE MC_ModeFilter -----------------------------
(* Every set-ID combination over permissions that set each permission     *)
(* bit, as a plain file, a directory and with no type bits.               *)
EXTENDS ModeFilter

MCPerms == {0, 1, 2, 4, 7, 56, 73, 146, 292, 420, 493, 511}

MCModes == {t + s * 512 + p : t \in {0, 16384, 32768}, s \in 0..7, p \in MCPerms}
=============================================================================
